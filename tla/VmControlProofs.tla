--------------------------- MODULE VmControlProofs ---------------------------
(***************************************************************************)
(* Proofs about VmControl, for every value of its constants: IInv is       *)
(* inductive, so the types, the stacking of activations, the nesting of    *)
(* handlers and the soundness of saved coroutines and continuations hold   *)
(* in every state the specification reaches.                               *)
(*                                                                         *)
(* IInv is proved in two halves: the running context (frames, stack top,   *)
(* handlers, natives and loops), and what is held for later (coroutines    *)
(* and continuations).  Each action has one lemma.                         *)
(***************************************************************************)
EXTENDS VmControl, TLAPS, SequenceTheorems

-----------------------------------------------------------------------------
(* What the operators that cut and join contexts preserve: well formed     *)
(* contexts stay well formed.  Facts about data only, used once per        *)
(* action.                                                                 *)

(* Types of the parts of a frame and of a handler.                         *)
LEMMA FrameAt ==
  ASSUME NEW fs \in Seq(Frame), NEW i \in 1..Len(fs)
  PROVE  /\ fs[i] \in Frame
         /\ fs[i].cl \in Closures /\ fs[i].base \in Nat /\ fs[i].ret \in Nat
         /\ fs[i].tries \in Seq(Nat) /\ Len(fs[i].tries) \in Nat
         /\ \A l \in 1..Len(fs[i].tries) : fs[i].tries[l] \in Nat
  <1>1. fs[i] \in Frame
    OBVIOUS
  <1>2. fs[i].tries \in Seq(Nat)
    BY <1>1 DEF Frame
  <1>. QED
    BY <1>1, <1>2 DEF Frame

(* A recorded handler and its fields.                                      *)
LEMMA HandlerAt ==
  ASSUME NEW hs \in Seq(Handler), NEW h \in 1..Len(hs)
  PROVE  /\ hs[h] \in Handler
         /\ hs[h].fc \in Nat /\ hs[h].sc \in Nat /\ hs[h].level \in Nat
  <1>1. hs[h] \in Handler
    OBVIOUS
  <1>. QED
    BY <1>1 DEF Handler

(* The last element of a sequence that is not empty.                       *)
LEMMA LastOf ==
  ASSUME NEW S, NEW s \in Seq(S), s # <<>>
  PROVE  /\ Len(s) \in Nat /\ Len(s) >= 1 /\ Len(s) \in 1..Len(s)
         /\ Last(s) = s[Len(s)] /\ Last(s) \in S
  BY EmptySeq DEF Last

(* A function on 1..n is a sequence of length n.                           *)
LEMMA SeqOfFunction ==
  ASSUME NEW S, NEW n \in Nat, NEW g \in [1..n -> S]
  PROVE  g \in Seq(S) /\ Len(g) = n
  BY SeqDef, LenProperties

(* The elements of two sequences put together.                             *)
LEMMA Joined ==
  ASSUME NEW S, NEW s \in Seq(S), NEW t \in Seq(S)
  PROVE  /\ s \o t \in Seq(S) /\ Len(s \o t) = Len(s) + Len(t)
         /\ \A i \in 1..Len(s) : (s \o t)[i] = s[i]
         /\ \A i \in 1..Len(t) : (s \o t)[Len(s) + i] = t[i]
  <1>1. Len(s) \in Nat /\ Len(t) \in Nat
    BY LenProperties
  <1>2. ASSUME NEW i \in 1..Len(t)
        PROVE  (s \o t)[Len(s) + i] = t[i]
    <2>1. /\ Len(s) + i \in 1..Len(s) + Len(t) /\ ~(Len(s) + i <= Len(s))
          /\ (Len(s) + i) - Len(s) = i
      BY <1>1
    <2>. QED
      BY <2>1, ConcatProperties
  <1>3. \A i \in 1..Len(s) : i \in 1..Len(s) + Len(t) /\ i <= Len(s)
    BY <1>1
  <1>. QED
    BY <1>2, <1>3, ConcatProperties

(* A well formed context with code running in it is at least as high as    *)
(* that code may pop to.                                                   *)
LEMMA FloorReached ==
  ASSUME NEW fs \in Seq(Frame), NEW s \in Nat, NEW hs \in Seq(Handler),
         fs # <<>>, WellFormed(fs, s, hs)
  PROVE  /\ FloorOf(fs) \in Nat
         /\ FloorOf(fs) <= s
         /\ fs[Len(fs)].base + FixedSlots <= FloorOf(fs)
         /\ \A l \in 1..Len(fs[Len(fs)].tries) :
              fs[Len(fs)].base + fs[Len(fs)].tries[l] <= FloorOf(fs)
  <1>. DEFINE n == Len(fs)
              ts == fs[n].tries
  <1>1. n \in 1..Len(fs) /\ Last(fs) = fs[n]
    BY LastOf
  <1>2. fs[n].base \in Nat /\ ts \in Seq(Nat) /\ \A l \in 1..Len(ts) : ts[l] \in Nat
    BY <1>1, FrameAt
  <1>3. fs[n].base + FixedSlots <= s /\ FixedSlots \in Nat
    BY <1>1, ContextAssumption DEF WellFormed, FramesStacked, Ceiling
  <1>4. \A l \in 1..Len(ts) : FixedSlots <= ts[l] /\ fs[n].base + ts[l] <= s
    BY <1>1 DEF WellFormed, FramesStacked, Ceiling
  <1>5. \A l, m \in 1..Len(ts) : l < m => ts[l] <= ts[m]
    BY <1>1 DEF WellFormed, FramesStacked
  <1>6. CASE ts = <<>>
    BY <1>1, <1>2, <1>3, <1>6 DEF FloorOf
  <1>7. CASE ts # <<>>
    <2>1. Len(ts) \in 1..Len(ts) /\ Last(ts) = ts[Len(ts)]
      BY <1>2, <1>7, LastOf
    <2>2. FloorOf(fs) = fs[n].base + ts[Len(ts)]
      BY <1>1, <1>7, <2>1 DEF FloorOf
    <2>3. \A l \in 1..Len(ts) : ts[l] <= ts[Len(ts)]
      BY <1>2, <1>5, <2>1
    <2>4. /\ fs[n].base \in Nat /\ ts[Len(ts)] \in Nat
          /\ FixedSlots <= ts[Len(ts)] /\ fs[n].base + ts[Len(ts)] <= s
          /\ \A l \in 1..Len(ts) : ts[l] \in Nat
      BY <1>2, <1>4, <2>1
    <2>5. \A l \in 1..Len(ts) : fs[n].base + ts[l] <= fs[n].base + ts[Len(ts)]
      BY <2>3, <2>4
    <2>. QED
      BY <1>3, <2>2, <2>4, <2>5
  <1>. QED
    BY <1>6, <1>7

(* The stack top may move anywhere above the floor.                        *)
LEMMA HeightMoves ==
  ASSUME NEW fs \in Seq(Frame), NEW s \in Nat, NEW hs \in Seq(Handler),
         NEW t \in Nat, fs # <<>>, WellFormed(fs, s, hs), t >= FloorOf(fs)
  PROVE  WellFormed(fs, t, hs)
  <1>1. /\ FloorOf(fs) \in Nat
        /\ fs[Len(fs)].base + FixedSlots <= FloorOf(fs)
        /\ \A l \in 1..Len(fs[Len(fs)].tries) :
              fs[Len(fs)].base + fs[Len(fs)].tries[l] <= FloorOf(fs)
    BY FloorReached
  <1>2. \A i \in 1..Len(fs) : 
           /\ fs[i].base \in Nat
           /\ \A l \in 1..Len(fs[i].tries) : fs[i].tries[l] \in Nat
    BY FrameAt
  <1>3. FramesStacked(fs, t)
    <2>1. \A i \in 1..Len(fs) : fs[i].base + FixedSlots <= Ceiling(fs, t, i)
      BY <1>1, <1>2, ContextAssumption DEF WellFormed, FramesStacked, Ceiling
    <2>2. \A i \in 1..Len(fs) : \A l \in 1..Len(fs[i].tries) :
             fs[i].base + fs[i].tries[l] <= Ceiling(fs, t, i)
      BY <1>1, <1>2 DEF WellFormed, FramesStacked, Ceiling
    <2>. QED
      BY <2>1, <2>2 DEF WellFormed, FramesStacked
  <1>. QED
    BY <1>3 DEF WellFormed

(* The empty context is well formed at any height.                         *)
LEMMA EmptyContext ==
  ASSUME NEW s \in Nat
  PROVE  WellFormed(<<>>, s, <<>>)
  BY EmptySeq DEF WellFormed, FramesStacked, HandlersNested

(* Trimming keeps exactly the handlers of the frames that stay.            *)
LEMMA TrimKeeps ==
  ASSUME NEW fs \in Seq(Frame), NEW hs \in Seq(Handler),
         NEW n \in Nat, NEW k, HandlersNested(fs, hs), IsTrim(hs, n, k)
  PROVE  /\ k \in 0..Len(hs)
         /\ SubSeq(hs, 1, k) \in Seq(Handler)
         /\ Len(SubSeq(hs, 1, k)) = k
         /\ \A h \in 1..k : SubSeq(hs, 1, k)[h] = hs[h]
         /\ \A h \in 1..k : hs[h].fc <= n
  <1>1. k \in 0..Len(hs) /\ (k > 0 => hs[k].fc <= n)
    BY DEF IsTrim
  <1>2. \A h \in 1..Len(hs) : hs[h].fc \in Nat
    BY HandlerAt
  <1>3. \A h \in 1..k : hs[h].fc <= n
    <2>1. \A h \in 1..k : h < k => hs[h].fc <= hs[k].fc
      BY <1>1, <1>2 DEF HandlersNested
    <2>. QED
      BY <1>1, <1>2, <2>1
  <1>. QED
    BY <1>1, <1>3

(* Dropping the frames above n, with their handlers, at a height where the *)
(* first dropped frame had its slots or above: return, yield, abort.       *)
THEOREM PrefixContext ==
  ASSUME NEW fs \in Seq(Frame), NEW s \in Nat, NEW hs \in Seq(Handler),
         NEW n \in Nat, n < Len(fs), NEW k, NEW t \in Nat,
         WellFormed(fs, s, hs), IsTrim(hs, n, k), t >= fs[n+1].base
  PROVE  /\ SubSeq(fs, 1, n) \in Seq(Frame) /\ Len(SubSeq(fs, 1, n)) = n
         /\ SubSeq(hs, 1, k) \in Seq(Handler)
         /\ WellFormed(SubSeq(fs, 1, n), t, SubSeq(hs, 1, k))
  <1>. DEFINE ps == SubSeq(fs, 1, n)
              ks == SubSeq(hs, 1, k)
  <1>0. Len(fs) \in Nat /\ \A i \in 1..n : i \in 1..Len(fs) /\ i + 1 \in 1..Len(fs)
    OBVIOUS
  <1>1. ps \in Seq(Frame) /\ Len(ps) = n /\ \A i \in 1..n : ps[i] = fs[i]
    OBVIOUS
  <1>2. /\ k \in 0..Len(hs) /\ ks \in Seq(Handler) /\ Len(ks) = k
        /\ \A h \in 1..k : ks[h] = hs[h]
        /\ \A h \in 1..k : hs[h].fc <= n
    BY TrimKeeps DEF WellFormed
  <1>3. \A i \in 1..Len(fs) :
           /\ fs[i].base \in Nat
           /\ \A l \in 1..Len(fs[i].tries) : fs[i].tries[l] \in Nat
    BY FrameAt
  <1>4. \A i \in 1..n : Ceiling(fs, s, i) \in Nat /\ Ceiling(fs, s, i) <= Ceiling(ps, t, i)
    BY <1>1, <1>3 DEF Ceiling
  <1>5. FramesStacked(ps, t)
    <2>0. \A i \in 1..n : Ceiling(ps, t, i) \in Nat
      BY <1>1, <1>3 DEF Ceiling
    <2>1. \A i \in 1..n : ps[i].base + FixedSlots <= Ceiling(ps, t, i)
      <3>1. ASSUME NEW i \in 1..n
            PROVE  ps[i].base + FixedSlots <= Ceiling(ps, t, i)
        <4>. DEFINE b == fs[i].base
                    u == Ceiling(fs, s, i)
                    v == Ceiling(ps, t, i)
        <4>1. ps[i].base = b /\ b + FixedSlots <= u
          BY <1>0, <1>1 DEF WellFormed, FramesStacked
        <4>2. b \in Nat /\ u \in Nat /\ v \in Nat /\ FixedSlots \in Nat /\ u <= v
          BY <1>0, <1>3, <1>4, <2>0, ContextAssumption
        <4>. HIDE DEF b, u, v, ps
        <4>3. b + FixedSlots <= v
          BY <4>1, <4>2
        <4>. QED
          BY <4>1, <4>3 DEF v
      <3>. QED
        BY <3>1
    <2>2. \A i \in 1..n : \A l \in 1..Len(ps[i].tries) :
             ps[i].base + ps[i].tries[l] <= Ceiling(ps, t, i)
      <3>1. ASSUME NEW i \in 1..n, NEW l \in 1..Len(ps[i].tries)
            PROVE  ps[i].base + ps[i].tries[l] <= Ceiling(ps, t, i)
        <4>. DEFINE b == fs[i].base
                    a == fs[i].tries[l]
                    u == Ceiling(fs, s, i)
                    v == Ceiling(ps, t, i)
        <4>1. ps[i].base = b /\ ps[i].tries[l] = a /\ b + a <= u
          BY <1>0, <1>1 DEF WellFormed, FramesStacked
        <4>2. b \in Nat /\ a \in Nat /\ u \in Nat /\ v \in Nat /\ u <= v
          BY <1>0, <1>1, <1>3, <1>4, <2>0
        <4>. HIDE DEF a, b, u, v, ps
        <4>3. b + a <= v
          BY <4>1, <4>2
        <4>. QED
          BY <4>1, <4>3 DEF v
      <3>. QED
        BY <3>1
    <2>3. /\ \A i, j \in 1..n : i < j => fs[i].base + FixedSlots <= fs[j].base
          /\ \A i \in 1..n : \A l \in 1..Len(fs[i].tries) :
                /\ FixedSlots <= fs[i].tries[l]
                /\ \A g \in 1..Len(fs[i].tries) :
                      l < g => fs[i].tries[l] <= fs[i].tries[g]
      <3>1. \A i \in 1..n : i \in 1..Len(fs)
        BY <1>0, <1>1
      <3>. HIDE DEF ps
      <3>. QED
        BY <3>1 DEF WellFormed, FramesStacked
    <2>4. \A i, j \in 1..n : i < j => ps[i].base + FixedSlots <= ps[j].base
      <3>. HIDE DEF ps
      <3>. QED
        BY ONLY <1>1, <2>3
    <2>5. \A i \in 1..n : \A l \in 1..Len(ps[i].tries) :
             /\ FixedSlots <= ps[i].tries[l]
             /\ \A g \in 1..Len(ps[i].tries) :
                   l < g => ps[i].tries[l] <= ps[i].tries[g]
      <3>. HIDE DEF ps
      <3>. QED
        BY ONLY <1>1, <2>3
    <2>6. Len(ps) = n
      BY <1>1
    <2>. HIDE DEF ps
    <2>. QED
      BY ONLY <2>1, <2>2, <2>4, <2>5, <2>6 DEF FramesStacked
  <1>6. HandlersNested(ps, ks)
    <2>. HIDE DEF ps, ks
    <2>1. \A h \in 1..k : h \in 1..Len(hs) /\ hs[h].fc \in 1..n
      BY <1>2, HandlerAt DEF WellFormed, HandlersNested
    <2>2. ASSUME NEW h \in 1..k
          PROVE  /\ ks[h].fc \in 1..Len(ps)
                 /\ ks[h].level < Len(ps[ks[h].fc].tries)
                 /\ ks[h].sc = ps[ks[h].fc].base + ps[ks[h].fc].tries[ks[h].level + 1]
      <3>1. ks[h] = hs[h] /\ hs[h].fc \in 1..n /\ ps[hs[h].fc] = fs[hs[h].fc]
        BY <1>1, <1>2, <2>1
      <3>2. /\ hs[h].level < Len(fs[hs[h].fc].tries)
            /\ hs[h].sc = fs[hs[h].fc].base + fs[hs[h].fc].tries[hs[h].level + 1]
        BY <2>1 DEF WellFormed, HandlersNested
      <3>. QED
        BY <1>1, <3>1, <3>2
    <2>3. \A g, h \in 1..k : g < h =>
            \/ ks[g].fc < ks[h].fc
            \/ ks[g].fc = ks[h].fc /\ ks[g].level < ks[h].level
      BY <1>2, <2>1 DEF WellFormed, HandlersNested
    <2>. QED
      BY <1>2, <2>2, <2>3 DEF HandlersNested
  <1>. QED
    BY <1>1, <1>2, <1>5, <1>6 DEF WellFormed

(* A fresh activation whose slots start at b, where the context is well    *)
(* formed.                                                                 *)
THEOREM PushContext ==
  ASSUME NEW fs \in Seq(Frame), NEW b \in Nat, NEW hs \in Seq(Handler),
         NEW c \in Closures, WellFormed(fs, b, hs)
  PROVE  /\ Append(fs, NewFrame(c, b)) \in Seq(Frame)
         /\ WellFormed(Append(fs, NewFrame(c, b)), b + FixedSlots, hs)
  <1>. DEFINE fr == NewFrame(c, b)
              gs == Append(fs, fr)
  <1>0. FixedSlots \in Nat /\ <<>> \in Seq(Nat) /\ Len(<<>>) = 0
    BY ContextAssumption
  <1>1. fr \in Frame /\ fr.base = b /\ fr.tries = <<>>
    BY <1>0 DEF NewFrame, Frame
  <1>2. /\ gs \in Seq(Frame) /\ Len(gs) = Len(fs) + 1
        /\ \A i \in 1..Len(fs) : gs[i] = fs[i]
        /\ gs[Len(fs) + 1] = fr
    BY <1>1
  <1>3. \A i \in 1..Len(fs) : Ceiling(gs, b + FixedSlots, i) = Ceiling(fs, b, i)
    BY <1>1, <1>2 DEF Ceiling
  <1>4. \A i \in 1..Len(fs) : fs[i].base \in Nat
    BY FrameAt
  <1>5. \A i \in 1..Len(fs) : fs[i].base + FixedSlots <= b
    <2>1. \A i \in 1..Len(fs) : i < Len(fs) => fs[i].base + FixedSlots <= fs[Len(fs)].base
      BY DEF WellFormed, FramesStacked
    <2>2. Len(fs) > 0 => fs[Len(fs)].base + FixedSlots <= b
      BY DEF WellFormed, FramesStacked, Ceiling
    <2>. QED
      BY <1>0, <1>4, <2>1, <2>2
  <1>6. FramesStacked(gs, b + FixedSlots)
    <2>1. \A i \in 1..Len(gs) : gs[i].base + FixedSlots <= Ceiling(gs, b + FixedSlots, i)
      <3>1. ASSUME NEW i \in 1..Len(fs)
            PROVE  gs[i].base + FixedSlots <= Ceiling(gs, b + FixedSlots, i)
        BY <1>2, <1>3 DEF WellFormed, FramesStacked
      <3>2. gs[Len(gs)].base + FixedSlots <= Ceiling(gs, b + FixedSlots, Len(gs))
        BY <1>0, <1>1, <1>2 DEF Ceiling
      <3>. QED
        BY <1>2, <3>1, <3>2
    <2>2. \A i, j \in 1..Len(gs) : i < j => gs[i].base + FixedSlots <= gs[j].base
      <3>1. \A i, j \in 1..Len(fs) : i < j => gs[i].base + FixedSlots <= gs[j].base
        BY <1>2 DEF WellFormed, FramesStacked
      <3>2. \A i \in 1..Len(fs) : gs[i].base + FixedSlots <= gs[Len(fs) + 1].base
        BY <1>1, <1>2, <1>5
      <3>3. ASSUME NEW i \in 1..(Len(fs) + 1), NEW j \in 1..(Len(fs) + 1), i < j
            PROVE  gs[i].base + FixedSlots <= gs[j].base
        <4>1. i \in 1..Len(fs)
          BY <3>3
        <4>2. CASE j = Len(fs) + 1
          BY <3>2, <4>1, <4>2
        <4>3. CASE j \in 1..Len(fs)
          BY <3>1, <3>3, <4>1, <4>3
        <4>. QED
          BY <4>2, <4>3
      <3>. HIDE DEF gs
      <3>. QED
        BY <1>2, <3>3
    <2>3. \A i \in 1..Len(gs) : \A l \in 1..Len(gs[i].tries) :
            /\ FixedSlots <= gs[i].tries[l]
            /\ gs[i].base + gs[i].tries[l] <= Ceiling(gs, b + FixedSlots, i)
            /\ \A m \in 1..Len(gs[i].tries) :
                  l < m => gs[i].tries[l] <= gs[i].tries[m]
      BY <1>0, <1>1, <1>2, <1>3 DEF WellFormed, FramesStacked
    <2>. QED
      BY <2>1, <2>2, <2>3 DEF FramesStacked
  <1>7. HandlersNested(gs, hs)
    <2>1. HandlersNested(fs, hs)
      BY DEF WellFormed
    <2>2. \A h \in 1..Len(hs) : hs[h].fc \in 1..Len(fs)
      BY <2>1 DEF HandlersNested
    <2>3. \A h \in 1..Len(hs) : /\ hs[h].fc \in 1..Len(gs)
                                /\ gs[hs[h].fc] = fs[hs[h].fc]
      BY <1>2, <2>2
    <2>. HIDE DEF gs
    <2>. QED
      BY <2>1, <2>3 DEF HandlersNested
  <1>. QED
    BY <1>2, <1>6, <1>7 DEF WellFormed

(* What a saved activation is made of.                                     *)
LEMMA SavedAt ==
  ASSUME NEW sv \in Saved
  PROVE  /\ sv.frames \in Seq(Frame) /\ sv.handlers \in Seq(Handler)
         /\ sv.size \in Nat /\ sv.needs \in BOOLEAN
  BY DEF Saved

(* A frame with its slots elsewhere.                                       *)
LEMMA MovedFrame ==
  ASSUME NEW fr \in Frame, NEW x \in Nat
  PROVE  /\ [fr EXCEPT !.base = x] \in Frame
         /\ [fr EXCEPT !.base = x].cl = fr.cl
         /\ [fr EXCEPT !.base = x].base = x
         /\ [fr EXCEPT !.base = x].tries = fr.tries
         /\ [fr EXCEPT !.base = x].ret = fr.ret
  BY DEF Frame

(* A saved activation moved to height b keeps its shape.                   *)
LEMMA ResumedShape ==
  ASSUME NEW sv \in Saved, NEW n \in Nat, NEW b \in Nat
  PROVE  /\ ResumedFrames(sv, b) \in Seq(Frame)
         /\ Len(ResumedFrames(sv, b)) = Len(sv.frames)
         /\ \A i \in 1..Len(sv.frames) :
               /\ ResumedFrames(sv, b)[i].base = sv.frames[i].base + b
               /\ ResumedFrames(sv, b)[i].tries = sv.frames[i].tries
               /\ ResumedFrames(sv, b)[i].ret = sv.frames[i].ret
         /\ ResumedHandlers(sv, n, b) \in Seq(Handler)
         /\ Len(ResumedHandlers(sv, n, b)) = Len(sv.handlers)
         /\ \A h \in 1..Len(sv.handlers) :
               /\ ResumedHandlers(sv, n, b)[h].fc = sv.handlers[h].fc + n
               /\ ResumedHandlers(sv, n, b)[h].sc = sv.handlers[h].sc + b
               /\ ResumedHandlers(sv, n, b)[h].level = sv.handlers[h].level
  <1>. DEFINE rf == ResumedFrames(sv, b)
              rh == ResumedHandlers(sv, n, b)
              m  == Len(sv.frames)
              p  == Len(sv.handlers)
  <1>0. /\ sv.frames \in Seq(Frame) /\ sv.handlers \in Seq(Handler)
        /\ m \in Nat /\ p \in Nat
    BY SavedAt
  <1>1. \A i \in 1..m : /\ rf[i] = [sv.frames[i] EXCEPT !.base = sv.frames[i].base + b]
                        /\ sv.frames[i] \in Frame
    BY <1>0 DEF ResumedFrames
  <1>2. ASSUME NEW i \in 1..m
        PROVE  /\ rf[i] \in Frame
               /\ rf[i].base = sv.frames[i].base + b
               /\ rf[i].tries = sv.frames[i].tries
               /\ rf[i].ret = sv.frames[i].ret
    <2>1. sv.frames[i] \in Frame /\ sv.frames[i].base + b \in Nat
      BY <1>0, FrameAt
    <2>2. rf[i] = [sv.frames[i] EXCEPT !.base = sv.frames[i].base + b]
      BY <1>1
    <2>. DEFINE fr == sv.frames[i]
                x  == sv.frames[i].base + b
    <2>. HIDE DEF rf, fr, x
    <2>3. /\ [fr EXCEPT !.base = x] \in Frame
          /\ [fr EXCEPT !.base = x].base = x
          /\ [fr EXCEPT !.base = x].tries = fr.tries
          /\ [fr EXCEPT !.base = x].ret = fr.ret
      <3>1. fr \in Frame /\ x \in Nat
        BY <2>1 DEF fr, x
      <3>. QED
        BY <3>1, MovedFrame
    <2>. QED
      BY <2>2, <2>3 DEF fr, x
  <1>3. rf = [i \in 1..m |-> [sv.frames[i] EXCEPT !.base = sv.frames[i].base + b]]
    BY DEF ResumedFrames
  <1>4. rf \in [1..m -> Frame]
    <2>. HIDE DEF rf
    <2>. QED
      BY <1>2, <1>3
  <1>5. rf \in Seq(Frame) /\ Len(rf) = m
    <2>. HIDE DEF rf, m
    <2>. QED
      BY <1>0, <1>4, SeqOfFunction
  <1>6. \A h \in 1..p : /\ rh[h] = [fc |-> sv.handlers[h].fc + n,
                                    sc |-> sv.handlers[h].sc + b,
                                    level |-> sv.handlers[h].level]
                        /\ sv.handlers[h] \in Handler
    BY <1>0 DEF ResumedHandlers
  <1>7. ASSUME NEW h \in 1..p
        PROVE  /\ rh[h] \in Handler
               /\ rh[h].fc = sv.handlers[h].fc + n
               /\ rh[h].sc = sv.handlers[h].sc + b
               /\ rh[h].level = sv.handlers[h].level
    <2>. DEFINE x == sv.handlers[h].fc + n
                y == sv.handlers[h].sc + b
                z == sv.handlers[h].level
    <2>1. rh[h] = [fc |-> x, sc |-> y, level |-> z]
      BY <1>6
    <2>2. x \in Nat /\ y \in Nat /\ z \in Nat
      BY <1>0, HandlerAt
    <2>. HIDE DEF rh, x, y, z
    <2>3. rh[h] \in Handler /\ rh[h].fc = x /\ rh[h].sc = y /\ rh[h].level = z
      BY <2>1, <2>2 DEF Handler
    <2>. QED
      BY <2>3 DEF x, y, z
  <1>8. rh = [h \in 1..p |-> [fc |-> sv.handlers[h].fc + n,
                              sc |-> sv.handlers[h].sc + b,
                              level |-> sv.handlers[h].level]]
    BY DEF ResumedHandlers
  <1>9. rh \in Seq(Handler) /\ Len(rh) = p
    <2>. HIDE DEF rh, p
    <2>1. rh \in [1..p -> Handler]
      BY <1>7, <1>8
    <2>. QED
      BY <1>0, <2>1, SeqOfFunction
  <1>. HIDE DEF rf, rh
  <1>. QED
    BY <1>2, <1>5, <1>7, <1>9 DEF rf, rh

(* A saved activation resumed at b, where the context is well formed: the  *)
(* rebased frames and handlers fit on top of those that are there.         *)
THEOREM ResumeContext ==
  ASSUME NEW fs \in Seq(Frame), NEW b \in Nat, NEW hs \in Seq(Handler),
         NEW sv \in Saved, WellFormed(fs, b, hs),
         WellFormed(sv.frames, sv.size, sv.handlers)
  PROVE  /\ fs \o ResumedFrames(sv, b) \in Seq(Frame)
         /\ hs \o ResumedHandlers(sv, Len(fs), b) \in Seq(Handler)
         /\ WellFormed(fs \o ResumedFrames(sv, b), b + sv.size,
                       hs \o ResumedHandlers(sv, Len(fs), b))
  <1>. DEFINE n  == Len(fs)
              m  == Len(sv.frames)
              q  == Len(hs)
              p  == Len(sv.handlers)
              rf == ResumedFrames(sv, b)
              rh == ResumedHandlers(sv, n, b)
              gs == fs \o rf
              ks == hs \o rh
              t  == b + sv.size
  <1>0. /\ sv.frames \in Seq(Frame) /\ sv.handlers \in Seq(Handler)
        /\ sv.size \in Nat /\ n \in Nat /\ m \in Nat /\ q \in Nat /\ p \in Nat
        /\ FixedSlots \in Nat
    BY SavedAt, ContextAssumption
  <1>1. /\ rf \in Seq(Frame) /\ Len(rf) = m
        /\ \A i \in 1..m : /\ rf[i].base = sv.frames[i].base + b
                           /\ rf[i].tries = sv.frames[i].tries
        /\ rh \in Seq(Handler) /\ Len(rh) = p
        /\ \A h \in 1..p : /\ rh[h].fc = sv.handlers[h].fc + n
                           /\ rh[h].sc = sv.handlers[h].sc + b
                           /\ rh[h].level = sv.handlers[h].level
    BY <1>0, ResumedShape
  <1>2. /\ gs \in Seq(Frame) /\ Len(gs) = n + m
        /\ \A i \in 1..n : gs[i] = fs[i]
        /\ \A i \in 1..m : gs[n + i] = rf[i]
    <2>. HIDE DEF rf
    <2>0. rf \in Seq(Frame)
      BY <1>1
    <2>1. /\ gs \in Seq(Frame) /\ Len(gs) = Len(fs) + Len(rf)
          /\ \A i \in 1..Len(fs) : gs[i] = fs[i]
          /\ \A i \in 1..Len(rf) : gs[Len(fs) + i] = rf[i]
      BY <2>0, Joined
    <2>. QED
      BY <1>1, <2>1
  <1>3. /\ ks \in Seq(Handler) /\ Len(ks) = q + p
        /\ \A h \in 1..q : ks[h] = hs[h]
        /\ \A h \in 1..p : ks[q + h] = rh[h]
    <2>. HIDE DEF rh
    <2>0. rh \in Seq(Handler)
      BY <1>1
    <2>1. /\ ks \in Seq(Handler) /\ Len(ks) = Len(hs) + Len(rh)
          /\ \A h \in 1..Len(hs) : ks[h] = hs[h]
          /\ \A h \in 1..Len(rh) : ks[Len(hs) + h] = rh[h]
      BY <2>0, Joined
    <2>. QED
      BY <1>1, <2>1
  <1>4. \A i \in 1..m : /\ sv.frames[i].base \in Nat
                        /\ \A l \in 1..Len(sv.frames[i].tries) : sv.frames[i].tries[l] \in Nat
    BY <1>0, FrameAt
  <1>5. \A i \in 1..n : /\ fs[i].base \in Nat
                        /\ \A l \in 1..Len(fs[i].tries) : fs[i].tries[l] \in Nat
    BY FrameAt
  <1>6. \A h \in 1..p : /\ sv.handlers[h].fc \in Nat /\ sv.handlers[h].sc \in Nat
                        /\ sv.handlers[h].level \in Nat
    BY <1>0, HandlerAt
  <1>7. \A h \in 1..q : /\ hs[h].fc \in Nat /\ hs[h].sc \in Nat /\ hs[h].level \in Nat
    BY HandlerAt
  <1>8. \A i \in 1..n : fs[i].base + FixedSlots <= b
    <2>1. \A i \in 1..n : i < n => fs[i].base + FixedSlots <= fs[n].base
      BY <1>0 DEF WellFormed, FramesStacked
    <2>2. n > 0 => fs[n].base + FixedSlots <= b
      BY <1>0 DEF WellFormed, FramesStacked, Ceiling
    <2>. QED
      BY <1>0, <1>5, <2>1, <2>2
  <1>. HIDE DEF gs, ks, rf, rh
  <1>9. \A i \in 1..n+m : i \in 1..n \/ \E j \in 1..m : i = n + j
    <2>1. ASSUME NEW i \in 1..n+m, i \notin 1..n
          PROVE  i - n \in 1..m /\ i = n + (i - n)
      BY <1>0, <2>1
    <2>. QED
      BY <2>1
  <1>10. \A h \in 1..q+p : h \in 1..q \/ \E j \in 1..p : h = q + j
    <2>1. ASSUME NEW h \in 1..q+p, h \notin 1..q
          PROVE  h - q \in 1..p /\ h = q + (h - q)
      BY <1>0, <2>1
    <2>. QED
      BY <2>1
  <1>11. \A i \in 1..m : Ceiling(gs, t, n + i) = Ceiling(sv.frames, sv.size, i) + b
    <2>1. ASSUME NEW i \in 1..m
          PROVE  Ceiling(gs, t, n + i) = Ceiling(sv.frames, sv.size, i) + b
      <3>1. CASE i = m
        BY <1>0, <1>2, <3>1 DEF Ceiling
      <3>2. CASE i < m
        <4>1. i + 1 \in 1..m /\ n + i # n + m /\ (n + i) + 1 = n + (i + 1)
          BY <1>0, <3>2
        <4>. QED
          BY <1>0, <1>1, <1>2, <3>2, <4>1 DEF Ceiling
      <3>. QED
        BY <1>0, <3>1, <3>2
    <2>. QED
      BY <2>1
  <1>12. \A i \in 1..n : Ceiling(fs, b, i) <= Ceiling(gs, t, i)
                         /\ Ceiling(fs, b, i) \in Nat /\ Ceiling(gs, t, i) \in Nat
    <2>1. ASSUME NEW i \in 1..n, i < n
          PROVE  Ceiling(fs, b, i) = fs[i+1].base /\ Ceiling(gs, t, i) = fs[i+1].base
                 /\ fs[i+1].base \in Nat
      <3>1. i + 1 \in 1..n /\ i # n + m /\ i # n
        BY <1>0, <2>1
      <3>. QED
        BY <1>2, <1>5, <3>1 DEF Ceiling
    <2>2. ASSUME n > 0
          PROVE  Ceiling(fs, b, n) = b /\ Ceiling(gs, t, n) \in Nat
                 /\ b <= Ceiling(gs, t, n)
      <3>1. CASE m = 0
        BY <1>0, <1>2, <3>1 DEF Ceiling
      <3>2. CASE m > 0
        <4>1. 1 \in 1..m /\ n # n + m
          BY <1>0, <3>2
        <4>2. gs[n + 1].base = sv.frames[1].base + b /\ sv.frames[1].base \in Nat
          BY <1>1, <1>2, <1>4, <4>1
        <4>3. Len(gs) # n /\ Len(fs) = n
          BY <1>0, <1>2, <4>1
        <4>4. Ceiling(gs, t, n) = gs[n + 1].base /\ Ceiling(fs, b, n) = b
          BY ONLY <4>3 DEF Ceiling
        <4>. DEFINE x == sv.frames[1].base
                    y == Ceiling(gs, t, n)
        <4>5. y = x + b /\ x \in Nat /\ b \in Nat
          BY <1>0, <4>2, <4>4
        <4>6. y \in Nat /\ b <= y
          <5>. HIDE DEF x, y
          <5>. QED
            BY ONLY <4>5
        <4>. QED
          BY ONLY <4>4, <4>6
      <3>. QED
        BY <1>0, <3>1, <3>2
    <2>3. n \in Nat /\ b \in Nat /\ \A i \in 1..n : i < n \/ (i = n /\ n > 0)
      BY <1>0
    <2>4. ASSUME NEW i \in 1..n
          PROVE  Ceiling(fs, b, i) <= Ceiling(gs, t, i)
                 /\ Ceiling(fs, b, i) \in Nat /\ Ceiling(gs, t, i) \in Nat
      <3>. DEFINE x == Ceiling(fs, b, i)
                  y == Ceiling(gs, t, i)
      <3>1. CASE i < n
        <4>1. x = y /\ x \in Nat
          BY <2>1, <3>1
        <4>. HIDE DEF x, y
        <4>2. x <= y /\ x \in Nat /\ y \in Nat
          BY ONLY <4>1
        <4>. QED
          BY ONLY <4>2 DEF x, y
      <3>2. CASE i = n /\ n > 0
        BY <2>2, <2>3, <3>2
      <3>. QED
        BY ONLY <2>3, <3>1, <3>2
    <2>. QED
      BY ONLY <2>4
  <1>13. FramesStacked(gs, t)
    <2>1. ASSUME NEW i \in 1..n
          PROVE  gs[i].base + FixedSlots <= Ceiling(gs, t, i)
      BY <1>0, <1>2, <1>5, <1>12 DEF WellFormed, FramesStacked
    <2>2. ASSUME NEW i \in 1..m
          PROVE  gs[n+i].base + FixedSlots <= Ceiling(gs, t, n+i)
      <3>1. sv.frames[i].base + FixedSlots <= Ceiling(sv.frames, sv.size, i)
        BY DEF WellFormed, FramesStacked
      <3>2. Ceiling(sv.frames, sv.size, i) \in Nat
        BY <1>0, <1>4 DEF Ceiling
      <3>. DEFINE x == sv.frames[i].base
                  u == Ceiling(sv.frames, sv.size, i)
      <3>3. gs[n+i].base = x + b /\ Ceiling(gs, t, n+i) = u + b /\ x \in Nat
        BY <1>1, <1>2, <1>4, <1>11
      <3>5. x + FixedSlots <= u /\ u \in Nat /\ FixedSlots \in Nat /\ b \in Nat
        BY <1>0, <3>1, <3>2, ContextAssumption
      <3>. HIDE DEF x, u
      <3>4. (x + b) + FixedSlots <= u + b
        BY ONLY <3>3, <3>5
      <3>. QED
        BY <3>3, <3>4
    <2>3. ASSUME NEW i \in 1..n, NEW j \in 1..n, i < j
          PROVE  gs[i].base + FixedSlots <= gs[j].base
      BY <1>2, <2>3 DEF WellFormed, FramesStacked
    <2>4. ASSUME NEW i \in 1..n, NEW j \in 1..m
          PROVE  gs[i].base + FixedSlots <= gs[n+j].base
      <3>. DEFINE x == sv.frames[j].base
                  y == fs[i].base
      <3>1. gs[n+j].base = x + b /\ x \in Nat
        BY <1>1, <1>2, <1>4
      <3>2. gs[i].base = y /\ y \in Nat /\ y + FixedSlots <= b
        BY <1>2, <1>5, <1>8
      <3>. HIDE DEF x, y
      <3>. QED
        BY <1>0, <3>1, <3>2
    <2>5. ASSUME NEW i \in 1..m, NEW j \in 1..m, i < j
          PROVE  gs[n+i].base + FixedSlots <= gs[n+j].base
      <3>1. sv.frames[i].base + FixedSlots <= sv.frames[j].base
        BY <2>5 DEF WellFormed, FramesStacked
      <3>. DEFINE x == sv.frames[i].base
                  y == sv.frames[j].base
      <3>2. gs[n+i].base = x + b /\ gs[n+j].base = y + b /\ x \in Nat /\ y \in Nat
            /\ x + FixedSlots <= y
        BY <1>1, <1>2, <1>4, <3>1
      <3>. HIDE DEF x, y
      <3>3. (x + b) + FixedSlots <= y + b
        BY <1>0, <3>2
      <3>. QED
        BY <3>2, <3>3
    <2>6. ASSUME NEW i \in 1..n, NEW l \in 1..Len(gs[i].tries)
          PROVE  /\ FixedSlots <= gs[i].tries[l]
                 /\ gs[i].base + gs[i].tries[l] <= Ceiling(gs, t, i)
                 /\ \A k \in 1..Len(gs[i].tries) :
                       l < k => gs[i].tries[l] <= gs[i].tries[k]
      <3>1. gs[i] = fs[i]
        BY <1>2
      <3>2. /\ fs[i].base \in Nat /\ fs[i].tries[l] \in Nat
            /\ FixedSlots <= fs[i].tries[l]
            /\ fs[i].base + fs[i].tries[l] <= Ceiling(fs, b, i)
            /\ \A k \in 1..Len(fs[i].tries) :
                  l < k => fs[i].tries[l] <= fs[i].tries[k]
        BY <1>5, <3>1 DEF WellFormed, FramesStacked
      <3>3. Ceiling(fs, b, i) <= Ceiling(gs, t, i)
            /\ Ceiling(fs, b, i) \in Nat /\ Ceiling(gs, t, i) \in Nat
        BY <1>12
      <3>. QED
        BY <3>1, <3>2, <3>3
    <2>7. ASSUME NEW i \in 1..m, NEW l \in 1..Len(gs[n+i].tries)
          PROVE  /\ FixedSlots <= gs[n+i].tries[l]
                 /\ gs[n+i].base + gs[n+i].tries[l] <= Ceiling(gs, t, n+i)
                 /\ \A k \in 1..Len(gs[n+i].tries) :
                       l < k => gs[n+i].tries[l] <= gs[n+i].tries[k]
      <3>1. gs[n+i].tries = sv.frames[i].tries /\ gs[n+i].base = sv.frames[i].base + b
        BY <1>1, <1>2
      <3>2. /\ sv.frames[i].base \in Nat /\ sv.frames[i].tries[l] \in Nat
            /\ FixedSlots <= sv.frames[i].tries[l]
            /\ sv.frames[i].base + sv.frames[i].tries[l] <= Ceiling(sv.frames, sv.size, i)
            /\ \A k \in 1..Len(sv.frames[i].tries) :
                  l < k => sv.frames[i].tries[l] <= sv.frames[i].tries[k]
        BY <1>4, <3>1 DEF WellFormed, FramesStacked
      <3>3. Ceiling(gs, t, n+i) = Ceiling(sv.frames, sv.size, i) + b
            /\ Ceiling(sv.frames, sv.size, i) \in Nat
        BY <1>0, <1>4, <1>11 DEF Ceiling
      <3>. DEFINE x == sv.frames[i].base
                  y == sv.frames[i].tries[l]
                  u == Ceiling(sv.frames, sv.size, i)
      <3>4. x \in Nat /\ y \in Nat /\ u \in Nat /\ x + y <= u /\ b \in Nat
        BY <1>0, <3>2, <3>3
      <3>5. (x + b) + y <= u + b
        <4>. HIDE DEF x, y, u
        <4>. QED
          BY ONLY <3>4
      <3>6. gs[n+i].base + gs[n+i].tries[l] <= Ceiling(gs, t, n+i)
        BY ONLY <3>1, <3>3, <3>5
      <3>. QED
        BY ONLY <3>1, <3>2, <3>6
    <2>8. \A i \in 1..n+m : gs[i].base + FixedSlots <= Ceiling(gs, t, i)
      BY <1>9, <2>1, <2>2
    <2>9. \A i, j \in 1..n+m : i < j => gs[i].base + FixedSlots <= gs[j].base
      <3>1. ASSUME NEW i \in 1..n+m, NEW j \in 1..n+m, i < j
            PROVE  gs[i].base + FixedSlots <= gs[j].base
        <4>1. CASE j \in 1..n
          <5>1. i \in 1..n
            BY <1>0, <3>1, <4>1
          <5>. QED
            BY <2>3, <3>1, <4>1, <5>1
        <4>2. CASE i \in 1..n /\ j \notin 1..n
          BY <1>9, <2>4, <4>2
        <4>3. CASE i \notin 1..n
          <5>1. PICK ii \in 1..m : i = n + ii
            BY <1>9, <4>3
          <5>2. j \notin 1..n
            BY <1>0, <3>1, <5>1
          <5>3. PICK jj \in 1..m : j = n + jj
            BY <1>9, <5>2
          <5>4. ii < jj
            BY <1>0, <3>1, <5>1, <5>3
          <5>. QED
            BY <2>5, <5>1, <5>3, <5>4
        <4>. QED
          BY <4>1, <4>2, <4>3
      <3>. QED
        BY <3>1
    <2>10. \A i \in 1..n+m : \A l \in 1..Len(gs[i].tries) :
             /\ FixedSlots <= gs[i].tries[l]
             /\ gs[i].base + gs[i].tries[l] <= Ceiling(gs, t, i)
             /\ \A k \in 1..Len(gs[i].tries) :
                   l < k => gs[i].tries[l] <= gs[i].tries[k]
      BY <1>9, <2>6, <2>7
    <2>. QED
      BY <1>2, <2>8, <2>9, <2>10 DEF FramesStacked
  <1>14. HandlersNested(gs, ks)
    <2>1. ASSUME NEW h \in 1..q
          PROVE  /\ ks[h].fc \in 1..n+m
                 /\ ks[h].fc <= n
                 /\ ks[h].level < Len(gs[ks[h].fc].tries)
                 /\ ks[h].sc = gs[ks[h].fc].base + gs[ks[h].fc].tries[ks[h].level + 1]
      <3>1. /\ ks[h] = hs[h] /\ hs[h].fc \in 1..n
            /\ hs[h].level < Len(fs[hs[h].fc].tries)
            /\ hs[h].sc = fs[hs[h].fc].base + fs[hs[h].fc].tries[hs[h].level + 1]
        BY <1>3 DEF WellFormed, HandlersNested
      <3>2. gs[hs[h].fc] = fs[hs[h].fc] /\ hs[h].fc \in 1..n+m /\ hs[h].fc <= n
        BY <1>0, <1>2, <3>1
      <3>. QED
        BY <3>1, <3>2
    <2>2. ASSUME NEW h \in 1..p
          PROVE  /\ ks[q+h].fc \in 1..n+m
                 /\ ks[q+h].fc > n
                 /\ ks[q+h].level < Len(gs[ks[q+h].fc].tries)
                 /\ ks[q+h].sc = gs[ks[q+h].fc].base + gs[ks[q+h].fc].tries[ks[q+h].level + 1]
      <3>. DEFINE f == sv.handlers[h].fc
                  v == sv.handlers[h].level
      <3>1. /\ f \in 1..m
            /\ v < Len(sv.frames[f].tries)
            /\ sv.handlers[h].sc = sv.frames[f].base + sv.frames[f].tries[v + 1]
        BY DEF WellFormed, HandlersNested
      <3>2. /\ ks[q+h].fc = f + n /\ ks[q+h].level = v
            /\ ks[q+h].sc = sv.handlers[h].sc + b
        BY <1>1, <1>3
      <3>3. /\ gs[n+f].base = sv.frames[f].base + b
            /\ gs[n+f].tries = sv.frames[f].tries
        BY <1>1, <1>2, <3>1
      <3>4. f + n = n + f /\ f + n \in 1..n+m /\ f + n > n
        <4>1. f \in 1..m /\ n \in Nat /\ m \in Nat
          BY <1>0, <3>1
        <4>. HIDE DEF f, n, m
        <4>. QED
          BY ONLY <4>1
      <3>5. sv.frames[f].base \in Nat /\ sv.frames[f].tries[v + 1] \in Nat
        <4>1. v \in Nat /\ sv.frames[f].tries \in Seq(Nat)
          BY <1>0, <1>6, <3>1, FrameAt
        <4>2. v + 1 \in 1..Len(sv.frames[f].tries)
          <5>. DEFINE len == Len(sv.frames[f].tries)
          <5>1. len \in Nat /\ v \in Nat /\ v < len
            BY <3>1, <4>1, LenProperties
          <5>. HIDE DEF len, v
          <5>2. v + 1 \in 1..len
            BY <5>1
          <5>. QED
            BY <5>2 DEF len
        <4>. QED
          BY <1>4, <3>1, <4>2
      <3>. DEFINE x == sv.frames[f].base
                  y == sv.frames[f].tries[v + 1]
      <3>8. x \in Nat /\ y \in Nat
        BY <3>5
      <3>6. gs[f + n].base = x + b /\ gs[f + n].tries[v + 1] = y /\ Len(gs[f + n].tries) = Len(sv.frames[f].tries)
        BY <3>3, <3>4
      <3>7. (x + y) + b = (x + b) + y
        <4>. HIDE DEF x, y
        <4>. QED
          BY <3>8
      <3>. QED
        BY <3>1, <3>2, <3>4, <3>6, <3>7
    <2>3. \A h \in 1..q+p :
             /\ ks[h].fc \in 1..n+m
             /\ ks[h].level < Len(gs[ks[h].fc].tries)
             /\ ks[h].sc = gs[ks[h].fc].base + gs[ks[h].fc].tries[ks[h].level + 1]
      <3>1. ASSUME NEW h \in 1..q+p
            PROVE  /\ ks[h].fc \in 1..n+m
                   /\ ks[h].level < Len(gs[ks[h].fc].tries)
                   /\ ks[h].sc = gs[ks[h].fc].base + gs[ks[h].fc].tries[ks[h].level + 1]
        <4>1. CASE h \in 1..q
          BY ONLY <2>1, <4>1
        <4>2. CASE \E j \in 1..p : h = q + j
          BY ONLY <2>2, <4>2
        <4>. QED
          BY ONLY <1>10, <4>1, <4>2
      <3>. QED
        BY ONLY <3>1
    <2>4. \A g, h \in 1..q+p : g < h =>
             \/ ks[g].fc < ks[h].fc
             \/ ks[g].fc = ks[h].fc /\ ks[g].level < ks[h].level
      <3>1. ASSUME NEW g \in 1..q+p, NEW h \in 1..q+p, g < h
            PROVE  \/ ks[g].fc < ks[h].fc
                   \/ ks[g].fc = ks[h].fc /\ ks[g].level < ks[h].level
        <4>1. CASE h \in 1..q
          <5>1. g \in 1..q
            BY <1>0, <3>1, <4>1
          <5>. QED
            BY <1>3, <3>1, <4>1, <5>1 DEF WellFormed, HandlersNested
        <4>2. CASE g \in 1..q /\ h \notin 1..q
          <5>1. PICK j \in 1..p : h = q + j
            BY <1>10, <4>2
          <5>2. ks[g].fc \in Nat /\ ks[h].fc \in Nat /\ ks[g].fc <= n /\ ks[h].fc > n
            BY <2>1, <2>2, <4>2, <5>1
          <5>. QED
            BY <1>0, <5>2
        <4>3. CASE g \notin 1..q
          <5>1. PICK i \in 1..p : g = q + i
            BY <1>10, <4>3
          <5>2. h \notin 1..q
            BY <1>0, <3>1, <5>1
          <5>3. PICK j \in 1..p : h = q + j
            BY <1>10, <5>2
          <5>4. i < j
            BY <1>0, <3>1, <5>1, <5>3
          <5>5. \/ sv.handlers[i].fc < sv.handlers[j].fc
                \/ /\ sv.handlers[i].fc = sv.handlers[j].fc
                   /\ sv.handlers[i].level < sv.handlers[j].level
            BY <5>4 DEF WellFormed, HandlersNested
          <5>6. /\ ks[g].fc = sv.handlers[i].fc + n /\ ks[h].fc = sv.handlers[j].fc + n
                /\ ks[g].level = sv.handlers[i].level /\ ks[h].level = sv.handlers[j].level
            BY <1>1, <1>3, <5>1, <5>3
          <5>7. sv.handlers[i].fc \in Nat /\ sv.handlers[j].fc \in Nat
            BY <1>6
          <5>8. sv.handlers[i].fc < sv.handlers[j].fc => ks[g].fc < ks[h].fc
            <6>. DEFINE x == sv.handlers[i].fc
                        y == sv.handlers[j].fc
            <6>1. x \in Nat /\ y \in Nat /\ n \in Nat
              BY <1>0, <5>7
            <6>2. x < y => x + n < y + n
              <7>. HIDE DEF x, y, n
              <7>. QED
                BY ONLY <6>1
            <6>. QED
              BY ONLY <5>6, <6>2
          <5>. QED
            BY <5>5, <5>6, <5>8
        <4>. QED
          BY <4>1, <4>2, <4>3
      <3>. QED
        BY <3>1
    <2>. QED
      BY <1>2, <1>3, <2>3, <2>4 DEF HandlersNested
  <1>. QED
    BY <1>2, <1>3, <1>13, <1>14 DEF WellFormed, gs, ks, rf, rh

(* Handlers popped from the end.                                           *)
LEMMA HandlersPrefix ==
  ASSUME NEW fs \in Seq(Frame), NEW hs \in Seq(Handler), NEW k \in 0..Len(hs),
         HandlersNested(fs, hs)
  PROVE  /\ SubSeq(hs, 1, k) \in Seq(Handler)
         /\ Len(SubSeq(hs, 1, k)) = k
         /\ \A h \in 1..k : SubSeq(hs, 1, k)[h] = hs[h]
         /\ HandlersNested(fs, SubSeq(hs, 1, k))
  <1>. DEFINE ks == SubSeq(hs, 1, k)
  <1>1. ks \in Seq(Handler) /\ Len(ks) = k /\ \A h \in 1..k : ks[h] = hs[h]
    OBVIOUS
  <1>2. \A h \in 1..k : h \in 1..Len(hs)
    OBVIOUS
  <1>. HIDE DEF ks
  <1>3. HandlersNested(fs, ks)
    <2>1. ASSUME NEW h \in 1..k
          PROVE  /\ ks[h].fc \in 1..Len(fs)
                 /\ ks[h].level < Len(fs[ks[h].fc].tries)
                 /\ ks[h].sc = fs[ks[h].fc].base + fs[ks[h].fc].tries[ks[h].level + 1]
      <3>1. ks[h] = hs[h] /\ h \in 1..Len(hs)
        BY <1>1, <1>2
      <3>. QED
        BY <3>1 DEF HandlersNested
    <2>2. ASSUME NEW g \in 1..k, NEW h \in 1..k, g < h
          PROVE  \/ ks[g].fc < ks[h].fc
                 \/ ks[g].fc = ks[h].fc /\ ks[g].level < ks[h].level
      <3>1. ks[g] = hs[g] /\ ks[h] = hs[h] /\ g \in 1..Len(hs) /\ h \in 1..Len(hs)
        BY <1>1, <1>2
      <3>. QED
        BY <2>2, <3>1 DEF HandlersNested
    <2>. QED
      BY <1>1, <2>1, <2>2 DEF HandlersNested
  <1>. QED
    BY <1>1, <1>3 DEF ks

(* Frames that differ from well formed ones only in having left some of    *)
(* their innermost tries, whose handlers are gone, or in the continuation  *)
(* they return to.                                                         *)
LEMMA TriesShrink ==
  ASSUME NEW fs \in Seq(Frame), NEW s \in Nat, NEW hs \in Seq(Handler),
         NEW gs \in Seq(Frame), WellFormed(fs, s, hs), Len(gs) = Len(fs),
         \A i \in 1..Len(fs) :
            /\ gs[i].base = fs[i].base
            /\ Len(gs[i].tries) <= Len(fs[i].tries)
            /\ \A l \in 1..Len(gs[i].tries) : gs[i].tries[l] = fs[i].tries[l],
         \A h \in 1..Len(hs) : hs[h].level < Len(gs[hs[h].fc].tries)
  PROVE  WellFormed(gs, s, hs)
  <1>1. \A i \in 1..Len(fs) : Len(gs[i].tries) \in Nat /\ Len(fs[i].tries) \in Nat
    BY FrameAt
  <1>2. \A i \in 1..Len(fs) : Ceiling(gs, s, i) = Ceiling(fs, s, i)
    BY DEF Ceiling
  <1>3. \A i \in 1..Len(fs) : \A l \in 1..Len(gs[i].tries) :
           l \in 1..Len(fs[i].tries) /\ gs[i].tries[l] = fs[i].tries[l]
    BY <1>1
  <1>4. FramesStacked(gs, s)
    <2>1. \A i \in 1..Len(gs) : gs[i].base + FixedSlots <= Ceiling(gs, s, i)
      BY <1>2 DEF WellFormed, FramesStacked
    <2>2. \A i, j \in 1..Len(gs) : i < j => gs[i].base + FixedSlots <= gs[j].base
      BY DEF WellFormed, FramesStacked
    <2>3. \A i \in 1..Len(gs) : \A l \in 1..Len(gs[i].tries) :
            /\ FixedSlots <= gs[i].tries[l]
            /\ gs[i].base + gs[i].tries[l] <= Ceiling(gs, s, i)
            /\ \A m \in 1..Len(gs[i].tries) :
                  l < m => gs[i].tries[l] <= gs[i].tries[m]
      BY <1>2, <1>3 DEF WellFormed, FramesStacked
    <2>. QED
      BY <2>1, <2>2, <2>3 DEF FramesStacked
  <1>5. HandlersNested(gs, hs)
    <2>1. ASSUME NEW h \in 1..Len(hs)
          PROVE  /\ hs[h].fc \in 1..Len(gs)
                 /\ hs[h].level < Len(gs[hs[h].fc].tries)
                 /\ hs[h].sc = gs[hs[h].fc].base + gs[hs[h].fc].tries[hs[h].level + 1]
      <3>. DEFINE f == hs[h].fc
                  v == hs[h].level
      <3>1. f \in 1..Len(fs) /\ v < Len(gs[f].tries) /\ v \in Nat
            /\ hs[h].sc = fs[f].base + fs[f].tries[v + 1]
        BY HandlerAt DEF WellFormed, HandlersNested
      <3>. HIDE DEF f, v
      <3>2. v + 1 \in 1..Len(gs[f].tries)
        BY <1>1, <3>1
      <3>3. gs[f].tries[v + 1] = fs[f].tries[v + 1] /\ gs[f].base = fs[f].base
        BY <3>1, <3>2
      <3>. QED
        BY <3>1, <3>3 DEF f, v
    <2>. QED
      BY <2>1 DEF WellFormed, HandlersNested
  <1>. QED
    BY <1>4, <1>5 DEF WellFormed

(* A try entered by the top frame at height s, with or without room for    *)
(* its handler.                                                            *)
LEMMA TryAdded ==
  ASSUME NEW fs \in Seq(Frame), NEW s \in Nat, NEW hs \in Seq(Handler),
         NEW gs \in Seq(Frame), NEW ks \in Seq(Handler),
         fs # <<>>, WellFormed(fs, s, hs), Len(gs) = Len(fs),
         \A i \in 1..Len(fs) : gs[i].base = fs[i].base,
         \A i \in 1..Len(fs) : i # Len(fs) => gs[i].tries = fs[i].tries,
         gs[Len(fs)].tries = Append(fs[Len(fs)].tries, s - fs[Len(fs)].base),
         \/ ks = hs
         \/ ks = Append(hs, [fc |-> Len(fs), sc |-> s,
                             level |-> Len(fs[Len(fs)].tries)])
  PROVE  WellFormed(gs, s, ks)
  <1>. DEFINE n  == Len(fs)
              ts == fs[n].tries
              us == gs[n].tries
              b  == fs[n].base
              q  == Len(ts)
  <1>1. /\ n \in Nat /\ n \in 1..n /\ b \in Nat /\ ts \in Seq(Nat) /\ q \in Nat
        /\ FixedSlots \in Nat
    BY LastOf, FrameAt, ContextAssumption
  <1>2. /\ b + FixedSlots <= s
        /\ \A l \in 1..q : b + ts[l] <= s
    BY <1>1 DEF WellFormed, FramesStacked, Ceiling
  <1>3. s - b \in Nat /\ FixedSlots <= s - b /\ b + (s - b) = s
    <2>. HIDE DEF b
    <2>. QED
      BY <1>1, <1>2
  <1>4. /\ Len(us) = q + 1 /\ us[q + 1] = s - b
        /\ \A l \in 1..q : us[l] = ts[l]
    BY <1>1, <1>3
  <1>5. \A l \in 1..q : ts[l] \in Nat /\ ts[l] <= s - b
    <2>1. ASSUME NEW l \in 1..q
          PROVE  ts[l] \in Nat /\ ts[l] <= s - b
      <3>. DEFINE x == ts[l]
      <3>1. x \in Nat /\ b + x <= s /\ b \in Nat
        BY <1>1, <1>2, ElementOfSeq
      <3>. HIDE DEF x, b
      <3>2. x <= s - b
        BY <3>1
      <3>. QED
        BY <3>1, <3>2 DEF x
    <2>. QED
      BY <2>1
  <1>6. \A i \in 1..n : Ceiling(gs, s, i) = Ceiling(fs, s, i)
    BY DEF Ceiling
  <1>7. Ceiling(gs, s, n) = s
    BY DEF Ceiling
  <1>. HIDE DEF us
  <1>8. FramesStacked(gs, s)
    <2>1. \A i \in 1..n : gs[i].base + FixedSlots <= Ceiling(gs, s, i)
      BY <1>6 DEF WellFormed, FramesStacked
    <2>2. \A i, j \in 1..n : i < j => gs[i].base + FixedSlots <= gs[j].base
      BY DEF WellFormed, FramesStacked
    <2>3. ASSUME NEW i \in 1..n, i # n, NEW l \in 1..Len(gs[i].tries)
          PROVE  /\ FixedSlots <= gs[i].tries[l]
                 /\ gs[i].base + gs[i].tries[l] <= Ceiling(gs, s, i)
                 /\ \A m \in 1..Len(gs[i].tries) :
                       l < m => gs[i].tries[l] <= gs[i].tries[m]
      BY <1>6, <2>3 DEF WellFormed, FramesStacked
    <2>4. ASSUME NEW l \in 1..q + 1
          PROVE  /\ FixedSlots <= us[l]
                 /\ b + us[l] <= s
                 /\ \A m \in 1..q + 1 : l < m => us[l] <= us[m]
      <3>1. CASE l = q + 1
        <4>1. us[l] = s - b
          BY <1>4, <3>1
        <4>2. \A m \in 1..q + 1 : ~(l < m)
          BY <1>1, <3>1
        <4>. QED
          BY <1>3, <4>1, <4>2
      <3>2. CASE l # q + 1
        <4>1. l \in 1..q
          BY <1>1, <3>2
        <4>2. FixedSlots <= ts[l] /\ us[l] = ts[l]
          BY <1>1, <1>4, <4>1 DEF WellFormed, FramesStacked
        <4>3. ASSUME NEW m \in 1..q + 1, l < m
              PROVE  us[l] <= us[m]
          <5>1. CASE m = q + 1
            BY <1>4, <1>5, <4>1, <4>2, <5>1
          <5>2. CASE m # q + 1
            <6>1. m \in 1..q
              BY <1>1, <5>2
            <6>2. ts[l] <= ts[m]
              BY <1>1, <4>1, <4>3, <6>1 DEF WellFormed, FramesStacked
            <6>. QED
              BY <1>4, <4>2, <6>1, <6>2
          <5>. QED
            BY <5>1, <5>2
        <4>. QED
          BY <1>2, <4>1, <4>2, <4>3
      <3>. QED
        BY <3>1, <3>2
    <2>5. \A i \in 1..n : \A l \in 1..Len(gs[i].tries) :
            /\ FixedSlots <= gs[i].tries[l]
            /\ gs[i].base + gs[i].tries[l] <= Ceiling(gs, s, i)
            /\ \A m \in 1..Len(gs[i].tries) :
                  l < m => gs[i].tries[l] <= gs[i].tries[m]
      <3>1. /\ gs[n].base = b
            /\ \A l \in 1..Len(gs[n].tries) :
                 /\ FixedSlots <= gs[n].tries[l]
                 /\ gs[n].base + gs[n].tries[l] <= Ceiling(gs, s, n)
                 /\ \A m \in 1..Len(gs[n].tries) :
                       l < m => gs[n].tries[l] <= gs[n].tries[m]
        BY <1>1, <1>4, <1>7, <2>4 DEF us
      <3>. QED
        BY <2>3, <3>1
    <2>. QED
      BY <2>1, <2>2, <2>5 DEF FramesStacked
  <1>9. HandlersNested(gs, hs)
    <2>1. ASSUME NEW h \in 1..Len(hs)
          PROVE  /\ hs[h].fc \in 1..Len(gs)
                 /\ hs[h].level < Len(gs[hs[h].fc].tries)
                 /\ hs[h].sc = gs[hs[h].fc].base + gs[hs[h].fc].tries[hs[h].level + 1]
      <3>. DEFINE f == hs[h].fc
                  v == hs[h].level
      <3>1. f \in 1..n /\ v < Len(fs[f].tries) /\ v \in Nat
            /\ hs[h].sc = fs[f].base + fs[f].tries[v + 1]
        BY HandlerAt DEF WellFormed, HandlersNested
      <3>. HIDE DEF f, v
      <3>2. CASE f # n
        BY <3>1, <3>2 DEF f, v
      <3>3. CASE f = n
        <4>1. v < q /\ v + 1 \in 1..q
          BY <1>1, <3>1, <3>3
        <4>2. v < q + 1
          BY <1>1, <3>1, <4>1
        <4>3. Len(gs[f].tries) = q + 1 /\ gs[f].tries[v + 1] = fs[f].tries[v + 1]
          BY <1>4, <3>3, <4>1 DEF us
        <4>. QED
          BY <1>1, <3>1, <4>2, <4>3 DEF f, v
      <3>. QED
        BY <3>2, <3>3
    <2>. QED
      BY <2>1 DEF WellFormed, HandlersNested
  <1>10. CASE ks = hs
    BY <1>8, <1>9, <1>10 DEF WellFormed
  <1>11. CASE ks = Append(hs, [fc |-> n, sc |-> s, level |-> q])
    <2>. DEFINE p  == Len(hs)
                nh == [fc |-> n, sc |-> s, level |-> q]
    <2>1. /\ p \in Nat /\ Len(ks) = p + 1 /\ ks[p + 1] = nh
          /\ \A h \in 1..p : ks[h] = hs[h]
      <3>1. nh \in Handler
        BY <1>1 DEF Handler
      <3>. HIDE DEF nh
      <3>. QED
        BY <1>11, <3>1 DEF nh
    <2>2. ASSUME NEW h \in 1..p + 1
          PROVE  /\ ks[h].fc \in 1..Len(gs)
                 /\ ks[h].level < Len(gs[ks[h].fc].tries)
                 /\ ks[h].sc = gs[ks[h].fc].base + gs[ks[h].fc].tries[ks[h].level + 1]
      <3>1. CASE h = p + 1
        <4>1. ks[h].fc = n /\ ks[h].level = q /\ ks[h].sc = s
          BY <2>1, <3>1
        <4>2. q < q + 1 /\ gs[n].base = b
          BY <1>1
        <4>. QED
          BY <1>1, <1>3, <1>4, <4>1, <4>2 DEF us
      <3>2. CASE h # p + 1
        <4>1. h \in 1..p
          BY <2>1, <3>2
        <4>. QED
          BY <1>9, <2>1, <4>1 DEF HandlersNested
      <3>. QED
        BY <3>1, <3>2
    <2>3. ASSUME NEW g \in 1..p + 1, NEW h \in 1..p + 1, g < h
          PROVE  \/ ks[g].fc < ks[h].fc
                 \/ ks[g].fc = ks[h].fc /\ ks[g].level < ks[h].level
      <3>1. g \in 1..p /\ ks[g] = hs[g]
        BY <2>1, <2>3
      <3>2. CASE h = p + 1
        <4>1. ks[h].fc = n /\ ks[h].level = q
          BY <2>1, <3>2
        <4>2. /\ hs[g].fc \in 1..n /\ hs[g].level < Len(fs[hs[g].fc].tries)
          BY <3>1 DEF WellFormed, HandlersNested
        <4>3. hs[g].fc = n \/ hs[g].fc < n
          BY <1>1, <4>2
        <4>. QED
          BY <3>1, <4>1, <4>2, <4>3
      <3>3. CASE h # p + 1
        <4>1. h \in 1..p
          BY <2>1, <3>3
        <4>. QED
          BY <1>9, <2>1, <2>3, <3>1, <4>1 DEF HandlersNested
      <3>. QED
        BY <3>2, <3>3
    <2>. QED
      BY <1>8, <2>1, <2>2, <2>3 DEF WellFormed, HandlersNested
  <1>. QED
    BY <1>10, <1>11

(* What yield and callcc save: the frames from the root on and their       *)
(* handlers, counted from the root, are a well formed activation of the    *)
(* root's closure.                                                         *)
THEOREM CaptureContext ==
  ASSUME NEW fs \in Seq(Frame), NEW s \in Nat, NEW hs \in Seq(Handler),
         NEW r, NEW k, NEW needs \in BOOLEAN, NEW sv,
         WellFormed(fs, s, hs), IsRoot(fs, r), IsSplit(hs, r - 1, k),
         sv = Capture(fs, hs, r, k, s, needs)
  PROVE  /\ sv \in Saved
         /\ sv.frames # <<>> /\ sv.needs = needs
         /\ Len(sv.frames) = Len(fs) - r + 1
         /\ sv.frames[1].cl = fs[r].cl /\ sv.frames[1].base = 0
         /\ \A i \in 2..Len(sv.frames) : sv.frames[i].cl \in Inline
         /\ \A i \in 1..Len(sv.frames) :
               r + i - 1 \in 1..Len(fs) /\ sv.frames[i].ret = fs[r + i - 1].ret
         /\ WellFormed(sv.frames, sv.size, sv.handlers)
  <1>. DEFINE n  == Len(fs)
              q  == Len(hs)
              m  == n - r + 1
              p  == q - k
              b  == fs[r].base
              cf == sv.frames
              ch == sv.handlers
              z  == s - b
  <1>1. n \in Nat /\ q \in Nat /\ r \in 1..n /\ k \in 0..q /\ FixedSlots \in Nat
        /\ (r > 1 => fs[r].cl \notin Inline)
        /\ \A j \in r+1..n : fs[j].cl \in Inline
    BY ContextAssumption DEF IsRoot, IsSplit
  <1>2. m \in Nat /\ m >= 1 /\ p \in Nat
    BY <1>1
  <1>3. \A i \in 1..m : r + i - 1 \in 1..n
    BY <1>1
  <1>4. \A h \in 1..p : k + h \in 1..q
    BY <1>1
  <1>5. \A i \in 1..n : /\ fs[i] \in Frame /\ fs[i].base \in Nat
                        /\ \A l \in 1..Len(fs[i].tries) : fs[i].tries[l] \in Nat
    BY FrameAt
  <1>6. \A h \in 1..q : hs[h] \in Handler /\ hs[h].fc \in Nat /\ hs[h].sc \in Nat
                        /\ hs[h].level \in Nat
    BY HandlerAt
  <1>7. \A i \in r..n : b <= fs[i].base /\ i \in 1..n
    <2>1. \A i \in r..n : i \in 1..n /\ (i = r \/ r < i)
      BY <1>1
    <2>2. ASSUME NEW i \in r..n, r < i
          PROVE  b <= fs[i].base
      <3>1. b + FixedSlots <= fs[i].base /\ b \in Nat /\ fs[i].base \in Nat
        BY <1>1, <1>5, <2>1, <2>2 DEF WellFormed, FramesStacked
      <3>. HIDE DEF b
      <3>. QED
        BY <1>1, <3>1
    <2>3. b <= b
      BY <1>1, <1>5
    <2>. QED
      BY <2>1, <2>2, <2>3
  <1>8. z \in Nat
    <2>1. b \in Nat /\ fs[n].base \in Nat /\ b <= fs[n].base /\ fs[n].base + FixedSlots <= s
      <3>1. n \in r..n /\ n \in 1..n
        BY <1>1
      <3>. QED
        BY <1>1, <1>5, <1>7, <3>1 DEF WellFormed, FramesStacked, Ceiling
    <2>. DEFINE e == fs[n].base
    <2>. HIDE DEF b, e
    <2>. QED
      BY <1>1, <2>1 DEF e
  <1>9. \A h \in 1..p : hs[k + h].fc \in r..n
    <2>1. p > 0 => k + 1 \in 1..q /\ hs[k + 1].fc > r - 1
      BY <1>1 DEF IsSplit
    <2>2. ASSUME NEW h \in 1..p
          PROVE  hs[k + h].fc \in r..n
      <3>1. k + h = k + 1 \/ k + 1 < k + h
        BY <1>1
      <3>2. k + 1 \in 1..q /\ k + h \in 1..q /\ p > 0
        BY <1>1
      <3>3. hs[k + 1].fc <= hs[k + h].fc
        BY <1>6, <3>1, <3>2 DEF WellFormed, HandlersNested
      <3>4. hs[k + h].fc \in 1..n /\ hs[k + 1].fc \in Nat /\ hs[k + 1].fc > r - 1
        BY <1>6, <2>1, <3>2 DEF WellFormed, HandlersNested
      <3>. DEFINE x == hs[k + 1].fc
                  y == hs[k + h].fc
      <3>5. x \in Nat /\ y \in 1..n /\ x > r - 1 /\ x <= y
        BY <3>3, <3>4
      <3>. HIDE DEF x, y
      <3>6. y \in r..n
        BY <1>1, <3>5
      <3>. QED
        BY <3>6 DEF y
    <2>. QED
      BY <2>2
  <1>10. /\ cf = [i \in 1..m |-> [fs[r+i-1] EXCEPT !.base = fs[r+i-1].base - b]]
         /\ ch = [h \in 1..p |-> [fc |-> hs[k+h].fc - (r - 1), sc |-> hs[k+h].sc - b,
                                  level |-> hs[k+h].level]]
         /\ sv.size = z /\ sv.needs = needs
         /\ sv = [frames |-> cf, handlers |-> ch, size |-> z, needs |-> needs]
    BY DEF Capture
  <1>. HIDE DEF cf, ch
  <1>11. ASSUME NEW i \in 1..m
         PROVE  /\ cf[i] \in Frame
                /\ cf[i].cl = fs[r+i-1].cl
                /\ cf[i].base = fs[r+i-1].base - b
                /\ cf[i].tries = fs[r+i-1].tries
                /\ cf[i].ret = fs[r+i-1].ret
                /\ cf[i].base \in Nat
    <2>. DEFINE fr == fs[r+i-1]
                x  == fr.base - b
    <2>1. r + i - 1 \in r..n /\ fr \in Frame /\ fr.base \in Nat
      <3>1. r + i - 1 \in r..n /\ r + i - 1 \in 1..n
        BY <1>1
      <3>. QED
        BY <1>3, <1>5, <3>1
    <2>2. x \in Nat
      <3>1. b \in Nat /\ b <= fr.base /\ fr.base \in Nat
        BY <1>1, <1>5, <1>7, <2>1
      <3>. DEFINE e == fr.base
      <3>. HIDE DEF b, e
      <3>. QED
        BY <3>1 DEF e
    <2>3. cf[i] = [fr EXCEPT !.base = x]
      BY <1>10
    <2>. HIDE DEF fr, x
    <2>4. /\ cf[i] \in Frame /\ cf[i].cl = fr.cl /\ cf[i].base = x
          /\ cf[i].tries = fr.tries /\ cf[i].ret = fr.ret
      BY <2>1, <2>2, <2>3, MovedFrame
    <2>. QED
      BY <2>2, <2>4 DEF fr, x
  <1>12. ASSUME NEW h \in 1..p
         PROVE  /\ ch[h] \in Handler
                /\ ch[h].fc = hs[k+h].fc - (r - 1) /\ ch[h].fc \in 1..m
                /\ ch[h].sc = hs[k+h].sc - b
                /\ ch[h].level = hs[k+h].level
    <2>. DEFINE f == hs[k+h].fc
                c == hs[k+h].sc
                v == hs[k+h].level
    <2>1. f \in r..n /\ c \in Nat /\ v \in Nat
      BY <1>4, <1>6, <1>9
    <2>2. f - (r - 1) \in 1..m
      <3>. HIDE DEF f
      <3>. QED
        BY <1>1, <2>1
    <2>3. c - b \in Nat
      <3>1. f \in 1..n /\ b <= fs[f].base /\ fs[f].base \in Nat /\ b \in Nat
        BY <1>1, <1>5, <1>7, <2>1
      <3>2. v < Len(fs[f].tries) /\ c = fs[f].base + fs[f].tries[v + 1]
        BY <1>4 DEF WellFormed, HandlersNested
      <3>3. fs[f].tries[v + 1] \in Nat
        <4>1. v + 1 \in 1..Len(fs[f].tries)
          <5>. DEFINE len == Len(fs[f].tries)
          <5>1. len \in Nat /\ v < len
            BY <3>1, <3>2, FrameAt
          <5>. HIDE DEF len, v
          <5>2. v + 1 \in 1..len
            BY <2>1, <5>1
          <5>. QED
            BY <5>2 DEF len
        <4>. QED
          BY <1>5, <3>1, <4>1
      <3>. DEFINE x == fs[f].base
                  y == fs[f].tries[v + 1]
      <3>4. x \in Nat /\ y \in Nat /\ b \in Nat /\ b <= x /\ c = x + y
        BY <3>1, <3>2, <3>3
      <3>. HIDE DEF x, y, b, c
      <3>. QED
        BY <3>4
    <2>4. ch[h] = [fc |-> f - (r - 1), sc |-> c - b, level |-> v]
      BY <1>10
    <2>. DEFINE x == f - (r - 1)
                y == c - b
    <2>. HIDE DEF x, y, v
    <2>5. ch[h] \in Handler /\ ch[h].fc = x /\ ch[h].sc = y /\ ch[h].level = v
      <3>1. x \in Nat /\ y \in Nat /\ v \in Nat
        BY <1>2, <2>1, <2>2, <2>3 DEF x, y
      <3>2. ch[h] = [fc |-> x, sc |-> y, level |-> v]
        BY <2>4 DEF x, y
      <3>. QED
        BY <3>1, <3>2 DEF Handler
    <2>. QED
      BY <2>2, <2>5 DEF x, y, v
  <1>13. cf \in Seq(Frame) /\ Len(cf) = m
    <2>1. cf \in [1..m -> Frame]
      BY <1>10, <1>11
    <2>. HIDE DEF m
    <2>. QED
      BY <1>2, <2>1, SeqOfFunction
  <1>14. ch \in Seq(Handler) /\ Len(ch) = p
    <2>1. ch \in [1..p -> Handler]
      BY <1>10, <1>12
    <2>. HIDE DEF p
    <2>. QED
      BY <1>2, <2>1, SeqOfFunction
  <1>15. sv \in Saved
    BY <1>8, <1>10, <1>13, <1>14 DEF Saved
  <1>16. /\ cf # <<>> /\ cf[1].cl = fs[r].cl /\ cf[1].base = 0
         /\ \A i \in 2..m : cf[i].cl \in Inline
    <2>1. cf # <<>>
      BY <1>2, <1>13, EmptySeq
    <2>2. 1 \in 1..m /\ r + 1 - 1 = r
      BY <1>1, <1>2
    <2>3. cf[1].cl = fs[r].cl /\ cf[1].base = b - b /\ b - b = 0
      BY <1>1, <1>5, <1>11, <2>2
    <2>4. \A i \in 2..m : i \in 1..m /\ r + i - 1 \in r+1..n
      BY <1>1
    <2>. QED
      BY <1>1, <1>11, <2>1, <2>3, <2>4
  <1>17. \A i \in 1..m : /\ Ceiling(fs, s, r+i-1) \in Nat
                         /\ b <= Ceiling(fs, s, r+i-1)
                         /\ Ceiling(cf, z, i) = Ceiling(fs, s, r+i-1) - b
    <2>1. ASSUME NEW i \in 1..m
          PROVE  /\ Ceiling(fs, s, r+i-1) \in Nat
                 /\ b <= Ceiling(fs, s, r+i-1)
                 /\ Ceiling(cf, z, i) = Ceiling(fs, s, r+i-1) - b
      <3>1. CASE i = m
        <4>1. r + i - 1 = n /\ b \in Nat
          <5>1. b \in Nat
            BY <1>1, <1>5
          <5>2. r + i - 1 = n
            BY <1>1, <3>1
          <5>. QED
            BY <5>1, <5>2
        <4>2. Ceiling(fs, s, r+i-1) = s /\ Ceiling(cf, z, i) = z
          BY <1>13, <3>1, <4>1 DEF Ceiling
        <4>3. b <= s
          <5>. HIDE DEF b
          <5>. QED
            BY <1>8, <4>1
        <4>. QED
          BY <4>2, <4>3
      <3>2. CASE i # m
        <4>1. i + 1 \in 1..m /\ r + i - 1 # n /\ (r + i - 1) + 1 = r + (i + 1) - 1
              /\ r + (i + 1) - 1 \in r..n
          BY <1>1, <3>2
        <4>. DEFINE e == fs[r + (i + 1) - 1].base
        <4>2. Ceiling(fs, s, r+i-1) = e
          BY <4>1 DEF Ceiling
        <4>3. Ceiling(cf, z, i) = cf[i + 1].base
          BY <1>13, <3>2 DEF Ceiling
        <4>4. cf[i + 1].base = e - b
          BY <1>11, <4>1
        <4>5. e \in Nat /\ b <= e
          BY <1>5, <1>7, <4>1
        <4>. HIDE DEF e
        <4>. QED
          BY <4>2, <4>3, <4>4, <4>5
      <3>. QED
        BY <3>1, <3>2
    <2>. QED
      BY <2>1
  <1>18. b \in Nat
    BY <1>1, <1>5
  <1>. HIDE DEF b, z
  <1>19. FramesStacked(cf, z)
    <2>1. ASSUME NEW i \in 1..m
          PROVE  cf[i].base + FixedSlots <= Ceiling(cf, z, i)
      <3>. DEFINE x == fs[r+i-1].base
                  u == Ceiling(fs, s, r+i-1)
      <3>1. x \in Nat /\ u \in Nat /\ b <= x /\ b <= u /\ x + FixedSlots <= u
        <4>1. r + i - 1 \in 1..n /\ r + i - 1 \in r..n
          BY <1>1
        <4>. QED
          BY <1>5, <1>7, <1>17, <4>1 DEF WellFormed, FramesStacked
      <3>2. cf[i].base = x - b /\ Ceiling(cf, z, i) = u - b
        BY <1>11, <1>17
      <3>. HIDE DEF x, u
      <3>. QED
        BY <1>1, <1>18, <3>1, <3>2
    <2>2. ASSUME NEW i \in 1..m, NEW j \in 1..m, i < j
          PROVE  cf[i].base + FixedSlots <= cf[j].base
      <3>. DEFINE x == fs[r+i-1].base
                  y == fs[r+j-1].base
      <3>1. x \in Nat /\ y \in Nat /\ x + FixedSlots <= y
        <4>1. r + i - 1 \in 1..n /\ r + j - 1 \in 1..n /\ r + i - 1 < r + j - 1
          BY <1>1, <2>2
        <4>. QED
          BY <1>5, <4>1 DEF WellFormed, FramesStacked
      <3>2. cf[i].base = x - b /\ cf[j].base = y - b
        BY <1>11
      <3>. HIDE DEF x, y
      <3>. QED
        BY <1>1, <1>18, <3>1, <3>2
    <2>3. ASSUME NEW i \in 1..m, NEW l \in 1..Len(cf[i].tries)
          PROVE  /\ FixedSlots <= cf[i].tries[l]
                 /\ cf[i].base + cf[i].tries[l] <= Ceiling(cf, z, i)
                 /\ \A g \in 1..Len(cf[i].tries) :
                       l < g => cf[i].tries[l] <= cf[i].tries[g]
      <3>. DEFINE x == fs[r+i-1].base
                  y == fs[r+i-1].tries[l]
                  u == Ceiling(fs, s, r+i-1)
      <3>1. r + i - 1 \in 1..n /\ r + i - 1 \in r..n
        BY <1>1
      <3>2. cf[i].tries = fs[r+i-1].tries
        BY <1>11
      <3>3. /\ x \in Nat /\ y \in Nat /\ u \in Nat /\ b <= x /\ b <= u
        BY <1>5, <1>7, <1>17, <3>1, <3>2
      <3>4. /\ FixedSlots <= y /\ x + y <= u
            /\ \A g \in 1..Len(cf[i].tries) :
                  l < g => cf[i].tries[l] <= cf[i].tries[g]
        BY <3>1, <3>2 DEF WellFormed, FramesStacked
      <3>5. cf[i].base = x - b /\ Ceiling(cf, z, i) = u - b /\ cf[i].tries[l] = y
        BY <1>11, <1>17, <3>2
      <3>. HIDE DEF x, y, u
      <3>6. (x - b) + y <= u - b
        BY <1>18, <3>3, <3>4
      <3>. QED
        BY <3>4, <3>5, <3>6
    <2>. QED
      BY <1>13, <2>1, <2>2, <2>3 DEF FramesStacked
  <1>20. HandlersNested(cf, ch)
    <2>1. ASSUME NEW h \in 1..p
          PROVE  /\ ch[h].fc \in 1..Len(cf)
                 /\ ch[h].level < Len(cf[ch[h].fc].tries)
                 /\ ch[h].sc = cf[ch[h].fc].base + cf[ch[h].fc].tries[ch[h].level + 1]
      <3>. DEFINE f == hs[k+h].fc
                  i == ch[h].fc
                  v == hs[k+h].level
                  x == fs[f].base
                  y == fs[f].tries[v + 1]
      <3>1. f \in r..n /\ f \in 1..n /\ v < Len(fs[f].tries) /\ hs[k+h].sc = x + y
        <4>1. f \in r..n /\ k + h \in 1..q
          BY <1>4, <1>9
        <4>. QED
          BY <4>1 DEF WellFormed, HandlersNested
      <3>2. i \in 1..m /\ i = f - (r - 1) /\ ch[h].level = v /\ ch[h].sc = (x + y) - b
        BY <1>12, <3>1
      <3>3. r + i - 1 = f
        <4>1. i = f - (r - 1) /\ f \in r..n /\ r \in Nat /\ n \in Nat
          BY <1>1, <3>1, <3>2
        <4>. HIDE DEF f, i, n
        <4>. QED
          BY ONLY <4>1
      <3>4. cf[i].base = x - b /\ cf[i].tries = fs[f].tries
        BY <1>11, <3>2, <3>3
      <3>5. x \in Nat
        BY <1>5, <3>1
      <3>6. y \in Nat
        <4>1. v \in Nat
          BY <1>4, <1>6
        <4>. DEFINE len == Len(fs[f].tries)
        <4>2. len \in Nat /\ v < len
          BY <3>1, FrameAt
        <4>3. v + 1 \in 1..len
          <5>. HIDE DEF v, len
          <5>. QED
            BY <4>1, <4>2
        <4>. QED
          BY <1>5, <3>1, <4>3
      <3>. HIDE DEF x, y
      <3>7. (x + y) - b = (x - b) + y
        BY <1>18, <3>5, <3>6
      <3>8. cf[i].tries[v + 1] = y
        BY <3>4 DEF y
      <3>. HIDE DEF v, f
      <3>. QED
        BY <1>13, <3>1, <3>2, <3>4, <3>7, <3>8
    <2>2. ASSUME NEW g \in 1..p, NEW h \in 1..p, g < h
          PROVE  \/ ch[g].fc < ch[h].fc
                 \/ ch[g].fc = ch[h].fc /\ ch[g].level < ch[h].level
      <3>. DEFINE x == hs[k+g].fc
                  y == hs[k+h].fc
      <3>1. \/ x < y
            \/ x = y /\ hs[k+g].level < hs[k+h].level
        <4>1. k + g \in 1..q /\ k + h \in 1..q /\ k + g < k + h
          BY <1>1, <2>2
        <4>. QED
          BY <4>1 DEF WellFormed, HandlersNested
      <3>2. x \in r..n /\ y \in r..n
        BY <1>9
      <3>3. /\ ch[g].fc = x - (r - 1) /\ ch[h].fc = y - (r - 1)
            /\ ch[g].level = hs[k+g].level /\ ch[h].level = hs[k+h].level
        BY <1>12
      <3>. HIDE DEF x, y
      <3>4. x < y => x - (r - 1) < y - (r - 1)
        BY <1>1, <3>2
      <3>. QED
        BY <3>1, <3>3, <3>4
    <2>. QED
      BY <1>14, <2>1, <2>2 DEF HandlersNested
  <1>21. WellFormed(sv.frames, sv.size, sv.handlers)
    BY <1>10, <1>19, <1>20 DEF WellFormed, cf, ch
  <1>22. \A i \in 1..m : cf[i].ret = fs[r+i-1].ret
    BY <1>11
  <1>. QED
    BY <1>3, <1>10, <1>13, <1>15, <1>16, <1>21, <1>22 DEF cf

-----------------------------------------------------------------------------
(* The specification.                                                      *)

States == {"run", "native"} \cup Finished
Aborts == {"no", "frame", "exit"}
CoroType == [Closures -> Saved \cup {None}]

RunningOK ==
  /\ frames \in Seq(Frame) /\ sp \in Nat /\ handlers \in Seq(Handler)
  /\ natives \in Seq(Native) /\ targets \in Seq(Nat) /\ status \in States
  /\ ContextSound /\ NativesSound /\ LoopsMatch

HeldOK ==
  /\ coro \in CoroType /\ conts \in Seq(Continuation)
  /\ CoroutinesSound /\ ContinuationsSound /\ RetsExist

(* IInv is its two halves and a known abort flag, now                      *)
LEMMA Halves == IInv <=> RunningOK /\ HeldOK /\ abort \in Aborts
  BY DEF IInv, TypeOK, RunningOK, HeldOK, CoroType, States, Aborts

(* and after a step.                                                       *)
LEMMA Halves2 == IInv' <=> RunningOK' /\ HeldOK' /\ abort' \in Aborts
  BY DEF IInv, TypeOK, RunningOK, HeldOK, CoroType, States, Aborts

(* None is no saved activation: what a closure holds is one or the other.  *)
LEMMA HeldAt ==
  ASSUME NEW co \in CoroType, NEW c \in Closures, co[c] # None
  PROVE  co[c] \in Saved
  BY DEF CoroType

(* The fields of a native in progress,                                     *)
LEMMA NativeAt ==
  ASSUME NEW nt \in Native
  PROVE  /\ nt.base \in Nat /\ nt.sp \in Nat /\ nt.caller \in Seq(Frame)
         /\ nt.hs \in Seq(Handler) /\ nt.guarded \in BOOLEAN
  BY DEF Native

(* and of a continuation object.                                           *)
LEMMA ContAt ==
  ASSUME NEW cn \in Continuation
  PROVE  /\ cn.frames \in Seq(Frame) /\ cn.handlers \in Seq(Handler)
         /\ cn.sp \in Nat /\ cn.owner \in Closures \cup {None} /\ cn.resume \in Nat
  BY DEF Continuation

-----------------------------------------------------------------------------
(* What IInv says while a loop runs frames of its own.                     *)
LEMMA InLoop ==
  ASSUME IInv, status = "run", Anchored
  PROVE  /\ frames \in Seq(Frame) /\ frames # <<>>
         /\ Depth \in Nat /\ Depth >= 1 /\ Depth \in 1..Depth
         /\ Top \in Frame /\ Top.base \in Nat
         /\ sp \in Nat /\ handlers \in Seq(Handler)
         /\ WellFormed(frames, sp, handlers)
         /\ Floor \in Nat /\ Floor <= sp
         /\ Top.base + FixedSlots <= Floor
         /\ FixedSlots \in Nat /\ FixedSlots >= 1
         /\ targets \in Seq(Nat) /\ targets # <<>> /\ Len(targets) = Len(natives) + 1
         /\ Target \in Nat
         /\ natives = <<>> => Target = 0
  <1>1. /\ frames \in Seq(Frame) /\ sp \in Nat /\ handlers \in Seq(Handler)
        /\ natives \in Seq(Native) /\ targets \in Seq(Nat)
        /\ WellFormed(frames, sp, handlers)
    BY DEF IInv, TypeOK, ContextSound
  <1>2. frames # <<>>
    <2>1. Len(frames) > (IF natives = <<>> THEN 0 ELSE Len(Last(natives).caller))
      BY DEF Anchored, Depth
    <2>2. natives # <<>> => Len(Last(natives).caller) \in Nat
      BY <1>1, LastOf, NativeAt
    <2>. QED
      BY <1>1, <2>1, <2>2
  <1>3. Depth \in Nat /\ Depth >= 1 /\ Depth \in 1..Depth
    BY <1>1, <1>2, LastOf DEF Depth
  <1>4. Top \in Frame /\ Top.base \in Nat
    BY <1>1, <1>3, FrameAt DEF Top, Depth
  <1>5. /\ Floor \in Nat /\ Floor <= sp /\ Top.base + FixedSlots <= Floor
    BY <1>1, <1>2, FloorReached DEF Floor, Top
  <1>6. Len(targets) = Len(natives) + 1 /\ targets # <<>>
    <2>1. Len(targets) = Len(natives) + 1
      BY DEF IInv, LoopsMatch
    <2>2. Len(natives) \in Nat
      BY <1>1
    <2>. QED
      BY <2>1, <2>2
  <1>7. Target \in Nat
    BY <1>1, <1>6, LastOf DEF Target
  <1>8. natives = <<>> => Target = 0
    <2>1. targets[1] = 0
      BY <1>6 DEF IInv, LoopsMatch
    <2>. QED
      BY <1>6, <2>1 DEF Target, Last
  <1>. QED
    BY <1>1, <1>2, <1>3, <1>4, <1>5, <1>6, <1>7, <1>8, ContextAssumption

(* What it says of the native that is innermost.                           *)
LEMMA LastNative ==
  ASSUME IInv, natives # <<>>
  PROVE  /\ Last(natives) \in Native
         /\ Last(natives).base \in Nat /\ Last(natives).sp \in Nat
         /\ Last(natives).caller \in Seq(Frame) /\ Last(natives).hs \in Seq(Handler)
         /\ Last(natives).guarded \in BOOLEAN
         /\ Len(Last(natives).caller) \in Nat
         /\ Last(natives).caller # <<>>
         /\ FloorOf(Last(natives).caller) <= Last(natives).base
         /\ Last(natives).base < Last(natives).sp
         /\ WellFormed(Last(natives).caller, Last(natives).sp, Last(natives).hs)
  <1>1. natives \in Seq(Native)
    BY DEF IInv, TypeOK
  <1>2. Last(natives) = natives[Len(natives)] /\ Len(natives) \in 1..Len(natives)
        /\ Last(natives) \in Native
    BY <1>1, LastOf
  <1>3. Last(natives).caller \in Seq(Frame)
    BY <1>2, NativeAt
  <1>. QED
    BY <1>2, <1>3, NativeAt DEF IInv, NativesSound

(* And of the context that native runs in.                                 *)
LEMMA InsideNative ==
  ASSUME IInv, InNative
  PROVE  /\ natives # <<>> /\ natives \in Seq(Native)
         /\ frames = Last(natives).caller /\ sp = Last(natives).sp
         /\ frames \in Seq(Frame) /\ frames # <<>> /\ Depth \in Nat /\ Depth >= 1
         /\ sp \in Nat /\ handlers \in Seq(Handler)
         /\ WellFormed(frames, sp, handlers)
         /\ FloorOf(frames) \in Nat /\ FloorOf(frames) <= sp
         /\ targets \in Seq(Nat) /\ Len(targets) = Len(natives)
         /\ Len(natives) \in Nat /\ Len(natives) >= 1
  <1>1. natives # <<>> /\ Len(targets) = Len(natives)
    BY DEF IInv, LoopsMatch, InNative
  <1>2. frames = Last(natives).caller /\ sp = Last(natives).sp
    BY DEF InNative, Anchored
  <1>3. /\ frames \in Seq(Frame) /\ sp \in Nat /\ handlers \in Seq(Handler)
        /\ WellFormed(frames, sp, handlers)
        /\ natives \in Seq(Native) /\ targets \in Seq(Nat)
    BY DEF IInv, TypeOK, ContextSound, InNative
  <1>4. frames # <<>>
    BY <1>1, <1>2, LastNative
  <1>5. Depth \in Nat /\ Depth >= 1 /\ Len(natives) \in Nat /\ Len(natives) >= 1
    BY <1>1, <1>3, <1>4, LastOf DEF Depth
  <1>6. FloorOf(frames) \in Nat /\ FloorOf(frames) <= sp
    BY <1>3, <1>4, FloorReached
  <1>. QED
    BY <1>1, <1>2, <1>3, <1>4, <1>5, <1>6

(* The end of a sequence cut off.                                          *)
LEMMA Cut ==
  ASSUME NEW S, NEW s \in Seq(S), NEW n \in 0..Len(s)
  PROVE  /\ SubSeq(s, 1, n) \in Seq(S) /\ Len(SubSeq(s, 1, n)) = n
         /\ \A i \in 1..n : SubSeq(s, 1, n)[i] = s[i]
  OBVIOUS

(* First(s, n) is a prefix of s, of n elements when there are as many;     *)
LEMMA FirstIsCut ==
  ASSUME NEW S, NEW s \in Seq(S), NEW n \in Nat
  PROVE  \E m \in 0..Len(s) : /\ First(s, n) = SubSeq(s, 1, m) /\ m <= n
                              /\ n <= Len(s) => m = n
  BY DEF First

(* and so is AllButLast(s), with one element less.                         *)
LEMMA ButLastIsCut ==
  ASSUME NEW S, NEW s \in Seq(S), s # <<>>
  PROVE  /\ Len(s) - 1 \in 0..Len(s) /\ AllButLast(s) = SubSeq(s, 1, Len(s) - 1)
         /\ AllButLast(s) \in Seq(S) /\ Len(AllButLast(s)) = Len(s) - 1
         /\ \A i \in 1..Len(s)-1 : AllButLast(s)[i] = s[i]
  <1>1. Len(s) \in Nat /\ Len(s) >= 1
    BY LastOf
  <1>2. Len(s) - 1 \in 0..Len(s)
    BY <1>1
  <1>. QED
    BY <1>2, Cut DEF AllButLast

(* Frames copied from others go back to continuations that were made.      *)
LEMMA RetsCopied ==
  ASSUME NEW fs \in Seq(Frame), NEW gs \in Seq(Frame), RetsMade(fs),
         Len(gs) <= Len(fs), \A i \in 1..Len(gs) : gs[i].ret = fs[i].ret
  PROVE  RetsMade(gs)
  <1>1. \A i \in 1..Len(gs) : i \in 1..Len(fs)
    BY LenProperties
  <1>. QED
    BY <1>1 DEF RetsMade

(* The loop goes on with a well formed context.                            *)
LEMMA StayKeeps ==
  ASSUME IInv, status = "run", Anchored,
         NEW fs \in Seq(Frame), NEW hs \in Seq(Handler), NEW s \in Nat,
         StayInLoop(fs, hs, s),
         fs # <<>> => WellFormed(fs, s, hs)
  PROVE  RunningOK' /\ frames' = fs
  <1>1. /\ frames' = fs /\ handlers' = hs /\ sp' = s
        /\ natives' = natives /\ targets' = targets /\ status' = "run"
    BY DEF StayInLoop
  <1>2. /\ natives \in Seq(Native) /\ targets \in Seq(Nat)
        /\ NativesSound /\ LoopsMatch
    BY DEF IInv, TypeOK
  <1>3. NativesSound' /\ LoopsMatch'
    BY <1>1, <1>2 DEF NativesSound, LoopsMatch, Finished
  <1>4. ContextSound'
    <2>. SUFFICES ASSUME Anchored' PROVE WellFormed(frames', sp', handlers')
      BY DEF ContextSound
    <2>1. fs # <<>>
      <3>1. Len(fs) > (IF natives = <<>> THEN 0 ELSE Len(Last(natives).caller))
        BY <1>1 DEF Anchored, Depth
      <3>2. natives # <<>> => Len(Last(natives).caller) \in Nat
        BY LastNative
      <3>. QED
        BY <3>1, <3>2
    <2>. QED
      BY <1>1, <2>1
  <1>. QED
    BY <1>1, <1>2, <1>3, <1>4 DEF RunningOK, States

(* A loop ends: the host sees a well formed context, and the native that   *)
(* waits, if the frames it finds are its caller's, one that is well formed *)
(* at the height of its operands.                                          *)
LEMMA EndLoopKeeps ==
  ASSUME IInv, status = "run", Anchored,
         NEW r \in {"ok", "error", "halt"},
         NEW fs \in Seq(Frame), NEW hs \in Seq(Handler), NEW s \in Nat,
         EndLoop(r, fs, hs, s),
         natives = <<>> => WellFormed(fs, s, hs),
         natives # <<>> /\ fs = Last(natives).caller =>
            WellFormed(fs, IF r = "ok" /\ s > 0 THEN s - 1 ELSE s, hs)
  PROVE  /\ RunningOK'
         /\ Len(frames') <= Len(fs)
         /\ \A i \in 1..Len(frames') : frames'[i] = fs[i]
  <1>1. /\ natives \in Seq(Native) /\ targets \in Seq(Nat) /\ targets # <<>>
        /\ Len(targets) = Len(natives) + 1 /\ Len(natives) \in Nat
        /\ NativesSound /\ LoopsMatch
    BY InLoop DEF IInv, TypeOK
  <1>2. natives' = natives /\ targets' = AllButLast(targets)
    BY DEF EndLoop
  <1>3. /\ targets' \in Seq(Nat) /\ Len(targets') = Len(natives)
        /\ targets' # <<>> => targets'[1] = 0
    <2>1. /\ targets' \in Seq(Nat) /\ Len(targets') = Len(targets) - 1
          /\ \A i \in 1..Len(targets) - 1 : targets'[i] = targets[i]
      BY <1>1, <1>2, ButLastIsCut
    <2>2. targets' # <<>> => 1 \in 1..Len(targets) - 1
      BY <2>1, EmptySeq
    <2>3. targets[1] = 0
      BY <1>1 DEF LoopsMatch
    <2>. QED
      BY <1>1, <2>1, <2>2, <2>3
  <1>4. CASE natives = <<>>
    <2>1. frames' = fs /\ handlers' = hs /\ sp' = s /\ status' = r
      BY <1>4 DEF EndLoop
    <2>2. NativesSound' /\ LoopsMatch'
      BY <1>1, <1>2, <1>3, <1>4, <2>1 DEF NativesSound, LoopsMatch, Finished
    <2>3. ContextSound'
      BY <1>4, <2>1 DEF ContextSound
    <2>4. status' \in States
      BY <2>1 DEF States, Finished
    <2>5. Len(fs) \in Nat
      BY LenProperties
    <2>. QED
      BY <1>1, <1>2, <1>3, <2>1, <2>2, <2>3, <2>4, <2>5 DEF RunningOK
  <1>5. CASE natives # <<>>
    <2>. DEFINE nt == Last(natives)
    <2>1. /\ nt \in Native /\ nt.sp \in Nat /\ nt.caller \in Seq(Frame) /\ nt.hs \in Seq(Handler)
          /\ WellFormed(nt.caller, nt.sp, nt.hs)
      BY <1>5, LastNative
    <2>2. status' = "native" /\ Last(natives') = nt
      BY <1>2, <1>5 DEF EndLoop
    <2>3. NativesSound' /\ LoopsMatch'
      BY <1>1, <1>2, <1>3, <1>5, <2>2 DEF NativesSound, LoopsMatch, Finished
    <2>4. \/ /\ nt.guarded
             /\ frames' = First(fs, Len(nt.caller))
             /\ handlers' = First(hs, Len(nt.hs))
             /\ sp' = nt.sp
          \/ /\ ~nt.guarded
             /\ frames' = fs /\ handlers' = hs
             /\ sp' = IF r = "ok" /\ s > 0 THEN s - 1 ELSE s
      BY <1>5 DEF EndLoop
    <2>5. Anchored' => /\ frames' = nt.caller /\ sp' = nt.sp
                       /\ nt.guarded => handlers' = nt.hs
      BY <2>2 DEF Anchored
    <2>. HIDE DEF nt
    <2>6. CASE nt.guarded
      <3>0. Len(nt.caller) \in Nat /\ Len(nt.hs) \in Nat /\ Len(fs) \in Nat
        BY <2>1, LenProperties
      <3>1. PICK m \in 0..Len(fs) : First(fs, Len(nt.caller)) = SubSeq(fs, 1, m)
        BY <3>0, FirstIsCut
      <3>2. PICK k \in 0..Len(hs) : First(hs, Len(nt.hs)) = SubSeq(hs, 1, k)
        BY <3>0, FirstIsCut
      <3>3. /\ frames' \in Seq(Frame) /\ Len(frames') = m
            /\ \A i \in 1..m : frames'[i] = fs[i]
        BY <2>4, <2>6, <3>1, Cut
      <3>4. handlers' \in Seq(Handler)
        BY <2>4, <2>6, <3>2, Cut
      <3>5. ContextSound'
        BY <2>1, <2>5, <2>6 DEF ContextSound
      <3>6. sp' \in Nat /\ status' \in States
        BY <2>1, <2>2, <2>4, <2>6 DEF States
      <3>. QED
        BY <1>1, <1>2, <1>3, <2>3, <3>0, <3>3, <3>4, <3>5, <3>6 DEF RunningOK
    <2>7. CASE ~nt.guarded
      <3>1. frames' = fs /\ handlers' = hs /\ sp' \in Nat
        BY <2>4, <2>7
      <3>2. ContextSound'
        BY <1>5, <2>4, <2>5, <2>7 DEF ContextSound, nt
      <3>3. status' \in States /\ Len(fs) \in Nat
        BY <2>2, LenProperties DEF States
      <3>. QED
        BY <1>1, <1>2, <1>3, <2>3, <3>1, <3>2, <3>3 DEF RunningOK
    <2>8. nt.guarded \in BOOLEAN
      BY <2>1 DEF Native
    <2>. QED
      BY <2>6, <2>7
  <1>. QED
    BY <1>4, <1>5

(* Coroutines that a step saves, drops or leaves alone.                    *)
CoroOK(co) ==
  /\ co \in CoroType
  /\ \A c \in Closures : co[c] # None => SavedSound(c, co[c]) /\ RetsMade(co[c].frames)

(* What IInv says of the coroutines and continuations, in one place.       *)
LEMMA HeldFacts ==
  ASSUME IInv
  PROVE  /\ CoroOK(coro) /\ RetsMade(frames)
         /\ conts \in Seq(Continuation) /\ Len(conts) \in Nat
  <1>1. conts \in Seq(Continuation) /\ coro \in CoroType
    BY DEF IInv, TypeOK, CoroType
  <1>. QED
    BY <1>1 DEF IInv, CoroOK, CoroutinesSound, RetsExist

(* The held half survives a step that makes no continuation.               *)
LEMMA HeldKeeps ==
  ASSUME IInv, conts' = conts, CoroOK(coro'), RetsMade(frames')
  PROVE  HeldOK'
  <1>1. conts' \in Seq(Continuation) /\ coro' \in CoroType
    BY DEF IInv, TypeOK, CoroOK
  <1>2. CoroutinesSound'
    BY DEF CoroOK, CoroutinesSound
  <1>3. ContinuationsSound'
    BY DEF IInv, ContinuationsSound
  <1>4. RetsExist'
    BY DEF IInv, RetsExist, RetsMade, CoroOK
  <1>. QED
    BY <1>1, <1>2, <1>3, <1>4 DEF HeldOK

(* A closure whose suspended activation is forgotten,                      *)
LEMMA CoroCleared ==
  ASSUME NEW co, CoroOK(co), NEW c \in Closures
  PROVE  CoroOK([co EXCEPT ![c] = None])
  BY DEF CoroOK, CoroType

(* and one that is given a sound activation.                               *)
LEMMA CoroStored ==
  ASSUME NEW co, CoroOK(co), NEW c \in Closures, NEW sv \in Saved,
         SavedSound(c, sv), RetsMade(sv.frames)
  PROVE  CoroOK([co EXCEPT ![c] = sv])
  BY DEF CoroOK, CoroType

(* A closure entered, fresh or resumed, where the context is well formed.  *)
LEMMA EnterKeeps ==
  ASSUME NEW fs \in Seq(Frame), NEW hs \in Seq(Handler), NEW b \in Nat,
         NEW co, CoroOK(co), NEW c \in Closures, abort \in Aborts,
         conts \in Seq(Continuation),
         WellFormed(fs, b, hs), RetsMade(fs), Enter(fs, hs, co, c, b)
  PROVE  /\ frames' \in Seq(Frame) /\ frames' # <<>> /\ sp' \in Nat /\ handlers' \in Seq(Handler)
         /\ WellFormed(frames', sp', handlers')
         /\ CoroOK(coro') /\ RetsMade(frames') /\ abort' \in Aborts
  <1>0. StackMax \in Nat /\ FixedSlots \in Nat /\ Len(conts) \in Nat /\ Len(fs) \in Nat
    BY ContextAssumption
  <1>1. CASE co[c] = None
    <2>1. /\ frames' = Append(fs, NewFrame(c, b)) /\ handlers' = hs
          /\ sp' = b + FixedSlots /\ coro' = co /\ abort' = abort
      BY <1>1 DEF Enter
    <2>2. frames' \in Seq(Frame) /\ WellFormed(frames', sp', handlers')
      BY <2>1, PushContext
    <2>4. frames' # <<>>
      BY <2>1
    <2>3. RetsMade(frames')
      <3>1. /\ Len(frames') = Len(fs) + 1 /\ frames'[Len(fs) + 1].ret = 0
            /\ \A i \in 1..Len(fs) : frames'[i] = fs[i]
        BY <2>1 DEF NewFrame
      <3>2. ASSUME NEW i \in 1..Len(frames')
            PROVE  frames'[i].ret <= Len(conts)
        <4>1. CASE i = Len(fs) + 1
          BY <1>0, <3>1, <4>1
        <4>2. CASE i # Len(fs) + 1
          <5>1. i \in 1..Len(fs)
            BY <1>0, <3>1, <4>2
          <5>. QED
            BY <3>1, <5>1 DEF RetsMade
        <4>. QED
          BY <4>1, <4>2
      <3>. QED
        BY <3>2 DEF RetsMade
    <2>. QED
      BY <1>0, <2>1, <2>2, <2>3, <2>4
  <1>2. CASE co[c] # None
    <2>. DEFINE sv == co[c]
                rf == ResumedFrames(sv, b)
                t  == b + sv.size
    <2>1. sv \in Saved /\ SavedSound(c, sv) /\ RetsMade(sv.frames)
      BY <1>2, HeldAt DEF CoroOK
    <2>2. /\ frames' = fs \o rf
          /\ handlers' = hs \o ResumedHandlers(sv, Len(fs), b)
          /\ coro' = [co EXCEPT ![c] = None]
          /\ \/ sp' = t /\ abort' = "frame"
             \/ sp' = t + 1 /\ abort' = abort
             \/ sp' = t + 0 /\ abort' = abort
      BY <1>2 DEF Enter
    <2>3. /\ frames' \in Seq(Frame) /\ handlers' \in Seq(Handler)
          /\ WellFormed(frames', t, handlers')
      BY <2>1, <2>2, ResumeContext DEF SavedSound
    <2>4. /\ rf \in Seq(Frame) /\ Len(rf) = Len(sv.frames)
          /\ \A i \in 1..Len(sv.frames) : rf[i].ret = sv.frames[i].ret
          /\ sv.frames \in Seq(Frame) /\ t \in Nat
      <3>1. sv.size \in Nat /\ sv.frames \in Seq(Frame)
        BY <2>1, SavedAt
      <3>2. /\ rf \in Seq(Frame) /\ Len(rf) = Len(sv.frames)
            /\ \A i \in 1..Len(sv.frames) : rf[i].ret = sv.frames[i].ret
        BY <2>1, ResumedShape
      <3>. QED
        BY <3>1, <3>2
    <2>. HIDE DEF rf, t, sv
    <2>5. /\ Len(frames') = Len(fs) + Len(rf)
          /\ \A i \in 1..Len(fs) : frames'[i] = fs[i]
          /\ \A i \in 1..Len(rf) : frames'[Len(fs) + i] = rf[i]
      <3>. DEFINE gs == fs \o rf
      <3>1. /\ Len(gs) = Len(fs) + Len(rf)
            /\ \A i \in 1..Len(fs) : gs[i] = fs[i]
            /\ \A i \in 1..Len(rf) : gs[Len(fs) + i] = rf[i]
        <4>1. rf \in Seq(Frame)
          BY <2>4
        <4>. QED
          BY <4>1, Joined
      <3>2. frames' = gs
        BY <2>2
      <3>. HIDE DEF gs
      <3>. QED
        BY <3>1, <3>2
    <2>6. Len(rf) \in Nat /\ Len(rf) >= 1
      BY <2>1, <2>4, LastOf DEF SavedSound, sv
    <2>7. frames' # <<>>
      BY <1>0, <2>3, <2>5, <2>6
    <2>8. RetsMade(frames')
      <3>1. ASSUME NEW i \in 1..Len(frames')
            PROVE  frames'[i].ret <= Len(conts)
        <4>1. CASE i <= Len(fs)
          <5>1. i \in 1..Len(fs)
            BY <1>0, <2>5, <2>6, <4>1
          <5>. QED
            BY <2>5, <5>1 DEF RetsMade
        <4>2. CASE ~(i <= Len(fs))
          <5>1. i - Len(fs) \in 1..Len(rf) /\ i = Len(fs) + (i - Len(fs))
            BY <1>0, <2>5, <2>6, <4>2
          <5>2. PICK j \in 1..Len(rf) : i = Len(fs) + j
            BY <5>1
          <5>3. frames'[i] = rf[j] /\ rf[j].ret = sv.frames[j].ret /\ j \in 1..Len(sv.frames)
            BY <2>4, <2>5, <5>2
          <5>. QED
            BY <2>1, <5>3 DEF RetsMade
        <4>. QED
          BY <4>1, <4>2
      <3>. QED
        BY <3>1 DEF RetsMade
    <2>9. sp' \in Nat /\ sp' >= t /\ abort' \in Aborts
      BY <2>2, <2>4 DEF Aborts
    <2>10. WellFormed(frames', sp', handlers')
      <3>1. FloorOf(frames') \in Nat /\ FloorOf(frames') <= t
        BY <2>3, <2>4, <2>7, FloorReached
      <3>2. sp' >= FloorOf(frames')
        BY <2>4, <2>9, <3>1
      <3>. QED
        BY <2>3, <2>4, <2>7, <2>9, <3>2, HeightMoves
    <2>11. CoroOK(coro')
      BY <2>2, CoroCleared
    <2>. QED
      BY <2>3, <2>7, <2>8, <2>9, <2>10, <2>11
  <1>. QED
    BY <1>1, <1>2

-----------------------------------------------------------------------------
(* Instructions that only move the stack top.                              *)
LEMMA HeightStep ==
  ASSUME IInv, Running, sp' \in Nat, sp' >= Floor, abort' \in Aborts,
         UNCHANGED <<frames, handlers, coro, conts, natives, targets, status>>
  PROVE  IInv'
  <1>1. WellFormed(frames, sp', handlers)
    BY InLoop, HeightMoves DEF Running, Floor
  <1>2. StayInLoop(frames, handlers, sp')
    BY DEF StayInLoop
  <1>3. frames \in Seq(Frame) /\ handlers \in Seq(Handler) /\ status = "run" /\ Anchored
    BY DEF IInv, TypeOK, Running
  <1>4. RunningOK'
    BY <1>1, <1>2, <1>3, StayKeeps
  <1>5. HeldOK'
    BY HeldFacts, HeldKeeps
  <1>. QED
    BY <1>4, <1>5, Halves2

(* OP_CALL that ends with null for its callee and arguments.               *)
LEMMA CallToNullStep ==
  ASSUME IInv, NEW k \in Args, CallToNull(k)
  PROVE  IInv'
  <1>1. k \in Nat
    BY ControlAssumption
  <1>2. Running /\ sp >= Floor + k + 1 /\ sp' = sp - k
    BY DEF CallToNull
  <1>3. sp \in Nat /\ Floor \in Nat
    BY <1>2, InLoop DEF Running
  <1>4. sp' \in Nat /\ sp' >= Floor
    BY <1>1, <1>2, <1>3
  <1>5. abort' \in Aborts
    BY DEF CallToNull, IInv, TypeOK, Aborts
  <1>. QED
    BY <1>2, <1>4, <1>5, HeightStep DEF CallToNull

(* An instruction that pushes (slp_vm_push, full or not).                  *)
LEMMA PushOperandStep ==
  ASSUME IInv, PushOperand
  PROVE  IInv'
  <1>1. Running
    BY DEF PushOperand
  <1>2. sp \in Nat /\ Floor \in Nat /\ Floor <= sp
    BY <1>1, InLoop DEF Running
  <1>3. sp' \in Nat /\ sp' >= Floor
    BY <1>2 DEF PushOperand
  <1>4. abort' \in Aborts
    BY DEF PushOperand, IInv, TypeOK, Aborts
  <1>. QED
    BY <1>1, <1>3, <1>4, HeightStep DEF PushOperand

(* An instruction that pops.                                               *)
LEMMA PopOperandStep ==
  ASSUME IInv, PopOperand
  PROVE  IInv'
  <1>1. Running /\ sp > Floor /\ sp' = sp - 1
    BY DEF PopOperand
  <1>2. sp \in Nat /\ Floor \in Nat
    BY <1>1, InLoop DEF Running
  <1>3. sp' \in Nat /\ sp' >= Floor
    BY <1>1, <1>2
  <1>4. abort' \in Aborts
    BY DEF PopOperand, IInv, TypeOK, Aborts
  <1>. QED
    BY <1>1, <1>3, <1>4, HeightStep DEF PopOperand

(* OP_ASSERT on a false value.                                             *)
LEMMA AssertFailsStep ==
  ASSUME IInv, AssertFails
  PROVE  IInv'
  <1>1. Running /\ sp > Floor /\ sp' = sp - 1
    BY DEF AssertFails
  <1>2. sp \in Nat /\ Floor \in Nat
    BY <1>1, InLoop DEF Running
  <1>3. sp' \in Nat /\ sp' >= Floor
    BY <1>1, <1>2
  <1>4. abort' \in Aborts
    BY DEF AssertFails, Aborts
  <1>. QED
    BY <1>1, <1>3, <1>4, HeightStep DEF AssertFails

-----------------------------------------------------------------------------
(* The frames of a step that replaces the top frame's tries.               *)
WithTopTries(fs, ts) == [fs EXCEPT ![Len(fs)].tries = ts]

(* What changes when the top frame enters or leaves a try.                 *)
LEMMA TopTries ==
  ASSUME NEW fs \in Seq(Frame), fs # <<>>, NEW ts \in Seq(Nat), NEW gs,
         gs = WithTopTries(fs, ts)
  PROVE  /\ gs \in Seq(Frame) /\ Len(gs) = Len(fs)
         /\ \A i \in 1..Len(fs) : gs[i].base = fs[i].base /\ gs[i].ret = fs[i].ret
         /\ \A i \in 1..Len(fs) : i # Len(fs) => gs[i].tries = fs[i].tries
         /\ gs[Len(fs)].tries = ts
  <1>. DEFINE n  == Len(fs)
              fr == [fs[n] EXCEPT !.tries = ts]
  <1>1. n \in 1..n /\ fs[n] \in Frame
    BY LastOf
  <1>2. /\ fr \in Frame /\ fr.base = fs[n].base /\ fr.ret = fs[n].ret
        /\ fr.tries = ts
    BY <1>1 DEF Frame
  <1>3. gs = [fs EXCEPT ![n] = fr]
    BY DEF WithTopTries
  <1>. HIDE DEF fr
  <1>4. /\ gs \in Seq(Frame) /\ Len(gs) = n
        /\ \A i \in 1..n : gs[i] = IF i = n THEN fr ELSE fs[i]
    <2>1. n \in 1..Len(fs) /\ Len(fs) = n
      BY <1>1
    <2>. HIDE DEF n
    <2>2. /\ [fs EXCEPT ![n] = fr] \in Seq(Frame)
          /\ Len([fs EXCEPT ![n] = fr]) = Len(fs)
          /\ \A i \in 1..Len(fs) :
                [fs EXCEPT ![n] = fr][i] = IF i = n THEN fr ELSE fs[i]
      BY <1>2, <2>1, ExceptSeq
    <2>. QED
      BY <1>3, <2>1, <2>2
  <1>. QED
    BY <1>1, <1>2, <1>4

(* OP_PUSH_HANDLER, recorded or dropped at the limit.                      *)
LEMMA EnterTryStep ==
  ASSUME IInv, EnterTry
  PROVE  IInv'
  <1>. DEFINE ts == Append(Top.tries, sp - Top.base)
              nh == [fc |-> Len(frames), sc |-> sp, level |-> Len(Top.tries)]
              gs == [frames EXCEPT ![Len(frames)].tries = ts]
              ks == IF Len(handlers) < MaxHandlers
                    THEN Append(handlers, nh) ELSE handlers
  <1>1. Running
    BY DEF EnterTry
  <1>2. /\ frames \in Seq(Frame) /\ frames # <<>> /\ Top \in Frame /\ Top.base \in Nat
        /\ sp \in Nat /\ handlers \in Seq(Handler) /\ WellFormed(frames, sp, handlers)
        /\ Floor \in Nat /\ Floor <= sp /\ Top.base + FixedSlots <= Floor
        /\ FixedSlots \in Nat
        /\ Depth = Len(frames) /\ Depth \in Nat /\ Top = frames[Len(frames)]
    BY <1>1, InLoop DEF Running, Depth, Top
  <1>3. ts \in Seq(Nat)
    <2>1. Top.tries \in Seq(Nat)
      BY <1>2 DEF Frame
    <2>2. sp - Top.base \in Nat
      BY <1>2
    <2>. QED
      BY <2>1, <2>2
  <1>4. /\ gs \in Seq(Frame) /\ Len(gs) = Len(frames)
        /\ \A i \in 1..Len(frames) : gs[i].base = frames[i].base /\ gs[i].ret = frames[i].ret
        /\ \A i \in 1..Len(frames) : i # Len(frames) => gs[i].tries = frames[i].tries
        /\ gs[Len(frames)].tries = ts
    <2>1. gs = WithTopTries(frames, ts)
      BY DEF WithTopTries
    <2>2. frames \in Seq(Frame) /\ frames # <<>>
      BY <1>2
    <2>. HIDE DEF gs, ts, ks, nh
    <2>. QED
      BY ONLY <1>3, <2>1, <2>2, TopTries
  <1>5. ks \in Seq(Handler)
    <2>1. Len(Top.tries) \in Nat
      BY <1>2 DEF Frame
    <2>2. nh \in Handler
      BY <1>2, <2>1 DEF Handler
    <2>. HIDE DEF nh
    <2>. QED
      BY <1>2, <2>2
  <1>6. frames' = gs /\ handlers' = ks /\ sp' = sp
    BY <1>2 DEF EnterTry
  <1>7. WellFormed(gs, sp, ks)
    <2>1. gs[Len(frames)].tries = Append(frames[Len(frames)].tries, sp - frames[Len(frames)].base)
      BY <1>2, <1>4
    <2>2. \/ ks = handlers
          \/ ks = Append(handlers, [fc |-> Len(frames), sc |-> sp,
                                    level |-> Len(frames[Len(frames)].tries)])
      BY <1>2
    <2>. HIDE DEF gs, ks, ts
    <2>. QED
      BY <1>2, <1>4, <1>5, <2>1, <2>2, TryAdded
  <1>. HIDE DEF gs, ks
  <1>8. RunningOK'
    <2>1. StayInLoop(gs, ks, sp)
      BY <1>6 DEF EnterTry, StayInLoop
    <2>. QED
      BY <1>1, <1>2, <1>4, <1>5, <1>7, <2>1, StayKeeps DEF Running
  <1>9. HeldOK'
    <2>1. RetsMade(frames')
      BY <1>2, <1>4, <1>6, HeldFacts, RetsCopied DEF RetsMade
    <2>. QED
      BY <2>1, HeldFacts, HeldKeeps DEF EnterTry
  <1>10. abort' \in Aborts
    BY DEF EnterTry, IInv, TypeOK, Aborts
  <1>. QED
    BY <1>8, <1>9, <1>10, Halves2

(* Popping handlers from the end and leaving the tries they belong to.     *)
LEMMA LeaveTryStep ==
  ASSUME IInv, LeaveTry
  PROVE  IInv'
  <1>. DEFINE n  == Len(frames)
              ts == AllButLast(Top.tries)
              gs == [frames EXCEPT ![n].tries = ts]
              ks == IF handlers = <<>> THEN handlers ELSE AllButLast(handlers)
  <1>1. Running /\ Top.tries # <<>>
    BY DEF LeaveTry
  <1>2. /\ frames \in Seq(Frame) /\ frames # <<>> /\ Top \in Frame /\ Top.base \in Nat
        /\ sp \in Nat /\ handlers \in Seq(Handler) /\ WellFormed(frames, sp, handlers)
        /\ Depth = n /\ n \in Nat /\ n \in 1..n /\ Top = frames[n]
    BY <1>1, InLoop DEF Running, Depth, Top
  <1>3. /\ Top.tries \in Seq(Nat) /\ ts \in Seq(Nat) /\ Len(ts) = Len(Top.tries) - 1
        /\ \A l \in 1..Len(ts) : ts[l] = Top.tries[l]
        /\ Len(Top.tries) \in Nat /\ Len(Top.tries) >= 1
    <2>1. Top.tries \in Seq(Nat)
      BY <1>2 DEF Frame
    <2>. QED
      BY <1>1, <2>1, ButLastIsCut, LastOf
  <1>4. /\ gs \in Seq(Frame) /\ Len(gs) = n
        /\ \A i \in 1..n : gs[i].base = frames[i].base /\ gs[i].ret = frames[i].ret
        /\ \A i \in 1..n : i # n => gs[i].tries = frames[i].tries
        /\ gs[n].tries = ts
    <2>1. gs = WithTopTries(frames, ts)
      BY DEF WithTopTries
    <2>2. frames \in Seq(Frame) /\ frames # <<>> /\ ts \in Seq(Nat) /\ Len(frames) = n
      BY <1>2, <1>3
    <2>. HIDE DEF gs, ts, ks, n
    <2>3. /\ gs \in Seq(Frame) /\ Len(gs) = Len(frames)
          /\ \A i \in 1..Len(frames) : gs[i].base = frames[i].base /\ gs[i].ret = frames[i].ret
          /\ \A i \in 1..Len(frames) : i # Len(frames) => gs[i].tries = frames[i].tries
          /\ gs[Len(frames)].tries = ts
      BY ONLY <2>1, <2>2, TopTries
    <2>. QED
      BY ONLY <2>2, <2>3
  <1>5. PICK k \in 0..Len(handlers) :
           /\ ks = SubSeq(handlers, 1, k)
           /\ Len(handlers) > 0 => k = Len(handlers) - 1
    <2>1. CASE handlers = <<>>
      <3>1. Len(handlers) = 0 /\ SubSeq(handlers, 1, 0) = handlers
        BY <1>2, <2>1, EmptySeq
      <3>. QED
        BY <2>1, <3>1
    <2>2. CASE handlers # <<>>
      BY <1>2, <2>2, ButLastIsCut
    <2>. QED
      BY <2>1, <2>2
  <1>6. /\ ks \in Seq(Handler) /\ Len(ks) = k
        /\ \A h \in 1..k : ks[h] = handlers[h]
        /\ HandlersNested(frames, ks)
    BY <1>2, <1>5, HandlersPrefix DEF WellFormed
  <1>7. frames' = gs /\ handlers' = ks /\ sp' = sp
    BY <1>2 DEF LeaveTry
  <1>. HIDE DEF gs, ks, ts
  <1>8. \A h \in 1..Len(ks) : ks[h].level < Len(gs[ks[h].fc].tries)
    <2>1. ASSUME NEW h \in 1..k
          PROVE  ks[h].level < Len(gs[ks[h].fc].tries)
      <3>1. /\ ks[h].fc \in 1..n /\ ks[h].level < Len(frames[ks[h].fc].tries)
            /\ ks[h].level \in Nat
        BY <1>6, <2>1, HandlerAt DEF HandlersNested
      <3>2. CASE ks[h].fc # n
        BY <1>4, <3>1, <3>2
      <3>3. CASE ks[h].fc = n
        <4>. DEFINE q == Len(handlers)
        <4>1. q \in Nat /\ q > 0 /\ k = q - 1 /\ h < q /\ h \in 1..q /\ q \in 1..q
          BY <1>2, <1>5, <2>1
        <4>2. /\ handlers[h] = ks[h]
              /\ \/ handlers[h].fc < handlers[q].fc
                 \/ handlers[h].fc = handlers[q].fc /\ handlers[h].level < handlers[q].level
              /\ handlers[q].fc \in 1..n
              /\ handlers[q].level < Len(frames[handlers[q].fc].tries)
              /\ handlers[q].level \in Nat
          BY <1>2, <1>6, <2>1, <4>1, HandlerAt DEF WellFormed, HandlersNested
        <4>3. handlers[q].fc = n /\ ks[h].level < handlers[q].level
          <5>. DEFINE x == handlers[q].fc
          <5>1. x \in 1..n /\ (n < x \/ n = x)
            BY <3>3, <4>2
          <5>. HIDE DEF x, n
          <5>2. x = n /\ ~(n < x)
            BY <1>2, <5>1
          <5>. QED
            BY <3>3, <4>2, <5>2 DEF x
        <4>4. ks[h].level < Len(Top.tries) - 1
          <5>. DEFINE x == ks[h].level
                      y == handlers[q].level
                      z == Len(Top.tries)
          <5>1. x \in Nat /\ y \in Nat /\ z \in Nat /\ x < y /\ y < z
            BY <1>2, <1>3, <3>1, <4>2, <4>3
          <5>. HIDE DEF x, y, z
          <5>2. x < z - 1
            BY <5>1
          <5>. QED
            BY <5>2 DEF x, z
        <4>. QED
          BY <1>3, <1>4, <3>3, <4>4
      <3>. QED
        BY <3>2, <3>3
    <2>. QED
      BY <1>6, <2>1
  <1>9. WellFormed(gs, sp, ks)
    <2>1. \A i \in 1..n :
             /\ gs[i].base = frames[i].base
             /\ Len(gs[i].tries) <= Len(frames[i].tries)
             /\ \A l \in 1..Len(gs[i].tries) : gs[i].tries[l] = frames[i].tries[l]
      <3>1. \A i \in 1..n : Len(frames[i].tries) \in Nat
        BY <1>2, FrameAt
      <3>2. Len(gs[n].tries) <= Len(frames[n].tries)
            /\ \A l \in 1..Len(gs[n].tries) : gs[n].tries[l] = frames[n].tries[l]
        BY <1>2, <1>3, <1>4
      <3>. QED
        BY <1>4, <3>1, <3>2
    <2>2. WellFormed(frames, sp, ks)
      BY <1>2, <1>6 DEF WellFormed
    <2>. QED
      BY <1>2, <1>4, <1>6, <1>8, <2>1, <2>2, TriesShrink
  <1>10. RunningOK'
    <2>1. StayInLoop(gs, ks, sp)
      BY <1>7 DEF LeaveTry, StayInLoop
    <2>. QED
      BY <1>1, <1>2, <1>4, <1>6, <1>9, <2>1, StayKeeps DEF Running
  <1>11. HeldOK'
    <2>1. RetsMade(frames')
      BY <1>2, <1>4, <1>7, HeldFacts, RetsCopied DEF RetsMade
    <2>. QED
      BY <2>1, HeldFacts, HeldKeeps DEF LeaveTry
  <1>12. abort' \in Aborts
    BY DEF LeaveTry, IInv, TypeOK, Aborts
  <1>. QED
    BY <1>10, <1>11, <1>12, Halves2

(* A throw caught: the frames above the handler's are gone, the try is     *)
(* left and the stack is as it was when it was entered.                    *)
LEMMA CatchStep ==
  ASSUME IInv, Catch
  PROVE  IInv'
  <1>. DEFINE n  == Len(frames)
              q  == Len(handlers)
              h  == Last(handlers)
              f  == h.fc
              v  == h.level
              fs == SubSeq(frames, 1, f)
              ks == SubSeq(handlers, 1, q - 1)
              ts == SubSeq(frames[f].tries, 1, v)
              gs == [fs EXCEPT ![Len(fs)].tries = ts]
              t  == h.sc + 1
  <1>1. Running /\ handlers # <<>>
    BY DEF Catch
  <1>2. /\ frames \in Seq(Frame) /\ sp \in Nat /\ handlers \in Seq(Handler)
        /\ FramesStacked(frames, sp) /\ HandlersNested(frames, handlers)
        /\ n \in Nat
    BY <1>1, InLoop DEF Running, Depth, WellFormed
  <1>3. q \in 1..q /\ q \in Nat /\ h = handlers[q] /\ h \in Handler
    BY <1>1, <1>2, LastOf
  <1>4. f \in 1..n /\ v \in Nat /\ h.sc \in Nat
        /\ v < Len(frames[f].tries)
        /\ h.sc = frames[f].base + frames[f].tries[v + 1]
    BY <1>2, <1>3, HandlerAt DEF HandlersNested
  <1>5. /\ frames[f].base \in Nat /\ frames[f].tries \in Seq(Nat)
        /\ Len(frames[f].tries) \in Nat
    BY <1>2, <1>4, FrameAt
  <1>6. /\ q - 1 \in 0..q /\ ks \in Seq(Handler) /\ Len(ks) = q - 1
        /\ \A g \in 1..q-1 : ks[g] = handlers[g]
        /\ HandlersNested(frames, ks)
    <2>1. q - 1 \in 0..q
      BY <1>3
    <2>. QED
      BY <1>2, <2>1, HandlersPrefix
  <1>7. \A g \in 1..q-1 : \/ ks[g].fc < f
                          \/ ks[g].fc = f /\ ks[g].level < v
    <2>1. ASSUME NEW g \in 1..q-1
          PROVE  \/ ks[g].fc < f
                 \/ ks[g].fc = f /\ ks[g].level < v
      <3>1. g \in 1..q /\ q \in 1..q /\ g < q /\ ks[g] = handlers[g]
        BY <1>3, <1>6
      <3>. QED
        BY <1>2, <1>3, <3>1 DEF HandlersNested
    <2>. QED
      BY <2>1
  <1>8. f \in 0..n /\ fs \in Seq(Frame) /\ Len(fs) = f /\ \A i \in 1..f : fs[i] = frames[i]
    <2>1. f \in 0..n
      BY <1>2, <1>4
    <2>. HIDE DEF f
    <2>. QED
      BY <1>2, <2>1, Cut
  <1>9. /\ v \in 0..Len(frames[f].tries) /\ ts \in Seq(Nat) /\ Len(ts) = v
        /\ \A l \in 1..v : ts[l] = frames[f].tries[l]
    <2>1. v \in 0..Len(frames[f].tries)
      BY <1>4, <1>5
    <2>. HIDE DEF v, f
    <2>. QED
      BY <1>5, <2>1, Cut
  <1>10. fs # <<>> /\ fs[f] = frames[f]
    BY <1>4, <1>8, EmptySeq
  <1>11. /\ gs \in Seq(Frame) /\ Len(gs) = f
         /\ \A i \in 1..f : gs[i].base = fs[i].base /\ gs[i].ret = fs[i].ret
         /\ \A i \in 1..f : i # f => gs[i].tries = fs[i].tries
         /\ gs[f].tries = ts
    <2>1. gs = WithTopTries(fs, ts)
      BY DEF WithTopTries
    <2>. HIDE DEF gs, ts, fs, f
    <2>2. fs \in Seq(Frame) /\ fs # <<>> /\ ts \in Seq(Nat) /\ Len(fs) = f
      BY <1>8, <1>9, <1>10
    <2>3. /\ gs \in Seq(Frame) /\ Len(gs) = Len(fs)
          /\ \A i \in 1..Len(fs) : gs[i].base = fs[i].base /\ gs[i].ret = fs[i].ret
          /\ \A i \in 1..Len(fs) : i # Len(fs) => gs[i].tries = fs[i].tries
          /\ gs[Len(fs)].tries = ts
      BY ONLY <2>1, <2>2, TopTries
    <2>. QED
      BY ONLY <2>2, <2>3
  <1>12. frames' = gs /\ handlers' = ks /\ sp' = t
    <2>1. First(frames, f) = fs
      BY <1>4 DEF First
    <2>2. First(fs[Len(fs)].tries, v) = ts
      BY <1>4, <1>5, <1>8, <1>10 DEF First
    <2>. QED
      BY <1>1, <2>1, <2>2 DEF Catch, AllButLast
  <1>. HIDE DEF gs, ts, fs, ks, f, v
  <1>13. PICK s \in Nat : WellFormed(fs, s, ks)
    <2>1. CASE f = n
      <3>1. fs = frames
        BY <1>2, <1>8, <2>1, SeqEqual
      <3>. QED
        BY <1>2, <1>6, <3>1 DEF WellFormed
    <2>2. CASE f # n
      <3>1. f \in Nat /\ f < n /\ f + 1 \in 1..n
        BY <1>2, <1>4, <2>2
      <3>2. frames[f+1].base \in Nat
        BY <1>2, <3>1, FrameAt
      <3>3. IsTrim(ks, f, q - 1)
        <4>1. \A g \in 1..q-1 : ks[g].fc <= f
          <5>1. \A g \in 1..q-1 : ks[g].fc \in Nat
            BY <1>6, HandlerAt
          <5>. QED
            BY <1>7, <3>1, <5>1
        <4>. QED
          BY <1>3, <1>6, <4>1 DEF IsTrim
      <3>4. WellFormed(frames, sp, ks)
        BY <1>2, <1>6 DEF WellFormed
      <3>5. SubSeq(ks, 1, q - 1) = ks
        BY <1>6, SubSeqFull
      <3>6. frames[f+1].base >= frames[f+1].base
        BY <3>2
      <3>7. WellFormed(SubSeq(frames, 1, f), frames[f+1].base, SubSeq(ks, 1, q - 1))
        BY <1>2, <1>6, <3>1, <3>2, <3>3, <3>4, <3>6, PrefixContext
      <3>. QED
        BY <3>2, <3>5, <3>7 DEF fs
    <2>. QED
      BY <2>1, <2>2
  <1>14. WellFormed(gs, s, ks)
    <2>1. \A i \in 1..Len(fs) :
             /\ gs[i].base = fs[i].base
             /\ Len(gs[i].tries) <= Len(fs[i].tries)
             /\ \A l \in 1..Len(gs[i].tries) : gs[i].tries[l] = fs[i].tries[l]
      <3>1. \A i \in 1..f : Len(fs[i].tries) \in Nat
        BY <1>8, FrameAt
      <3>2. Len(gs[f].tries) <= Len(fs[f].tries)
            /\ \A l \in 1..Len(gs[f].tries) : gs[f].tries[l] = fs[f].tries[l]
        <4>1. gs[f].tries = ts /\ fs[f].tries = frames[f].tries
          BY <1>10, <1>11
        <4>2. v <= Len(frames[f].tries)
          BY <1>4, <1>5
        <4>. QED
          BY <1>9, <4>1, <4>2
      <3>. QED
        BY <1>8, <1>11, <3>1, <3>2
    <2>2. \A g \in 1..Len(ks) : ks[g].level < Len(gs[ks[g].fc].tries)
      <3>1. ASSUME NEW g \in 1..q-1
            PROVE  ks[g].level < Len(gs[ks[g].fc].tries)
        <4>1. CASE ks[g].fc = f /\ ks[g].level < v
          BY <1>9, <1>11, <4>1
        <4>2. CASE ks[g].fc < f
          <5>1. ks[g].fc \in 1..n /\ ks[g].level < Len(frames[ks[g].fc].tries)
            BY <1>6, <3>1 DEF HandlersNested
          <5>2. ks[g].fc \in 1..f /\ ks[g].fc # f
            BY <1>2, <1>4, <4>2, <5>1
          <5>. QED
            BY <1>8, <1>11, <5>1, <5>2
        <4>. QED
          BY <1>7, <4>1, <4>2
      <3>. QED
        BY <1>6, <3>1
    <2>. QED
      BY <1>6, <1>8, <1>11, <1>13, <2>1, <2>2, TriesShrink
  <1>15. t \in Nat
    BY <1>4
  <1>16. FloorOf(gs) <= t
    <2>1. gs # <<>> /\ Last(gs) = gs[f] /\ gs[f].base = frames[f].base
      BY <1>4, <1>8, <1>10, <1>11, EmptySeq DEF Last
    <2>2. v + 1 \in 1..Len(frames[f].tries)
      <3>. DEFINE len == Len(frames[f].tries)
      <3>1. len \in Nat /\ v \in Nat /\ v < len
        BY <1>4, <1>5
      <3>. HIDE DEF len
      <3>2. v + 1 \in 1..len
        BY <3>1
      <3>. QED
        BY <3>2 DEF len
    <2>. DEFINE b == frames[f].base
                y == frames[f].tries[v + 1]
                z == frames[f].tries[v]
    <2>3. b \in Nat /\ y \in Nat /\ FixedSlots <= y /\ FixedSlots \in Nat /\ t = (b + y) + 1
      <3>1. y \in Nat
        BY <1>5, <2>2, ElementOfSeq
      <3>2. FixedSlots <= y
        BY <1>2, <1>4, <2>2 DEF FramesStacked
      <3>. QED
        BY <1>4, <1>5, <3>1, <3>2, ContextAssumption
    <2>4. CASE ts = <<>>
      <3>1. FloorOf(gs) = b + FixedSlots
        BY <1>11, <2>1, <2>4 DEF FloorOf
      <3>. HIDE DEF b, y
      <3>. QED
        BY <2>3, <3>1
    <2>5. CASE ts # <<>>
      <3>1. v \in 1..v /\ v >= 1 /\ Last(ts) = ts[v]
        BY <1>9, <2>5, LastOf
      <3>2. Last(ts) = z /\ v \in 1..Len(frames[f].tries)
        BY <1>4, <1>5, <1>9, <3>1
      <3>3. z \in Nat
        BY <1>5, <3>2, ElementOfSeq
      <3>4. z <= y
        <4>1. v < v + 1
          BY <1>4
        <4>. QED
          BY <1>2, <1>4, <2>2, <3>2, <4>1 DEF FramesStacked
      <3>5. FloorOf(gs) = b + z
        BY <1>11, <2>1, <2>5, <3>2 DEF FloorOf
      <3>. HIDE DEF b, y, z
      <3>. QED
        BY <2>3, <3>3, <3>4, <3>5
    <2>. QED
      BY <2>4, <2>5
  <1>17. WellFormed(gs, t, ks)
    <2>1. gs # <<>>
      BY <1>4, <1>11, EmptySeq
    <2>2. FloorOf(gs) \in Nat
      BY <1>6, <1>11, <1>13, <1>14, <2>1, FloorReached
    <2>. QED
      BY <1>6, <1>11, <1>13, <1>14, <1>15, <1>16, <2>1, <2>2, HeightMoves
  <1>18. RunningOK'
    <2>1. StayInLoop(gs, ks, t)
      BY <1>12 DEF Catch, StayInLoop
    <2>. QED
      BY <1>1, <1>6, <1>11, <1>15, <1>17, <2>1, StayKeeps DEF Running
  <1>19. HeldOK'
    <2>1. f <= n /\ f \in Nat
      BY <1>2, <1>4
    <2>2. RetsMade(frames')
      <3>1. RetsMade(frames)
        BY HeldFacts
      <3>2. /\ Len(gs) = f /\ Len(gs) <= Len(frames)
            /\ \A i \in 1..Len(gs) : gs[i].ret = frames[i].ret
        BY <1>2, <1>8, <1>11, <2>1
      <3>3. gs \in Seq(Frame) /\ frames \in Seq(Frame)
        BY <1>2, <1>11
      <3>. HIDE DEF gs
      <3>4. RetsMade(gs)
        BY <3>1, <3>2, <3>3, RetsCopied
      <3>. QED
        BY <1>12, <3>4 DEF RetsMade
    <2>. QED
      BY <2>2, HeldFacts, HeldKeeps DEF Catch
  <1>20. abort' \in Aborts
    BY DEF Catch, IInv, TypeOK, Aborts
  <1>. QED
    BY <1>18, <1>19, <1>20, Halves2

-----------------------------------------------------------------------------
(* The frames a loop leaves untouched when it ends are not the caller's.   *)
LEMMA AboveCaller ==
  ASSUME IInv, status = "run", Anchored, natives # <<>>
  PROVE  frames # Last(natives).caller
  <1>1. Depth > Len(Last(natives).caller) /\ Depth = Len(frames)
    BY DEF Anchored, Depth
  <1>2. Depth \in Nat
    BY InLoop
  <1>3. Len(Last(natives).caller) \in Nat
    BY LastNative
  <1>4. SUFFICES ASSUME frames = Last(natives).caller PROVE FALSE
    OBVIOUS
  <1>5. Len(Last(natives).caller) = Depth
    BY <1>1, <1>4
  <1>. QED
    BY <1>1, <1>2, <1>3, <1>5

(* A dispatch loop that returns with its frames as they are.               *)
LEMMA EndWithFrames ==
  ASSUME IInv, Running, NEW r \in {"ok", "error", "halt"},
         NEW s \in Nat, s >= Floor, EndLoop(r, frames, handlers, s),
         UNCHANGED <<coro, conts, abort>>
  PROVE  IInv'
  <1>1. /\ status = "run" /\ Anchored
        /\ frames \in Seq(Frame) /\ frames # <<>> /\ handlers \in Seq(Handler) /\ sp \in Nat
        /\ WellFormed(frames, sp, handlers)
    BY InLoop DEF Running
  <1>2. WellFormed(frames, s, handlers)
    BY <1>1, HeightMoves DEF Floor
  <1>3. /\ RunningOK' /\ Len(frames') <= Len(frames)
        /\ \A i \in 1..Len(frames') : frames'[i] = frames[i]
    BY <1>1, <1>2, AboveCaller, EndLoopKeeps
  <1>4. RetsMade(frames')
    <2>1. frames' \in Seq(Frame)
      BY <1>3 DEF RunningOK
    <2>2. Len(frames') \in Nat /\ Len(frames) \in Nat
      BY <1>1, <2>1, LenProperties
    <2>. QED
      BY <1>3, <2>2, HeldFacts DEF RetsMade
  <1>5. HeldOK'
    BY <1>4, HeldFacts, HeldKeeps
  <1>6. abort' \in Aborts
    BY DEF IInv, TypeOK, Aborts
  <1>. QED
    BY <1>3, <1>5, <1>6, Halves2

(* OP_THROW with no handler: the loop returns an error.                    *)
LEMMA ThrowUncaughtStep ==
  ASSUME IInv, ThrowUncaught
  PROVE  IInv'
  <1>1. Running /\ sp > Floor /\ EndLoop("error", frames, handlers, sp - 1)
    BY DEF ThrowUncaught
  <1>2. sp \in Nat /\ Floor \in Nat
    BY <1>1, InLoop DEF Running
  <1>3. sp - 1 \in Nat /\ sp - 1 >= Floor
    BY <1>1, <1>2
  <1>. QED
    BY <1>1, <1>3, EndWithFrames DEF ThrowUncaught

(* OP_HALT, OP_DONE, and instructions that fail.                           *)
LEMMA StopStep ==
  ASSUME IInv, NEW r \in Finished, Stop(r)
  PROVE  IInv'
  <1>1. Running /\ EndLoop(r, frames, handlers, sp)
    BY DEF Stop
  <1>2. sp \in Nat /\ Floor \in Nat /\ sp >= Floor
    BY <1>1, InLoop DEF Running
  <1>. QED
    BY <1>1, <1>2, EndWithFrames DEF Stop, Finished

(* What is left when the frames from r on are dropped: return, inline      *)
(* return, yield, callcc and abort all leave a prefix at a height between  *)
(* the dropped frame's slots and one above.                                *)
LEMMA DroppedFrom ==
  ASSUME IInv, status = "run", Anchored, NEW r \in 1..Depth,
         NEW k, IsTrim(handlers, r - 1, k)
  PROVE  /\ SubSeq(frames, 1, r - 1) \in Seq(Frame)
         /\ Len(SubSeq(frames, 1, r - 1)) = r - 1
         /\ \A i \in 1..r-1 : SubSeq(frames, 1, r - 1)[i] = frames[i]
         /\ SubSeq(handlers, 1, k) \in Seq(Handler)
         /\ RetsMade(SubSeq(frames, 1, r - 1))
         /\ frames[r].base \in Nat /\ frames[r].cl \in Closures
         /\ \A t \in Nat : t >= frames[r].base =>
               WellFormed(SubSeq(frames, 1, r - 1), t, SubSeq(handlers, 1, k))
  <1>. DEFINE n == r - 1
  <1>1. /\ frames \in Seq(Frame) /\ sp \in Nat /\ handlers \in Seq(Handler)
        /\ WellFormed(frames, sp, handlers) /\ Depth = Len(frames) /\ Depth \in Nat
    BY InLoop DEF Depth
  <1>2. n \in Nat /\ n < Len(frames) /\ n + 1 = r /\ n \in 0..Len(frames)
    BY <1>1
  <1>3. frames[r].base \in Nat /\ frames[r].cl \in Closures
    BY <1>1, FrameAt
  <1>4. /\ SubSeq(frames, 1, n) \in Seq(Frame) /\ Len(SubSeq(frames, 1, n)) = n
        /\ \A i \in 1..n : SubSeq(frames, 1, n)[i] = frames[i]
    <2>. HIDE DEF n
    <2>. QED
      BY <1>1, <1>2, Cut
  <1>5. SubSeq(handlers, 1, k) \in Seq(Handler)
    <2>1. k \in 0..Len(handlers)
      BY DEF IsTrim
    <2>. QED
      BY <1>1, <2>1, Cut
  <1>6. ASSUME NEW t \in Nat, t >= frames[r].base
        PROVE  WellFormed(SubSeq(frames, 1, n), t, SubSeq(handlers, 1, k))
    <2>1. t >= frames[n + 1].base /\ IsTrim(handlers, n, k)
      BY <1>2, <1>6
    <2>. HIDE DEF n
    <2>. QED
      BY <1>1, <1>2, <2>1, PrefixContext
  <1>7. RetsMade(SubSeq(frames, 1, n))
    <2>1. \A i \in 1..n : i \in 1..Len(frames)
      BY <1>1, <1>2
    <2>. HIDE DEF n
    <2>. QED
      BY <1>4, <2>1, HeldFacts DEF RetsMade
  <1>. QED
    BY <1>3, <1>4, <1>5, <1>6, <1>7

(* Frames from r on are dropped and their handlers trimmed.                *)
LEMMA DropStep ==
  ASSUME IInv, status = "run", Anchored, NEW r \in 1..Depth,
         NEW k, IsTrim(handlers, r - 1, k),
         \/ EndLoop("ok", SubSeq(frames, 1, r - 1), SubSeq(handlers, 1, k),
                    frames[r].base + 1)
         \/ StayInLoop(SubSeq(frames, 1, r - 1), SubSeq(handlers, 1, k),
                       frames[r].base + 1)
  PROVE  RunningOK' /\ RetsMade(frames')
  <1>. DEFINE fs == SubSeq(frames, 1, r - 1)
              hs == SubSeq(handlers, 1, k)
              b  == frames[r].base
  <1>1. /\ fs \in Seq(Frame) /\ hs \in Seq(Handler) /\ b \in Nat /\ RetsMade(fs)
        /\ \A t \in Nat : t >= b => WellFormed(fs, t, hs)
    BY DroppedFrom
  <1>2. EndLoop("ok", fs, hs, b + 1) \/ StayInLoop(fs, hs, b + 1)
    OBVIOUS
  <1>. HIDE DEF fs, hs, b
  <1>3. b + 1 \in Nat /\ (IF "ok" = "ok" /\ b + 1 > 0 THEN b + 1 - 1 ELSE b + 1) = b
        /\ b + 1 >= b /\ b >= b
    BY <1>1
  <1>4. WellFormed(fs, b, hs) /\ WellFormed(fs, b + 1, hs)
    BY <1>1, <1>3
  <1>5. CASE EndLoop("ok", fs, hs, b + 1)
    <2>1. WellFormed(fs, IF "ok" = "ok" /\ b + 1 > 0 THEN b + 1 - 1 ELSE b + 1, hs)
      BY <1>3, <1>4
    <2>2. /\ RunningOK' /\ Len(frames') <= Len(fs)
          /\ \A i \in 1..Len(frames') : frames'[i] = fs[i]
      BY <1>1, <1>3, <1>4, <1>5, <2>1, EndLoopKeeps
    <2>3. RetsMade(frames')
      <3>1. frames' \in Seq(Frame)
        BY <2>2 DEF RunningOK
      <3>2. Len(frames') \in Nat /\ Len(fs) \in Nat
        BY <1>1, <3>1, LenProperties
      <3>. QED
        BY <1>1, <2>2, <3>2 DEF RetsMade
    <2>. QED
      BY <2>2, <2>3
  <1>6. CASE StayInLoop(fs, hs, b + 1)
    BY <1>1, <1>3, <1>4, <1>6, StayKeeps
  <1>. QED
    BY <1>2, <1>5, <1>6

(* OP_RETURN, to a caller or into a continuation.                          *)
LEMMA ReturnStep ==
  ASSUME IInv, Return
  PROVE  IInv'
  <1>1. Running /\ status = "run" /\ Anchored
    BY DEF Return, Running
  <1>2. /\ frames \in Seq(Frame) /\ frames # <<>> /\ Depth \in Nat /\ Depth \in 1..Depth
        /\ Depth = Len(frames) /\ Top = frames[Depth] /\ Top \in Frame
    BY <1>1, InLoop DEF Depth, Top
  <1>3. RunningOK' /\ RetsMade(frames')
    <2>1. CASE Top.ret # 0
      <3>. DEFINE cn == conts[Top.ret]
      <3>1. Top.ret \in 1..Len(conts)
        <4>1. Top.ret \in Nat
          BY <1>2 DEF Frame
        <4>2. Top.ret <= Len(conts) /\ Len(conts) \in Nat
          BY <1>2, HeldFacts DEF RetsMade
        <4>. QED
          BY <2>1, <4>1, <4>2
      <3>2. /\ cn.frames \in Seq(Frame) /\ cn.handlers \in Seq(Handler) /\ cn.sp \in Nat
        <4>1. cn \in Continuation
          BY <3>1, HeldFacts
        <4>. QED
          BY <4>1, ContAt
      <3>3. WellFormed(cn.frames, cn.sp, cn.handlers)
        BY <3>1 DEF IInv, ContinuationsSound
      <3>4. RetsMade(cn.frames)
        BY <3>1 DEF IInv, RetsExist
      <3>5. StayInLoop(cn.frames, cn.handlers, cn.sp + 1)
        BY <2>1 DEF Return
      <3>. HIDE DEF cn
      <3>6. cn.frames # <<>> => WellFormed(cn.frames, cn.sp + 1, cn.handlers)
        <4>. SUFFICES ASSUME cn.frames # <<>> PROVE WellFormed(cn.frames, cn.sp + 1, cn.handlers)
          OBVIOUS
        <4>1. FloorOf(cn.frames) \in Nat /\ FloorOf(cn.frames) <= cn.sp
          BY <3>2, <3>3, FloorReached
        <4>2. cn.sp + 1 \in Nat /\ cn.sp + 1 >= FloorOf(cn.frames)
          BY <3>2, <4>1
        <4>. QED
          BY <3>2, <3>3, <4>2, HeightMoves
      <3>7. cn.sp + 1 \in Nat
        BY <3>2
      <3>. QED
        BY <1>1, <3>2, <3>4, <3>5, <3>6, <3>7, StayKeeps
    <2>2. CASE Top.ret = 0
      <3>1. PICK k \in 0..Len(handlers) :
               /\ IsTrim(handlers, Depth - 1, k)
               /\ \/ EndLoop("ok", AllButLast(frames), SubSeq(handlers, 1, k), Top.base + 1)
                  \/ StayInLoop(AllButLast(frames), SubSeq(handlers, 1, k), Top.base + 1)
        BY <2>2 DEF Return
      <3>2. AllButLast(frames) = SubSeq(frames, 1, Depth - 1)
        BY <1>2 DEF AllButLast
      <3>. QED
        BY <1>1, <1>2, <3>1, <3>2, DropStep
    <2>. QED
      BY <2>1, <2>2
  <1>4. HeldOK'
    BY <1>3, HeldFacts, HeldKeeps DEF Return
  <1>5. abort' \in Aborts
    BY DEF Return, IInv, TypeOK, Aborts
  <1>. QED
    BY <1>3, <1>4, <1>5, Halves2

(* OP_INLINE_RETURN: the root and its inline frames go together.           *)
LEMMA InlineReturnStep ==
  ASSUME IInv, InlineReturn
  PROVE  IInv'
  <1>1. status = "run" /\ Anchored
    BY DEF InlineReturn, Running
  <1>2. PICK r \in 1..Depth, k \in 0..Len(handlers) :
           /\ IsTrim(handlers, r - 1, k)
           /\ coro' = [coro EXCEPT ![frames[r].cl] = None]
           /\ \/ EndLoop("ok", SubSeq(frames, 1, r - 1), SubSeq(handlers, 1, k),
                         frames[r].base + 1)
              \/ StayInLoop(SubSeq(frames, 1, r - 1), SubSeq(handlers, 1, k),
                            frames[r].base + 1)
    BY DEF InlineReturn
  <1>3. RunningOK' /\ RetsMade(frames')
    BY <1>1, <1>2, DropStep
  <1>4. frames[r].cl \in Closures
    BY <1>1, <1>2, DroppedFrom
  <1>5. CoroOK(coro')
    BY <1>2, <1>4, HeldFacts, CoroCleared
  <1>6. HeldOK' /\ abort' \in Aborts
    BY <1>3, <1>5, HeldFacts, HeldKeeps DEF InlineReturn, IInv, TypeOK, Aborts
  <1>. QED
    BY <1>3, <1>6, Halves2

(* What is saved of the running context.                                   *)
LEMMA CapturedSound ==
  ASSUME IInv, Running, sp > Floor, NEW r, NEW m, NEW needs \in BOOLEAN, NEW sv,
         IsRoot(frames, r), IsSplit(handlers, r - 1, m),
         sv = Capture(frames, handlers, r, m, sp - 1, needs)
  PROVE  sv \in Saved /\ SavedSound(frames[r].cl, sv) /\ RetsMade(sv.frames)
  <1>1. /\ frames \in Seq(Frame) /\ frames # <<>> /\ handlers \in Seq(Handler) /\ sp \in Nat
        /\ WellFormed(frames, sp, handlers) /\ Floor \in Nat
    BY InLoop DEF Running
  <1>2. sp - 1 \in Nat /\ sp - 1 >= Floor
    BY <1>1
  <1>3. WellFormed(frames, sp - 1, handlers)
    BY <1>1, <1>2, HeightMoves DEF Floor
  <1>. DEFINE t == sp - 1
  <1>. HIDE DEF t
  <1>4. t \in Nat /\ WellFormed(frames, t, handlers)
        /\ sv = Capture(frames, handlers, r, m, t, needs)
    BY <1>2, <1>3 DEF t
  <1>5. /\ sv \in Saved
        /\ sv.frames # <<>>
        /\ sv.frames[1].cl = frames[r].cl /\ sv.frames[1].base = 0
        /\ \A i \in 2..Len(sv.frames) : sv.frames[i].cl \in Inline
        /\ \A i \in 1..Len(sv.frames) :
              r + i - 1 \in 1..Len(frames) /\ sv.frames[i].ret = frames[r + i - 1].ret
        /\ WellFormed(sv.frames, sv.size, sv.handlers)
    BY <1>1, <1>4, CaptureContext
  <1>6. RetsMade(sv.frames)
    BY <1>5, HeldFacts DEF RetsMade
  <1>. QED
    BY <1>5, <1>6 DEF SavedSound

(* OP_YIELD: the same frames, saved first.                                 *)
LEMMA YieldStep ==
  ASSUME IInv, Yield
  PROVE  IInv'
  <1>1. Running /\ status = "run" /\ Anchored /\ sp > Floor
    BY DEF Yield, Running
  <1>2. PICK r \in 1..Depth, k \in 0..Len(handlers), m \in 0..Len(handlers) :
           /\ IsRoot(frames, r)
           /\ IsTrim(handlers, r - 1, k)
           /\ IsSplit(handlers, r - 1, m)
           /\ coro' = [coro EXCEPT ![frames[r].cl] =
                         Capture(frames, handlers, r, m, sp - 1, FALSE)]
           /\ \/ EndLoop("ok", SubSeq(frames, 1, r - 1), SubSeq(handlers, 1, k),
                         frames[r].base + 1)
              \/ StayInLoop(SubSeq(frames, 1, r - 1), SubSeq(handlers, 1, k),
                            frames[r].base + 1)
    BY DEF Yield
  <1>3. RunningOK' /\ RetsMade(frames')
    BY <1>1, <1>2, DropStep
  <1>4. frames[r].cl \in Closures
    BY <1>1, <1>2, DroppedFrom
  <1>. DEFINE sv == Capture(frames, handlers, r, m, sp - 1, FALSE)
  <1>5. sv \in Saved /\ SavedSound(frames[r].cl, sv) /\ RetsMade(sv.frames)
    BY <1>1, <1>2, CapturedSound
  <1>. HIDE DEF sv
  <1>6. CoroOK(coro')
    BY <1>2, <1>4, <1>5, HeldFacts, CoroStored DEF sv
  <1>7. HeldOK' /\ abort' \in Aborts
    BY <1>3, <1>6, HeldFacts, HeldKeeps DEF Yield, IInv, TypeOK, Aborts
  <1>. QED
    BY <1>3, <1>7, Halves2

(* An abort or an exit taken at the end of an instruction.                 *)
LEMMA UnwindStep ==
  ASSUME IInv, Unwind
  PROVE  IInv'
  <1>. DEFINE wanted == IF abort = "exit" THEN Target ELSE Depth - 1
              n      == IF wanted < Depth THEN wanted ELSE Depth
              slot   == IF n < Depth THEN frames[n + 1].base ELSE Top.base
  <1>1. status = "run" /\ Anchored /\ abort' = "no" /\ UNCHANGED <<coro, conts>>
    BY DEF Unwind
  <1>2. PICK k \in 0..Len(handlers) :
           /\ IsTrim(handlers, n, k)
           /\ \/ EndLoop("ok", SubSeq(frames, 1, n), SubSeq(handlers, 1, k), slot + 1)
              \/ /\ abort # "exit"
                 /\ StayInLoop(SubSeq(frames, 1, n), SubSeq(handlers, 1, k), slot + 1)
    BY DEF Unwind
  <1>3. /\ frames \in Seq(Frame) /\ Depth \in Nat /\ Depth >= 1 /\ Depth = Len(frames)
        /\ Target \in Nat /\ (natives = <<>> => Target = 0)
        /\ handlers \in Seq(Handler) /\ Top.base \in Nat
    BY <1>1, InLoop DEF Depth
  <1>4. n \in Nat /\ n <= Depth /\ (n = Depth => wanted = Target /\ Target >= Depth /\ abort = "exit")
    BY <1>3
  <1>. HIDE DEF wanted, n
  <1>5. RunningOK' /\ RetsMade(frames')
    <2>1. CASE n < Depth
      <3>1. n + 1 \in 1..Depth /\ (n + 1) - 1 = n /\ slot = frames[n + 1].base
        BY <1>3, <1>4, <2>1
      <3>. DEFINE r == n + 1
      <3>2. /\ r \in 1..Depth /\ IsTrim(handlers, r - 1, k)
            /\ \/ EndLoop("ok", SubSeq(frames, 1, r - 1), SubSeq(handlers, 1, k),
                          frames[r].base + 1)
               \/ StayInLoop(SubSeq(frames, 1, r - 1), SubSeq(handlers, 1, k),
                             frames[r].base + 1)
        BY <1>2, <3>1
      <3>. HIDE DEF r
      <3>. QED
        BY <1>1, <3>2, DropStep
    <2>2. CASE n = Depth
      <3>1. slot = Top.base /\ slot + 1 \in Nat /\ natives # <<>>
        BY <1>3, <1>4, <2>2
      <3>2. SubSeq(frames, 1, n) = frames
        BY <1>3, <2>2, SubSeqFull
      <3>. DEFINE t  == slot + 1
                  ks == SubSeq(handlers, 1, k)
      <3>3. ks \in Seq(Handler)
        BY <1>3, Cut
      <3>4. EndLoop("ok", frames, ks, t)
        BY <1>2, <1>4, <2>2, <3>2
      <3>. HIDE DEF t, ks, slot
      <3>5. t \in Nat
        BY <3>1 DEF t
      <3>6. frames # Last(natives).caller
        BY <1>1, <3>1, AboveCaller
      <3>7. /\ RunningOK' /\ Len(frames') <= Len(frames)
            /\ \A i \in 1..Len(frames') : frames'[i] = frames[i]
        BY <1>1, <1>3, <3>1, <3>3, <3>4, <3>5, <3>6, EndLoopKeeps
      <3>8. frames' \in Seq(Frame)
        BY <3>7 DEF RunningOK
      <3>9. Len(frames') \in Nat
        BY <3>8, LenProperties
      <3>. QED
        BY <1>3, <3>7, <3>9, HeldFacts DEF RetsMade
    <2>. QED
      BY <1>3, <1>4, <2>1, <2>2
  <1>6. HeldOK' /\ abort' \in Aborts
    BY <1>1, <1>5, HeldFacts, HeldKeeps DEF Aborts
  <1>. QED
    BY <1>5, <1>6, Halves2

-----------------------------------------------------------------------------
(* OP_CALL of a closure, fresh or resumed, or at a limit.                  *)
LEMMA CallStep ==
  ASSUME IInv, NEW c \in Callable, NEW k \in Args, Call(c, k)
  PROVE  IInv'
  <1>. DEFINE b == sp - (k + 1)
  <1>1. Running /\ status = "run" /\ Anchored /\ sp >= Floor + k + 1 /\ conts' = conts
    BY DEF Call, Running
  <1>2. /\ frames \in Seq(Frame) /\ frames # <<>> /\ handlers \in Seq(Handler)
        /\ sp \in Nat /\ Floor \in Nat /\ WellFormed(frames, sp, handlers)
        /\ c \in Closures /\ k \in Nat /\ abort \in Aborts
    BY <1>1, InLoop, ControlAssumption DEF Callable, IInv, TypeOK, Aborts
  <1>3. b \in Nat /\ b >= Floor
    BY <1>1, <1>2
  <1>. HIDE DEF b
  <1>4. WellFormed(frames, b, handlers)
    BY <1>2, <1>3, HeightMoves DEF Floor
  <1>5. CASE /\ Enter(frames, handlers, coro, c, b)
             /\ UNCHANGED <<natives, targets, status>>
    <2>1. /\ frames' \in Seq(Frame) /\ sp' \in Nat /\ handlers' \in Seq(Handler)
          /\ WellFormed(frames', sp', handlers')
          /\ CoroOK(coro') /\ RetsMade(frames') /\ abort' \in Aborts
      BY <1>2, <1>3, <1>4, <1>5, HeldFacts, EnterKeeps
    <2>2. StayInLoop(frames', handlers', sp')
      BY <1>5 DEF StayInLoop
    <2>3. RunningOK'
      BY <1>1, <2>1, <2>2, StayKeeps
    <2>4. HeldOK'
      BY <1>1, <2>1, HeldKeeps
    <2>. QED
      BY <2>1, <2>3, <2>4, Halves2
  <1>6. CASE /\ EndLoop("error", frames, handlers, FailHeight(frames, coro, c, b, sp))
             /\ UNCHANGED <<coro, abort>>
    <2>1. /\ FailHeight(frames, coro, c, b, sp) \in Nat
          /\ FailHeight(frames, coro, c, b, sp) >= Floor
      BY <1>1, <1>2, <1>3 DEF FailHeight
    <2>. QED
      BY <1>1, <1>6, <2>1, EndWithFrames
  <1>. QED
    BY <1>5, <1>6 DEF Call, b

(* A continuation made: the context it copies is well formed, and the      *)
(* frames of the step may go back to it.                                   *)
LEMMA HeldGrows ==
  ASSUME IInv, NEW cn \in Continuation, conts' = Append(conts, cn),
         cn.resume \in 0..Len(cn.frames), WellFormed(cn.frames, cn.sp, cn.handlers),
         RetsMade(cn.frames), CoroOK(coro'),
         \A i \in 1..Len(frames') : frames'[i].ret <= Len(conts) + 1,
         frames' \in Seq(Frame)
  PROVE  HeldOK'
  <1>. DEFINE n == Len(conts)
  <1>1. conts \in Seq(Continuation) /\ n \in Nat /\ coro' \in CoroType
    BY HeldFacts DEF CoroOK
  <1>2. /\ conts' \in Seq(Continuation) /\ Len(conts') = n + 1
        /\ \A i \in 1..n : conts'[i] = conts[i]
        /\ conts'[n + 1] = cn
    BY <1>1
  <1>3. \A i \in 1..n+1 : i \in 1..n \/ i = n + 1
    BY <1>1
  <1>4. CoroutinesSound'
    BY DEF CoroOK, CoroutinesSound
  <1>5. ContinuationsSound'
    BY <1>2, <1>3 DEF IInv, ContinuationsSound
  <1>6. ASSUME NEW fs \in Seq(Frame), RetsMade(fs)
        PROVE  \A i \in 1..Len(fs) : fs[i].ret <= n + 1
    BY <1>1, <1>6, FrameAt DEF RetsMade
  <1>7. RetsExist'
    <2>1. RetsMade(frames)'
      BY <1>2 DEF RetsMade
    <2>2. ASSUME NEW c \in Closures, coro'[c] # None
          PROVE  RetsMade(coro[c].frames)'
      <3>1. coro'[c] \in Saved /\ RetsMade(coro'[c].frames)
        BY <2>2, HeldAt DEF CoroOK
      <3>2. coro'[c].frames \in Seq(Frame)
        BY <3>1, SavedAt
      <3>. QED
        BY <1>2, <1>6, <3>1, <3>2 DEF RetsMade
    <2>3. ASSUME NEW i \in 1..n+1
          PROVE  RetsMade(conts[i].frames)'
      <3>1. conts'[i] \in Continuation /\ RetsMade(conts'[i].frames)
        <4>1. CASE i = n + 1
          BY <1>2, <4>1
        <4>2. CASE i \in 1..n
          BY <1>1, <1>2, <4>2 DEF IInv, RetsExist
        <4>. QED
          BY <1>3, <4>1, <4>2
      <3>2. conts'[i].frames \in Seq(Frame)
        BY <3>1, ContAt
      <3>. QED
        BY <1>2, <1>6, <3>1, <3>2 DEF RetsMade
    <2>. QED
      BY <1>2, <2>1, <2>2, <2>3 DEF RetsExist
  <1>. QED
    BY <1>1, <1>2, <1>4, <1>5, <1>7 DEF HeldOK

(* The frames of a continuation that is called: the resumed one returns    *)
(* somewhere else.                                                         *)
WithRet(fs, r, x) == [fs EXCEPT ![r].ret = x]

(* What changes when one frame gets a continuation to return to.           *)
LEMMA RetReplaced ==
  ASSUME NEW fs \in Seq(Frame), NEW r \in 1..Len(fs), NEW x \in Nat, NEW gs,
         gs = WithRet(fs, r, x)
  PROVE  /\ gs \in Seq(Frame) /\ Len(gs) = Len(fs)
         /\ \A i \in 1..Len(fs) : gs[i].base = fs[i].base /\ gs[i].tries = fs[i].tries
         /\ \A i \in 1..Len(fs) : i # r => gs[i].ret = fs[i].ret
         /\ gs[r].ret = x
  <1>. DEFINE fr == [fs[r] EXCEPT !.ret = x]
  <1>1. fs[r] \in Frame
    OBVIOUS
  <1>2. /\ fr \in Frame /\ fr.base = fs[r].base /\ fr.tries = fs[r].tries
        /\ fr.ret = x
    BY <1>1 DEF Frame
  <1>3. gs = [fs EXCEPT ![r] = fr]
    BY DEF WithRet
  <1>. HIDE DEF fr
  <1>4. /\ [fs EXCEPT ![r] = fr] \in Seq(Frame)
        /\ Len([fs EXCEPT ![r] = fr]) = Len(fs)
        /\ \A i \in 1..Len(fs) :
              [fs EXCEPT ![r] = fr][i] = IF i = r THEN fr ELSE fs[i]
    BY <1>2, ExceptSeq
  <1>. QED
    BY <1>2, <1>3, <1>4

(* OP_CALL of a continuation: the whole context is replaced.               *)
LEMMA CallContinuationStep ==
  ASSUME IInv, NEW i \in 1..Len(conts), NEW k \in Args, CallContinuation(i, k)
  PROVE  IInv'
  <1>. DEFINE b   == sp - (k + 1)
              cn  == conts[i]
              ret == [frames |-> frames, handlers |-> handlers, sp |-> b,
                      owner |-> None, resume |-> 0]
              n   == Len(conts)
              gs  == [cn.frames EXCEPT ![cn.resume].ret = n + 1]
  <1>1. /\ Running /\ status = "run" /\ Anchored /\ sp >= Floor + k + 1
        /\ cn.resume # 0 /\ conts' = Append(conts, ret)
        /\ coro' = IF cn.owner = None THEN coro ELSE [coro EXCEPT ![cn.owner] = None]
        /\ frames' = gs /\ handlers' = cn.handlers
        /\ \/ sp' = cn.sp + 1 /\ abort' = abort
           \/ sp' = cn.sp /\ abort' = "frame"
        /\ UNCHANGED <<natives, targets, status>>
    BY DEF CallContinuation, Snapshot, Running
  <1>2. /\ frames \in Seq(Frame) /\ frames # <<>> /\ handlers \in Seq(Handler)
        /\ sp \in Nat /\ Floor \in Nat /\ WellFormed(frames, sp, handlers)
        /\ k \in Nat /\ abort \in Aborts /\ n \in Nat
    BY <1>1, InLoop, HeldFacts, ControlAssumption DEF IInv, TypeOK, Aborts
  <1>3. b \in Nat /\ b >= Floor
    BY <1>1, <1>2
  <1>4. WellFormed(frames, b, handlers)
    <2>. HIDE DEF b
    <2>. QED
      BY <1>2, <1>3, HeightMoves DEF Floor
  <1>5. ret \in Continuation /\ ret.frames = frames /\ ret.resume \in 0..Len(ret.frames)
        /\ WellFormed(ret.frames, ret.sp, ret.handlers)
    <2>1. Len(frames) \in Nat
      BY <1>2
    <2>. HIDE DEF b
    <2>. QED
      BY <1>2, <1>3, <1>4, <2>1 DEF Continuation
  <1>6. /\ cn \in Continuation
        /\ cn.frames \in Seq(Frame) /\ cn.handlers \in Seq(Handler) /\ cn.sp \in Nat
        /\ cn.owner \in Closures \cup {None}
    <2>1. cn \in Continuation
      BY HeldFacts
    <2>. QED
      BY <2>1, ContAt
  <1>7. /\ cn.resume \in 1..Len(cn.frames)
        /\ WellFormed(cn.frames, cn.sp, cn.handlers) /\ RetsMade(cn.frames)
    <2>1. /\ cn.resume \in 0..Len(cn.frames) /\ RetsMade(cn.frames)
          /\ WellFormed(cn.frames, cn.sp, cn.handlers)
      BY DEF IInv, ContinuationsSound, RetsExist
    <2>2. Len(cn.frames) \in Nat
      BY <1>6
    <2>. QED
      BY <1>1, <2>1, <2>2
  <1>. HIDE DEF b, ret, cn
  <1>8. /\ gs \in Seq(Frame) /\ Len(gs) = Len(cn.frames)
        /\ \A j \in 1..Len(cn.frames) : /\ gs[j].base = cn.frames[j].base
                                        /\ gs[j].tries = cn.frames[j].tries
        /\ \A j \in 1..Len(cn.frames) : j # cn.resume => gs[j].ret = cn.frames[j].ret
        /\ gs[cn.resume].ret = n + 1
    <2>. DEFINE fs == cn.frames
                r  == cn.resume
                x  == n + 1
    <2>1. fs \in Seq(Frame) /\ r \in 1..Len(fs) /\ x \in Nat
      BY <1>2, <1>6, <1>7
    <2>2. gs = WithRet(fs, r, x)
      BY DEF WithRet
    <2>. HIDE DEF gs, fs, r, x
    <2>3. /\ gs \in Seq(Frame) /\ Len(gs) = Len(fs)
          /\ \A j \in 1..Len(fs) : gs[j].base = fs[j].base /\ gs[j].tries = fs[j].tries
          /\ \A j \in 1..Len(fs) : j # r => gs[j].ret = fs[j].ret
          /\ gs[r].ret = x
      BY <2>1, <2>2, RetReplaced
    <2>. QED
      BY <2>3 DEF fs, r, x
  <1>. HIDE DEF gs
  <1>9. WellFormed(gs, cn.sp, cn.handlers)
    <2>1. \A j \in 1..Len(cn.frames) : Len(cn.frames[j].tries) \in Nat
      BY <1>6, FrameAt
    <2>2. \A h \in 1..Len(cn.handlers) :
             cn.handlers[h].level < Len(gs[cn.handlers[h].fc].tries)
      BY <1>7, <1>8 DEF WellFormed, HandlersNested
    <2>3. \A j \in 1..Len(cn.frames) :
             /\ gs[j].base = cn.frames[j].base
             /\ Len(gs[j].tries) <= Len(cn.frames[j].tries)
             /\ \A l \in 1..Len(gs[j].tries) : gs[j].tries[l] = cn.frames[j].tries[l]
      BY <1>8, <2>1
    <2>. QED
      BY <1>6, <1>7, <1>8, <2>2, <2>3, TriesShrink
  <1>10. sp' \in Nat /\ WellFormed(gs, sp', cn.handlers)
    <2>1. gs # <<>>
      BY <1>7, <1>8, EmptySeq
    <2>2. FloorOf(gs) \in Nat /\ FloorOf(gs) <= cn.sp
      BY <1>6, <1>8, <1>9, <2>1, FloorReached
    <2>3. sp' \in Nat /\ sp' >= FloorOf(gs)
      BY <1>1, <1>6, <2>2
    <2>. QED
      BY <1>6, <1>8, <1>9, <2>1, <2>3, HeightMoves
  <1>11. RunningOK'
    <2>1. StayInLoop(gs, cn.handlers, sp')
      BY <1>1 DEF StayInLoop
    <2>. QED
      BY <1>1, <1>6, <1>8, <1>10, <2>1, StayKeeps
  <1>12. HeldOK'
    <2>1. CoroOK(coro')
      BY <1>1, <1>6, HeldFacts, CoroCleared
    <2>2. \A j \in 1..Len(frames') : frames'[j].ret <= Len(conts) + 1
      <3>1. ASSUME NEW j \in 1..Len(gs)
            PROVE  gs[j].ret <= n + 1
        <4>1. CASE j = cn.resume
          BY <1>2, <1>8, <4>1
        <4>2. CASE j # cn.resume
          <5>1. /\ gs[j].ret = cn.frames[j].ret /\ cn.frames[j].ret <= n
                /\ cn.frames[j].ret \in Nat
            BY <1>6, <1>7, <1>8, <4>2, FrameAt DEF RetsMade
          <5>. DEFINE x == cn.frames[j].ret
          <5>2. gs[j].ret = x /\ x <= n /\ x \in Nat
            BY <5>1
          <5>. HIDE DEF x, n
          <5>. QED
            BY <1>2, <5>2
        <4>. QED
          BY <4>1, <4>2
      <3>. QED
        BY <1>1, <3>1
    <2>3. frames' \in Seq(Frame)
      BY <1>1, <1>8
    <2>4. RetsMade(ret.frames)
      BY <1>5, HeldFacts
    <2>. QED
      BY <1>1, <1>5, <2>1, <2>2, <2>3, <2>4, HeldGrows
  <1>13. abort' \in Aborts
    BY <1>1, <1>2 DEF Aborts
  <1>. QED
    BY <1>11, <1>12, <1>13, Halves2

(* OP_CALLCC: context copied, activation saved, handler entered.           *)
LEMMA CallCCStep ==
  ASSUME IInv, NEW hd \in Callable \cup {None}, CallCC(hd)
  PROVE  IInv'
  <1>1. Running /\ status = "run" /\ Anchored /\ sp > Floor
    BY DEF CallCC, Running
  <1>2. PICK r \in 1..Depth, k \in 0..Len(handlers), m \in 0..Len(handlers) :
        LET b  == frames[r].base
            fs == SubSeq(frames, 1, r - 1)
            hs == SubSeq(handlers, 1, k)
            co == [coro EXCEPT ![frames[r].cl] =
                     Capture(frames, handlers, r, m, sp - 1, TRUE)]
        IN
        /\ IsRoot(frames, r)
        /\ IsTrim(handlers, r - 1, k)
        /\ IsSplit(handlers, r - 1, m)
        /\ conts' = Append(conts,
                      [frames |-> frames, handlers |-> handlers, sp |-> sp - 1,
                       owner |-> frames[r].cl, resume |-> r])
        /\ \/ /\ hd = None
              /\ StayInLoop(fs, hs, b + 1)
              /\ coro' = co
              /\ abort' = abort
           \/ /\ hd # None
              /\ CanEnter(fs, hs, co, hd, b)
              /\ Enter(fs, hs, co, hd, b)
              /\ UNCHANGED <<natives, targets, status>>
           \/ /\ hd # None
              /\ ~CanEnter(fs, hs, co, hd, b)
              /\ EndLoop("error", fs, hs, FailHeight(fs, co, hd, b, b + 2))
              /\ coro' = co
              /\ abort' = abort
    BY DEF CallCC, Snapshot
  <1>. DEFINE b  == frames[r].base
              c  == frames[r].cl
              fs == SubSeq(frames, 1, r - 1)
              hs == SubSeq(handlers, 1, k)
              sv == Capture(frames, handlers, r, m, sp - 1, TRUE)
              co == [coro EXCEPT ![c] = sv]
              cn == [frames |-> frames, handlers |-> handlers, sp |-> sp - 1,
                     owner |-> c, resume |-> r]
  <1>3. /\ IsRoot(frames, r) /\ IsTrim(handlers, r - 1, k) /\ IsSplit(handlers, r - 1, m)
        /\ conts' = Append(conts, cn)
        /\ \/ StayInLoop(fs, hs, b + 1) /\ coro' = co /\ abort' = abort
           \/ /\ hd # None /\ Enter(fs, hs, co, hd, b)
              /\ UNCHANGED <<natives, targets, status>>
           \/ /\ hd # None
              /\ EndLoop("error", fs, hs, FailHeight(fs, co, hd, b, b + 2))
              /\ coro' = co /\ abort' = abort
    BY <1>2
  <1>4. /\ frames \in Seq(Frame) /\ frames # <<>> /\ handlers \in Seq(Handler)
        /\ sp \in Nat /\ Floor \in Nat /\ WellFormed(frames, sp, handlers)
        /\ Depth = Len(frames) /\ Depth \in Nat /\ abort \in Aborts
        /\ conts \in Seq(Continuation) /\ Len(conts) \in Nat
    BY <1>1, InLoop, HeldFacts DEF IInv, TypeOK, Aborts, Depth
  <1>5. /\ fs \in Seq(Frame) /\ hs \in Seq(Handler) /\ b \in Nat /\ c \in Closures
        /\ RetsMade(fs)
        /\ \A t \in Nat : t >= b => WellFormed(fs, t, hs)
    BY <1>1, <1>3, DroppedFrom
  <1>6. sv \in Saved /\ SavedSound(c, sv) /\ RetsMade(sv.frames)
    BY <1>1, <1>3, CapturedSound
  <1>7. CoroOK(co)
    <2>. HIDE DEF sv, c
    <2>. QED
      BY <1>5, <1>6, HeldFacts, CoroStored
  <1>8. /\ cn \in Continuation /\ cn.frames = frames /\ cn.resume \in 0..Len(cn.frames)
        /\ WellFormed(cn.frames, cn.sp, cn.handlers) /\ RetsMade(cn.frames)
    <2>. DEFINE t == sp - 1
    <2>1. t \in Nat /\ t >= Floor
      BY <1>1, <1>4
    <2>. HIDE DEF t, c
    <2>2. WellFormed(frames, t, handlers)
      BY <1>4, <2>1, HeightMoves DEF Floor
    <2>3. cn = [frames |-> frames, handlers |-> handlers, sp |-> t,
                owner |-> c, resume |-> r]
      BY DEF t
    <2>4. r \in Nat /\ r \in 0..Len(frames)
      BY <1>4
    <2>5. cn \in Continuation
      BY <1>4, <1>5, <2>1, <2>3, <2>4 DEF Continuation
    <2>. QED
      BY <2>2, <2>3, <2>4, <2>5, HeldFacts
  <1>. HIDE DEF b, c, fs, hs, sv, co, cn
  <1>9. b + 1 \in Nat /\ b + 1 >= b /\ b + 2 \in Nat /\ b + 2 >= b /\ b >= b
    BY <1>5
  <1>10. /\ RunningOK' /\ CoroOK(coro') /\ RetsMade(frames') /\ abort' \in Aborts
    <2>1. CASE StayInLoop(fs, hs, b + 1) /\ coro' = co /\ abort' = abort
      BY <1>1, <1>4, <1>5, <1>7, <1>9, <2>1, StayKeeps
    <2>2. CASE /\ hd # None /\ Enter(fs, hs, co, hd, b)
               /\ UNCHANGED <<natives, targets, status>>
      <3>1. hd \in Closures
        BY <2>2 DEF Callable
      <3>2. /\ frames' \in Seq(Frame) /\ sp' \in Nat /\ handlers' \in Seq(Handler)
            /\ WellFormed(frames', sp', handlers')
            /\ CoroOK(coro') /\ RetsMade(frames') /\ abort' \in Aborts
        BY <1>4, <1>5, <1>7, <1>9, <2>2, <3>1, EnterKeeps
      <3>3. StayInLoop(frames', handlers', sp')
        BY <2>2 DEF StayInLoop
      <3>. QED
        BY <1>1, <3>2, <3>3, StayKeeps
    <2>3. CASE /\ EndLoop("error", fs, hs, FailHeight(fs, co, hd, b, b + 2))
               /\ coro' = co /\ abort' = abort
      <3>. DEFINE t == FailHeight(fs, co, hd, b, b + 2)
      <3>1. t \in Nat /\ t >= b
        BY <1>5, <1>9 DEF FailHeight
      <3>2. EndLoop("error", fs, hs, t)
        BY <2>3
      <3>. HIDE DEF t
      <3>3. (IF "error" = "ok" /\ t > 0 THEN t - 1 ELSE t) = t
        OBVIOUS
      <3>4. WellFormed(fs, t, hs)
        BY <1>5, <3>1
      <3>5. WellFormed(fs, IF "error" = "ok" /\ t > 0 THEN t - 1 ELSE t, hs)
        BY <3>3, <3>4
      <3>6. /\ RunningOK' /\ Len(frames') <= Len(fs)
            /\ \A i \in 1..Len(frames') : frames'[i] = fs[i]
        BY <1>1, <1>5, <3>1, <3>2, <3>4, <3>5, EndLoopKeeps
      <3>7. RetsMade(frames')
        <4>1. frames' \in Seq(Frame)
          BY <3>6 DEF RunningOK
        <4>2. Len(frames') \in Nat /\ Len(fs) \in Nat
          BY <1>5, <4>1, LenProperties
        <4>. QED
          BY <1>5, <3>6, <4>2 DEF RetsMade
      <3>. QED
        BY <1>4, <1>7, <2>3, <3>6, <3>7
    <2>. QED
      BY <1>3, <2>1, <2>2, <2>3
  <1>11. HeldOK'
    <2>1. frames' \in Seq(Frame)
      BY <1>10 DEF RunningOK
    <2>2. \A i \in 1..Len(frames') : frames'[i].ret <= Len(conts) + 1
      <3>1. ASSUME NEW i \in 1..Len(frames')
            PROVE  frames'[i].ret <= Len(conts) + 1
        <4>1. frames'[i].ret <= Len(conts) /\ frames'[i].ret \in Nat
          BY <1>10, <2>1, FrameAt DEF RetsMade
        <4>. QED
          BY <1>4, <4>1
      <3>. QED
        BY <3>1
    <2>. QED
      BY <1>3, <1>8, <1>10, <2>1, <2>2, HeldGrows
  <1>. QED
    BY <1>10, <1>11, Halves2

-----------------------------------------------------------------------------
(* OP_CALL of a native that keeps values on the stack.                     *)
LEMMA CallNativeStep ==
  ASSUME IInv, NEW k \in Args, NEW q \in Roots, NEW g \in BOOLEAN, CallNative(k, q, g)
  PROVE  IInv'
  <1>. DEFINE b  == sp - (k + 1)
              t  == sp + q
              nt == [base |-> b, sp |-> t, caller |-> frames, hs |-> handlers,
                     guarded |-> g]
  <1>1. /\ Running /\ status = "run" /\ Anchored /\ sp >= Floor + k + 1
        /\ natives' = Append(natives, nt) /\ sp' = t /\ status' = "native"
        /\ UNCHANGED <<frames, handlers, coro, conts, targets, abort>>
    BY DEF CallNative, Running
  <1>2. /\ frames \in Seq(Frame) /\ frames # <<>> /\ handlers \in Seq(Handler)
        /\ sp \in Nat /\ Floor \in Nat /\ Floor <= sp /\ WellFormed(frames, sp, handlers)
        /\ k \in Nat /\ q \in Nat /\ natives \in Seq(Native) /\ Len(natives) \in Nat
        /\ targets \in Seq(Nat) /\ Len(targets) = Len(natives) + 1
    BY <1>1, InLoop, ControlAssumption DEF IInv, TypeOK
  <1>3. b \in Nat /\ b >= Floor /\ t \in Nat /\ t >= Floor /\ b < t
    BY <1>1, <1>2
  <1>. HIDE DEF b, t
  <1>4. WellFormed(frames, t, handlers)
    BY <1>2, <1>3, HeightMoves DEF Floor
  <1>5. nt \in Native /\ nt.caller = frames /\ nt.base = b /\ nt.sp = t /\ nt.hs = handlers
    BY <1>2, <1>3 DEF Native
  <1>. HIDE DEF nt
  <1>6. /\ natives' \in Seq(Native) /\ Len(natives') = Len(natives) + 1
        /\ \A i \in 1..Len(natives) : natives'[i] = natives[i]
        /\ natives'[Len(natives) + 1] = nt
    BY <1>1, <1>2, <1>5
  <1>7. NativesSound'
    <2>1. ASSUME NEW i \in 1..Len(natives) + 1
          PROVE  /\ natives'[i].caller # <<>>
                 /\ FloorOf(natives'[i].caller) <= natives'[i].base
                 /\ natives'[i].base < natives'[i].sp
                 /\ WellFormed(natives'[i].caller, natives'[i].sp, natives'[i].hs)
      <3>1. CASE i = Len(natives) + 1
        <4>1. FloorOf(frames) <= b
          BY <1>2, <1>3 DEF Floor
        <4>. QED
          BY <1>2, <1>3, <1>4, <1>5, <1>6, <3>1, <4>1
      <3>2. CASE i # Len(natives) + 1
        <4>1. i \in 1..Len(natives)
          BY <1>2, <3>2
        <4>. QED
          BY <1>6, <4>1 DEF IInv, NativesSound
      <3>. QED
        BY <3>1, <3>2
    <2>. QED
      BY <1>6, <2>1 DEF NativesSound
  <1>8. LoopsMatch'
    <2>1. natives' # <<>>
      BY <1>2, <1>6
    <2>. QED
      BY <1>1, <1>2, <1>6, <2>1 DEF IInv, LoopsMatch, Finished
  <1>9. ContextSound'
    BY <1>1, <1>4 DEF ContextSound
  <1>10. RunningOK'
    BY <1>1, <1>2, <1>3, <1>6, <1>7, <1>8, <1>9 DEF RunningOK, States
  <1>11. HeldOK' /\ abort' \in Aborts
    BY <1>1, HeldFacts, HeldKeeps DEF IInv, TypeOK, Aborts
  <1>. QED
    BY <1>10, <1>11, Halves2

(* A native returns to the loop that called it.                            *)
LEMMA NativeReturnsStep ==
  ASSUME IInv, NEW a \in {"no", "frame", "exit"}, NativeReturns(a)
  PROVE  IInv'
  <1>. DEFINE t == Last(natives).base + 1
  <1>1. /\ InNative /\ sp' = t /\ natives' = AllButLast(natives)
        /\ abort' = a /\ status' = "run"
        /\ UNCHANGED <<frames, handlers, coro, conts, targets>>
    BY DEF NativeReturns
  <1>2. /\ natives # <<>> /\ natives \in Seq(Native)
        /\ frames = Last(natives).caller /\ frames \in Seq(Frame) /\ frames # <<>>
        /\ sp \in Nat /\ handlers \in Seq(Handler) /\ WellFormed(frames, sp, handlers)
        /\ FloorOf(frames) \in Nat
        /\ targets \in Seq(Nat) /\ Len(targets) = Len(natives) /\ Len(natives) \in Nat
    BY <1>1, InsideNative
  <1>3. t \in Nat /\ t >= FloorOf(frames)
    BY <1>2, LastNative
  <1>. HIDE DEF t
  <1>4. WellFormed(frames, t, handlers)
    BY <1>2, <1>3, HeightMoves
  <1>5. /\ natives' \in Seq(Native) /\ Len(natives') = Len(natives) - 1
        /\ \A i \in 1..Len(natives)-1 : natives'[i] = natives[i]
    BY <1>1, <1>2, ButLastIsCut
  <1>6. NativesSound'
    <2>1. \A i \in 1..Len(natives)-1 : i \in 1..Len(natives)
      BY <1>2
    <2>. QED
      BY <1>5, <2>1 DEF IInv, NativesSound
  <1>7. LoopsMatch'
    BY <1>1, <1>2, <1>5 DEF IInv, LoopsMatch, Finished
  <1>8. RunningOK'
    BY <1>1, <1>2, <1>3, <1>4, <1>5, <1>6, <1>7 DEF RunningOK, States, ContextSound
  <1>9. HeldOK' /\ abort' \in Aborts
    BY <1>1, HeldFacts, HeldKeeps DEF Aborts
  <1>. QED
    BY <1>8, <1>9, Halves2

(* A loop started by a native, in whatever frames the call made.           *)
LEMMA NewLoop ==
  ASSUME IInv, InNative, NEW t \in Nat,
         targets' = Append(targets, t), status' = "run", natives' = natives
  PROVE  targets' \in Seq(Nat) /\ NativesSound' /\ LoopsMatch'
  <1>1. /\ targets \in Seq(Nat) /\ Len(targets) = Len(natives)
        /\ Len(natives) \in Nat /\ Len(natives) >= 1
    BY InsideNative
  <1>2. /\ targets' \in Seq(Nat) /\ Len(targets') = Len(targets) + 1
        /\ \A i \in 1..Len(targets) : targets'[i] = targets[i]
    BY <1>1
  <1>3. targets'[1] = 0
    <2>1. 1 \in 1..Len(targets) /\ targets # <<>>
      BY <1>1
    <2>. QED
      BY <1>2, <2>1 DEF IInv, LoopsMatch
  <1>. QED
    BY <1>1, <1>2, <1>3 DEF IInv, NativesSound, LoopsMatch, Finished

(* A native starts a nested loop on a closure.                             *)
LEMMA NativeCallsStep ==
  ASSUME IInv, NEW c \in Callable, NEW k \in Args, NativeCalls(c, k)
  PROVE  IInv'
  <1>1. /\ InNative /\ Enter(frames, handlers, coro, c, sp)
        /\ targets' = Append(targets, Len(frames') - 1) /\ status' = "run"
        /\ conts' = conts /\ natives' = natives
    BY DEF NativeCalls
  <1>2. /\ frames \in Seq(Frame) /\ handlers \in Seq(Handler) /\ sp \in Nat
        /\ WellFormed(frames, sp, handlers) /\ natives \in Seq(Native)
        /\ c \in Closures /\ abort \in Aborts
    BY <1>1, InsideNative DEF Callable, IInv, TypeOK, Aborts
  <1>3. /\ frames' \in Seq(Frame) /\ frames' # <<>> /\ sp' \in Nat
        /\ handlers' \in Seq(Handler) /\ WellFormed(frames', sp', handlers')
        /\ CoroOK(coro') /\ RetsMade(frames') /\ abort' \in Aborts
    BY <1>1, <1>2, HeldFacts, EnterKeeps
  <1>4. Len(frames') - 1 \in Nat
    BY <1>3, LastOf
  <1>5. targets' \in Seq(Nat) /\ NativesSound' /\ LoopsMatch'
    BY <1>1, <1>4, NewLoop
  <1>6. RunningOK'
    BY <1>1, <1>2, <1>3, <1>5 DEF RunningOK, States, ContextSound
  <1>7. HeldOK'
    BY <1>1, <1>3, HeldKeeps
  <1>. QED
    BY <1>3, <1>6, <1>7, Halves2

(* The same where call_closure made no frame: the loop is not anchored.    *)
LEMMA NativeCallsToNullStep ==
  ASSUME IInv, NEW k \in Args, NativeCallsToNull(k)
  PROVE  IInv'
  <1>1. /\ InNative /\ sp' = sp + 1
        /\ targets' = Append(targets, Depth - 1) /\ status' = "run"
        /\ UNCHANGED <<frames, handlers, coro, conts, natives, abort>>
    BY DEF NativeCallsToNull
  <1>2. /\ frames \in Seq(Frame) /\ frames # <<>> /\ handlers \in Seq(Handler) /\ sp \in Nat
        /\ WellFormed(frames, sp, handlers) /\ natives \in Seq(Native)
        /\ FloorOf(frames) \in Nat /\ FloorOf(frames) <= sp
        /\ Depth \in Nat /\ Depth >= 1
    BY <1>1, InsideNative
  <1>3. sp + 1 \in Nat /\ sp + 1 >= FloorOf(frames) /\ Depth - 1 \in Nat
    BY <1>2
  <1>4. WellFormed(frames, sp + 1, handlers)
    BY <1>2, <1>3, HeightMoves
  <1>5. targets' \in Seq(Nat) /\ NativesSound' /\ LoopsMatch'
    BY <1>1, <1>3, NewLoop
  <1>6. RunningOK'
    BY <1>1, <1>2, <1>3, <1>4, <1>5 DEF RunningOK, States, ContextSound
  <1>7. HeldOK' /\ abort' \in Aborts
    BY <1>1, HeldFacts, HeldKeeps DEF IInv, TypeOK, Aborts
  <1>. QED
    BY <1>6, <1>7, Halves2

(* The same at a limit: no loop starts.                                    *)
LEMMA NativeCallFailsStep ==
  ASSUME IInv, NEW c \in Callable, NEW k \in Args, NativeCallFails(c, k)
  PROVE  IInv'
  <1>1. /\ InNative /\ status = "native"
        /\ sp' = IF Last(natives).guarded THEN Last(natives).sp
                 ELSE FailHeight(frames, coro, c, sp, sp + k + 1)
        /\ UNCHANGED <<frames, handlers, coro, conts, natives, targets, abort, status>>
    BY DEF NativeCallFails, InNative
  <1>2. /\ frames \in Seq(Frame) /\ frames # <<>> /\ handlers \in Seq(Handler) /\ sp \in Nat
        /\ WellFormed(frames, sp, handlers) /\ natives \in Seq(Native)
        /\ FloorOf(frames) \in Nat /\ FloorOf(frames) <= sp
        /\ sp = Last(natives).sp /\ k \in Nat
        /\ targets \in Seq(Nat)
    BY <1>1, InsideNative, ControlAssumption
  <1>3. sp' \in Nat /\ sp' >= FloorOf(frames)
    BY <1>1, <1>2 DEF FailHeight
  <1>4. WellFormed(frames, sp', handlers)
    BY <1>2, <1>3, HeightMoves
  <1>5. NativesSound' /\ LoopsMatch'
    BY <1>1 DEF IInv, NativesSound, LoopsMatch, Finished
  <1>6. RunningOK'
    BY <1>1, <1>2, <1>3, <1>4, <1>5 DEF RunningOK, States, ContextSound
  <1>7. HeldOK' /\ abort' \in Aborts
    BY <1>1, HeldFacts, HeldKeeps DEF IInv, TypeOK, Aborts
  <1>. QED
    BY <1>6, <1>7, Halves2

-----------------------------------------------------------------------------
(* The context every script starts in.                                     *)
LEMMA FirstContext ==
  /\ <<NewFrame(Main, 0)>> \in Seq(Frame)
  /\ WellFormed(<<NewFrame(Main, 0)>>, FixedSlots, <<>>)
  /\ \A i \in 1..Len(<<NewFrame(Main, 0)>>) : <<NewFrame(Main, 0)>>[i].ret = 0
  /\ FixedSlots \in Nat /\ <<>> \in Seq(Handler) /\ <<>> \in Seq(Native)
  /\ <<0>> \in Seq(Nat)
  <1>. DEFINE fr == NewFrame(Main, 0)
              gs == Append(<<>>, fr)
  <1>1. Main \in Closures /\ FixedSlots \in Nat /\ 0 + FixedSlots = FixedSlots
    BY ContextAssumption
  <1>2. <<>> \in Seq(Frame) /\ <<>> \in Seq(Handler) /\ WellFormed(<<>>, 0, <<>>)
    BY EmptySeq, EmptyContext
  <1>3. gs \in Seq(Frame) /\ WellFormed(gs, 0 + FixedSlots, <<>>)
    BY <1>1, <1>2, PushContext
  <1>4. gs = <<fr>>
    <2>. HIDE DEF fr
    <2>. QED
      OBVIOUS
  <1>5. fr.ret = 0
    BY DEF NewFrame
  <1>. HIDE DEF fr
  <1>6. Len(<<fr>>) = 1 /\ <<fr>>[1] = fr
    OBVIOUS
  <1>7. <<>> \in Seq(Native) /\ <<0>> \in Seq(Nat)
    OBVIOUS
  <1>8. WellFormed(<<fr>>, FixedSlots, <<>>) /\ <<fr>> \in Seq(Frame)
    BY <1>1, <1>3, <1>4
  <1>9. \A i \in 1..Len(<<fr>>) : <<fr>>[i].ret = 0
    BY <1>5, <1>6
  <1>. QED
    BY <1>1, <1>2, <1>7, <1>8, <1>9 DEF fr

(* slp_vm_interpret leaves a sound context.                                *)
LEMMA InitStep == Init => IInv
  <1>. SUFFICES ASSUME Init PROVE IInv
    OBVIOUS
  <1>. DEFINE fs == <<NewFrame(Main, 0)>>
  <1>1. /\ frames = fs /\ sp = FixedSlots /\ handlers = <<>> /\ natives = <<>>
        /\ targets = <<0>> /\ abort = "no" /\ status = "run"
        /\ coro = [c \in Closures |-> None] /\ conts = <<>>
    BY DEF Init, Start
  <1>2. /\ fs \in Seq(Frame) /\ WellFormed(fs, FixedSlots, <<>>)
        /\ \A i \in 1..Len(fs) : fs[i].ret = 0
    BY FirstContext
  <1>. HIDE DEF fs
  <1>3. NativesSound /\ LoopsMatch
    <2>1. Len(<<0>>) = 1 /\ <<0>>[1] = 0 /\ Len(<<>>) = 0
      OBVIOUS
    <2>. QED
      BY <1>1, <2>1 DEF NativesSound, LoopsMatch, Finished
  <1>4. RunningOK
    BY <1>1, <1>2, <1>3, FirstContext DEF RunningOK, ContextSound, States
  <1>5. HeldOK
    <2>1. coro \in CoroType /\ \A c \in Closures : coro[c] = None
      BY <1>1 DEF CoroType
    <2>2. conts \in Seq(Continuation) /\ Len(conts) = 0
      BY <1>1
    <2>3. CoroutinesSound /\ ContinuationsSound
      BY <2>1, <2>2 DEF CoroutinesSound, ContinuationsSound
    <2>4. RetsExist
      BY <1>1, <1>2, <2>1, <2>2 DEF RetsExist, RetsMade
    <2>. QED
      BY <2>1, <2>2, <2>3, <2>4 DEF HeldOK
  <1>6. abort \in Aborts
    BY <1>1 DEF Aborts
  <1>. QED
    BY <1>4, <1>5, <1>6, Halves

(* So does a second script in the same VM.                                 *)
LEMMA InterpretStep ==
  ASSUME IInv, Interpret
  PROVE  IInv'
  <1>. DEFINE fs == <<NewFrame(Main, 0)>>
              n  == Len(conts)
  <1>1. /\ frames' = fs /\ sp' = FixedSlots /\ handlers' = <<>> /\ natives' = <<>>
        /\ targets' = <<0>> /\ abort' = "no" /\ status' = "run"
        /\ coro' = [coro EXCEPT ![Main] = None]
        /\ conts' = [i \in 1..n |-> IF conts[i].owner = Main
                                    THEN [conts[i] EXCEPT !.owner = None] ELSE conts[i]]
    BY DEF Interpret
  <1>2. /\ fs \in Seq(Frame) /\ WellFormed(fs, FixedSlots, <<>>)
        /\ \A i \in 1..Len(fs) : fs[i].ret = 0
    BY FirstContext
  <1>. HIDE DEF fs
  <1>3. NativesSound' /\ LoopsMatch'
    <2>1. Len(<<0>>) = 1 /\ <<0>>[1] = 0 /\ Len(<<>>) = 0
      OBVIOUS
    <2>. QED
      BY <1>1, <2>1 DEF NativesSound, LoopsMatch, Finished
  <1>4. RunningOK'
    BY <1>1, <1>2, <1>3, FirstContext DEF RunningOK, ContextSound, States
  <1>5. conts \in Seq(Continuation) /\ n \in Nat
    BY HeldFacts
  <1>6. ASSUME NEW i \in 1..n
        PROVE  /\ conts'[i] \in Continuation
               /\ conts'[i].frames = conts[i].frames /\ conts'[i].sp = conts[i].sp
               /\ conts'[i].handlers = conts[i].handlers
               /\ conts'[i].resume = conts[i].resume
    <2>1. conts[i] \in Continuation
      BY <1>5
    <2>2. conts'[i] = conts[i] \/ conts'[i] = [conts[i] EXCEPT !.owner = None]
      BY <1>1
    <2>. QED
      BY <2>1, <2>2 DEF Continuation
  <1>7. conts' \in Seq(Continuation) /\ Len(conts') = n
    <2>1. conts' \in [1..n -> Continuation]
      BY <1>1, <1>6
    <2>. HIDE DEF n
    <2>. QED
      BY <1>5, <2>1, SeqOfFunction
  <1>8. CoroOK(coro')
    BY <1>1, HeldFacts, CoroCleared, ContextAssumption
  <1>9. HeldOK'
    <2>1. CoroutinesSound' /\ coro' \in CoroType
      BY <1>8 DEF CoroOK, CoroutinesSound
    <2>2. ContinuationsSound'
      BY <1>6, <1>7 DEF IInv, ContinuationsSound
    <2>3. RetsMade(frames)'
      BY <1>1, <1>2, <1>5, <1>7 DEF RetsMade
    <2>4. \A c \in Closures : coro'[c] # None => RetsMade(coro[c].frames)'
      BY <1>7, <1>8 DEF CoroOK, RetsMade
    <2>5. \A i \in 1..n : RetsMade(conts[i].frames)'
      BY <1>6, <1>7 DEF IInv, RetsExist, RetsMade
    <2>6. RetsExist'
      BY <1>7, <2>3, <2>4, <2>5 DEF RetsExist
    <2>. QED
      BY <1>7, <2>1, <2>2, <2>6 DEF HeldOK
  <1>10. abort' \in Aborts
    BY <1>1 DEF Aborts
  <1>. QED
    BY <1>4, <1>9, <1>10, Halves2

(* No action breaks the invariant.                                         *)
LEMMA NextStep == IInv /\ Next => IInv'
  <1>. SUFFICES ASSUME IInv, Next PROVE IInv'
    OBVIOUS
  <1>1. CASE Interpret
    BY <1>1, InterpretStep
  <1>2. CASE \E c \in Callable, k \in Args : Call(c, k)
    BY <1>2, CallStep
  <1>3. CASE \E k \in Args : CallToNull(k)
    BY <1>3, CallToNullStep
  <1>4. CASE \E i \in 1..Len(conts), k \in Args : CallContinuation(i, k)
    BY <1>4, CallContinuationStep
  <1>5. CASE PushOperand \/ PopOperand
    BY <1>5, PushOperandStep, PopOperandStep
  <1>6. CASE EnterTry \/ LeaveTry \/ Catch
    BY <1>6, EnterTryStep, LeaveTryStep, CatchStep
  <1>7. CASE ThrowUncaught \/ \E r \in Finished : Stop(r)
    BY <1>7, ThrowUncaughtStep, StopStep
  <1>8. CASE AssertFails
    BY <1>8, AssertFailsStep
  <1>9. CASE Return \/ InlineReturn \/ Yield
    BY <1>9, ReturnStep, InlineReturnStep, YieldStep
  <1>10. CASE \E hd \in Callable \cup {None} : CallCC(hd)
    BY <1>10, CallCCStep
  <1>11. CASE Unwind
    BY <1>11, UnwindStep
  <1>12. CASE \E k \in Args, q \in Roots, g \in BOOLEAN : CallNative(k, q, g)
    BY <1>12, CallNativeStep
  <1>13. CASE \E a \in {"no", "frame", "exit"} : NativeReturns(a)
    BY <1>13, NativeReturnsStep
  <1>14. CASE \E c \in Callable, k \in Args : NativeCalls(c, k)
    BY <1>14, NativeCallsStep
  <1>15. CASE \E k \in Args : NativeCallsToNull(k)
    BY <1>15, NativeCallsToNullStep
  <1>16. CASE \E c \in Callable, k \in Args : NativeCallFails(c, k)
    BY <1>16, NativeCallFailsStep
  <1>. QED
    BY <1>1, <1>2, <1>3, <1>4, <1>5, <1>6, <1>7, <1>8, <1>9, <1>10, <1>11, <1>12,
       <1>13, <1>14, <1>15, <1>16 DEF Next

(* Nothing changes when no variable does.                                  *)
LEMMA Stutter == IInv /\ UNCHANGED vars => IInv'
  <1>. SUFFICES ASSUME IInv, UNCHANGED vars PROVE IInv'
    OBVIOUS
  <1>1. /\ frames' = frames /\ sp' = sp /\ handlers' = handlers /\ coro' = coro
        /\ conts' = conts /\ natives' = natives /\ targets' = targets
        /\ abort' = abort /\ status' = status
    BY DEF vars
  <1>2. RunningOK /\ HeldOK /\ abort \in Aborts
    BY Halves
  <1>3. RunningOK'
    BY <1>1, <1>2 DEF RunningOK, ContextSound, Anchored, Depth, NativesSound, LoopsMatch
  <1>4. HeldOK'
    BY <1>1, <1>2 DEF HeldOK, CoroutinesSound, ContinuationsSound, RetsExist, RetsMade
  <1>. QED
    BY <1>1, <1>2, <1>3, <1>4, Halves2

-----------------------------------------------------------------------------
(* The invariant holds in every state a script, a native or an abort of    *)
(* slp_vm_run can bring about.                                             *)
THEOREM Inductive == Spec => []IInv
  <1>1. Init => IInv
    BY InitStep
  <1>2. IInv /\ [Next]_vars => IInv'
    BY NextStep, Stutter
  <1>. QED
    BY <1>1, <1>2, PTL DEF Spec

(* The arrays of the VM, the saved activations and the continuations only  *)
(* ever hold frames, handlers and heights that make sense.                 *)
THEOREM TypeCorrect == Spec => []TypeOK
  <1>1. IInv => TypeOK
    BY DEF IInv
  <1>. QED
    BY <1>1, Inductive, PTL

(* Calls, returns, resumptions, catches and aborts never put one           *)
(* activation's slots or the stack top inside another's.                   *)
THEOREM ActivationsStacked == Spec => []StackDiscipline
  <1>1. IInv => StackDiscipline
    BY DEF IInv, ContextSound, StackDiscipline, WellFormed
  <1>. QED
    BY <1>1, Inductive, PTL

(* No handler survives its frame, and each one points at the height its    *)
(* try was entered at, however often its activation was saved and moved.   *)
THEOREM HandlersSound == Spec => []HandlerDiscipline
  <1>1. IInv => HandlerDiscipline
    BY DEF IInv, ContextSound, HandlerDiscipline, WellFormed
  <1>. QED
    BY <1>1, Inductive, PTL

(* What yield and callcc save can always be put back.                      *)
THEOREM SavedSoundly == Spec => []CoroutinesSound
  <1>1. IInv => CoroutinesSound
    BY DEF IInv
  <1>. QED
    BY <1>1, Inductive, PTL

(* Every continuation object stays a well formed context whose resumed     *)
(* frame exists, so that restore_vm_context can be called on it at any     *)
(* later time, from any nested loop.                                       *)
THEOREM ContinuationsStaySound == Spec => []ContinuationsSound
  <1>1. IInv => ContinuationsSound
    BY DEF IInv
  <1>. QED
    BY <1>1, Inductive, PTL
=============================================================================
