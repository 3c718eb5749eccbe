---------------------------- MODULE VmTriesProofs ----------------------------
(***************************************************************************)
(* Proofs about VmControl that need more than IInv: every try has its      *)
(* handler, so that a throw reaches the innermost try, and natives find    *)
(* the operands and the handlers they left.                                *)
(*                                                                         *)
(* OP_PUSH_HANDLER drops the handler of a try entered when the array is    *)
(* full.  What the theorems say of all other executions is said under the  *)
(* hypothesis below, on the execution and not on the bounds.               *)
(***************************************************************************)
EXTENDS VmControlProofs

(* No try is entered when SLP_MAX_HANDLERS of them are active.             *)
HandlersFit == [][EnterTry => Len(handlers) < MaxHandlers]_vars

-----------------------------------------------------------------------------
(* Every try a frame is inside of has its handler: in the running context, *)
(* in the contexts natives were called from, and in all that was saved.    *)
Handled(fs, hs) ==
  \A i \in 1..Len(fs) : \A l \in 1..Len(fs[i].tries) :
    \E h \in 1..Len(hs) : hs[h].fc = i /\ hs[h].level = l - 1

NativesHandled(ns) == \A i \in 1..Len(ns) : Handled(ns[i].caller, ns[i].hs)
CoroHandled(co) ==
  \A c \in Closures : co[c] # None => Handled(co[c].frames, co[c].handlers)
ContsHandled(cs) == \A i \in 1..Len(cs) : Handled(cs[i].frames, cs[i].handlers)

Tried ==
  /\ Anchored => Handled(frames, handlers)
  /\ NativesHandled(natives) /\ CoroHandled(coro) /\ ContsHandled(conts)

(* A context whose frames were cut and whose handlers were trimmed with    *)
(* them.                                                                   *)
LEMMA CutHandled ==
  ASSUME NEW fs \in Seq(Frame), NEW hs \in Seq(Handler), Handled(fs, hs),
         NEW n \in 0..Len(fs), NEW k, IsTrim(hs, n, k)
  PROVE  Handled(SubSeq(fs, 1, n), SubSeq(hs, 1, k))
  <1>. DEFINE gs == SubSeq(fs, 1, n)
              ks == SubSeq(hs, 1, k)
  <1>1. k \in 0..Len(hs) /\ \A j \in k+1..Len(hs) : hs[j].fc > n
    BY DEF IsTrim
  <1>2. Len(gs) = n /\ \A i \in 1..n : gs[i] = fs[i]
    BY Cut
  <1>3. Len(ks) = k /\ \A i \in 1..k : ks[i] = hs[i]
    BY <1>1, Cut
  <1>4. ASSUME NEW i \in 1..n, NEW l \in 1..Len(fs[i].tries)
        PROVE  \E h \in 1..k : hs[h].fc = i /\ hs[h].level = l - 1
    <2>1. i \in 1..Len(fs)
      BY LenProperties
    <2>2. PICK h \in 1..Len(hs) : hs[h].fc = i /\ hs[h].level = l - 1
      BY <2>1 DEF Handled
    <2>3. h \in 1..k
      <3>1. ~(h \in k+1..Len(hs))
        <4>1. ~(i > n)
          OBVIOUS
        <4>. QED
          BY <1>1, <2>2, <4>1
      <3>. QED
        BY <1>1, <3>1, LenProperties
    <2>. QED
      BY <2>2, <2>3
  <1>. HIDE DEF gs, ks
  <1>5. Handled(gs, ks)
    <2>. SUFFICES ASSUME NEW i \in 1..n, NEW l \in 1..Len(fs[i].tries)
                  PROVE  \E h \in 1..k : ks[h].fc = i /\ ks[h].level = l - 1
      BY <1>2, <1>3, Zenon DEF Handled
    <2>. QED
      BY <1>3, <1>4, SMTT(30)
  <1>. QED
    BY <1>5 DEF gs, ks

(* Frames that differ in their continuations only.                         *)
LEMMA SameTries ==
  ASSUME NEW fs, NEW gs, NEW hs, Handled(fs, hs), Len(gs) = Len(fs),
         \A i \in 1..Len(fs) : gs[i].tries = fs[i].tries
  PROVE  Handled(gs, hs)
  BY DEF Handled

(* A new frame on top, inside of no try.                                   *)
LEMMA PushHandled ==
  ASSUME NEW fs \in Seq(Frame), NEW hs, Handled(fs, hs), NEW c \in Closures,
         NEW b \in Nat
  PROVE  Handled(Append(fs, NewFrame(c, b)), hs)
  <1>1. NewFrame(c, b) \in Frame /\ NewFrame(c, b).tries = <<>>
    BY EmptySeq DEF NewFrame, Frame
  <1>. DEFINE fr == NewFrame(c, b)
              gs == Append(fs, fr)
  <1>. HIDE DEF fr
  <1>2. /\ Len(gs) = Len(fs) + 1 /\ gs[Len(fs) + 1] = fr /\ Len(fs) \in Nat
        /\ \A i \in 1..Len(fs) : gs[i] = fs[i]
    BY <1>1, AppendProperties DEF fr
  <1>3. \A i \in 1..Len(fs) + 1 : i \in 1..Len(fs) \/ i = Len(fs) + 1
    BY <1>2
  <1>4. Len(gs[Len(fs) + 1].tries) = 0 /\ 1..0 = {}
    BY <1>1, <1>2, EmptySeq DEF fr
  <1>. HIDE DEF gs
  <1>5. Handled(gs, hs)
    BY <1>2, <1>3, <1>4 DEF Handled
  <1>. QED
    BY <1>5 DEF gs, fr

(* A saved activation put back brings its handlers with it.                *)
LEMMA ResumeHandled ==
  ASSUME NEW fs \in Seq(Frame), NEW hs \in Seq(Handler), Handled(fs, hs),
         NEW sv \in Saved, Handled(sv.frames, sv.handlers), NEW b \in Nat
  PROVE  Handled(fs \o ResumedFrames(sv, b), hs \o ResumedHandlers(sv, Len(fs), b))
  <1>. DEFINE n  == Len(fs)
              q  == Len(hs)
              m  == Len(sv.frames)
              p  == Len(sv.handlers)
              rf == ResumedFrames(sv, b)
              rh == ResumedHandlers(sv, n, b)
              gs == fs \o rf
              ks == hs \o rh
  <1>1. n \in Nat /\ q \in Nat /\ m \in Nat /\ p \in Nat
    BY SavedAt, LenProperties
  <1>2. /\ rf \in Seq(Frame) /\ Len(rf) = m
        /\ \A i \in 1..m : rf[i].tries = sv.frames[i].tries
        /\ rh \in Seq(Handler) /\ Len(rh) = p
        /\ \A h \in 1..p : /\ rh[h].fc = sv.handlers[h].fc + n
                           /\ rh[h].level = sv.handlers[h].level
    BY <1>1, ResumedShape
  <1>. HIDE DEF rf, rh
  <1>3. /\ Len(gs) = n + m
        /\ \A i \in 1..n : gs[i] = fs[i]
        /\ \A i \in 1..m : gs[n + i] = rf[i]
    <2>1. rf \in Seq(Frame) /\ Len(rf) = m
      BY <1>2
    <2>2. /\ fs \o rf \in Seq(Frame) /\ Len(fs \o rf) = Len(fs) + Len(rf)
          /\ \A i \in 1..Len(fs) : (fs \o rf)[i] = fs[i]
          /\ \A i \in 1..Len(rf) : (fs \o rf)[Len(fs) + i] = rf[i]
      <3>1. rf \in Seq(Frame)
        BY <2>1
      <3>. QED
        BY ONLY <3>1, fs \in Seq(Frame), hs \in Seq(Handler), Joined
    <2>3. /\ Len(gs) = n + Len(rf)
          /\ \A i \in 1..n : gs[i] = fs[i]
          /\ \A i \in 1..Len(rf) : gs[n + i] = rf[i]
      BY <2>2
    <2>. HIDE DEF gs, n, m
    <2>. QED
      BY <2>1, <2>3
  <1>4. /\ Len(ks) = q + p
        /\ \A i \in 1..q : ks[i] = hs[i]
        /\ \A i \in 1..p : ks[q + i] = rh[i]
    <2>1. rh \in Seq(Handler) /\ Len(rh) = p
      BY <1>2
    <2>2. /\ hs \o rh \in Seq(Handler) /\ Len(hs \o rh) = Len(hs) + Len(rh)
          /\ \A i \in 1..Len(hs) : (hs \o rh)[i] = hs[i]
          /\ \A i \in 1..Len(rh) : (hs \o rh)[Len(hs) + i] = rh[i]
      <3>1. rh \in Seq(Handler)
        BY <2>1
      <3>. QED
        BY ONLY <3>1, fs \in Seq(Frame), hs \in Seq(Handler), Joined
    <2>3. /\ Len(ks) = q + Len(rh)
          /\ \A i \in 1..q : ks[i] = hs[i]
          /\ \A i \in 1..Len(rh) : ks[q + i] = rh[i]
      BY <2>2
    <2>. HIDE DEF ks, q, p
    <2>. QED
      BY <2>1, <2>3
  <1>. HIDE DEF gs, ks, n, q, m, p
  <1>5. /\ \A i \in 1..n + m : i \in 1..n \/ (i - n \in 1..m /\ n + (i - n) = i)
        /\ \A h \in 1..q : h \in 1..q + p
        /\ \A h \in 1..p : q + h \in 1..q + p
    BY <1>1
  <1>6. ASSUME NEW i \in 1..n, NEW l \in 1..Len(gs[i].tries)
        PROVE  \E h \in 1..q + p : ks[h].fc = i /\ ks[h].level = l - 1
    <2>1. PICK h \in 1..q : hs[h].fc = i /\ hs[h].level = l - 1
      BY <1>3 DEF Handled, n, q
    <2>. QED
      BY <1>4, <1>5, <2>1
  <1>7. ASSUME NEW i \in 1..m, NEW l \in 1..Len(gs[n + i].tries)
        PROVE  \E h \in 1..q + p : ks[h].fc = n + i /\ ks[h].level = l - 1
    <2>0. l \in 1..Len(sv.frames[i].tries)
      BY <1>2, <1>3
    <2>1. PICK h \in 1..p : sv.handlers[h].fc = i /\ sv.handlers[h].level = l - 1
      BY <2>0 DEF Handled, m, p
    <2>2. ks[q + h].fc = i + n /\ ks[q + h].level = l - 1 /\ i + n = n + i
      BY <1>1, <1>2, <1>4, <2>1
    <2>. QED
      BY <1>5, <2>2
  <1>8. Handled(gs, ks)
    <2>1. ASSUME NEW i \in 1..n + m, NEW l \in 1..Len(gs[i].tries)
          PROVE  \E h \in 1..q + p : ks[h].fc = i /\ ks[h].level = l - 1
      <3>1. CASE i \in 1..n
        BY <1>6, <3>1
      <3>2. CASE i - n \in 1..m /\ n + (i - n) = i
        <4>1. PICK j \in 1..m : n + j = i
          BY <3>2
        <4>. QED
          BY <1>7, <4>1
      <3>. QED
        BY <1>5, <3>1, <3>2
    <2>. QED
      BY <1>3, <1>4, <2>1 DEF Handled
  <1>. QED
    BY <1>8 DEF gs, ks, rf, rh, n

(* A closure entered, fresh or resumed.                                    *)
LEMMA EnterHandled ==
  ASSUME NEW fs \in Seq(Frame), NEW hs \in Seq(Handler), NEW b \in Nat,
         NEW co \in CoroType, CoroHandled(co), NEW c \in Closures,
         Handled(fs, hs), Enter(fs, hs, co, c, b)
  PROVE  Handled(frames', handlers') /\ CoroHandled(coro')
  <1>1. CASE co[c] = None
    <2>1. /\ frames' = Append(fs, NewFrame(c, b)) /\ handlers' = hs /\ coro' = co
      BY <1>1 DEF Enter
    <2>. QED
      BY <2>1, PushHandled
  <1>2. CASE co[c] # None
    <2>1. PICK sv \in Saved : sv = co[c]
      BY <1>2, HeldAt
    <2>2. /\ frames' = fs \o ResumedFrames(sv, b)
          /\ handlers' = hs \o ResumedHandlers(sv, Len(fs), b)
          /\ coro' = [co EXCEPT ![c] = None]
      BY <1>2, <2>1 DEF Enter
    <2>3. Handled(sv.frames, sv.handlers)
      BY <1>2, <2>1 DEF CoroHandled
    <2>4. CoroHandled(coro')
      BY <2>2 DEF CoroHandled, CoroType
    <2>. QED
      BY <2>2, <2>3, <2>4, ResumeHandled
  <1>. QED
    BY <1>1, <1>2

(* What is captured takes the handlers of its frames along.                *)
LEMMA CaptureHandled ==
  ASSUME NEW fs \in Seq(Frame), NEW hs \in Seq(Handler), Handled(fs, hs),
         NEW r, NEW k, NEW s, NEW needs, NEW sv, IsRoot(fs, r), IsSplit(hs, r - 1, k),
         sv = Capture(fs, hs, r, k, s, needs)
  PROVE  Handled(sv.frames, sv.handlers)
  <1>. DEFINE n == Len(fs)
              q == Len(hs)
              b == fs[r].base
              m == n - r + 1
              p == q - k
              cf == sv.frames
              ch == sv.handlers
  <1>1. /\ n \in Nat /\ q \in Nat /\ r \in 1..n /\ k \in 0..q
        /\ \A j \in 1..k : hs[j].fc <= r - 1
    BY LenProperties DEF IsRoot, IsSplit
  <1>2. m \in Nat /\ p \in Nat /\ (\A i \in 1..m : r + i - 1 \in 1..n)
        /\ \A j \in 1..p : k + j \in 1..q
    BY <1>1
  <1>3. /\ cf = [i \in 1..m |-> [fs[r+i-1] EXCEPT !.base = fs[r+i-1].base - b]]
        /\ ch = [j \in 1..p |-> [fc |-> hs[k+j].fc - (r - 1), sc |-> hs[k+j].sc - b,
                                 level |-> hs[k+j].level]]
    BY Zenon DEF Capture
  <1>4. /\ Len(cf) = m /\ \A i \in 1..m : cf[i].tries = fs[r+i-1].tries
    <2>1. Len(cf) = m
      BY <1>2, <1>3, LenProperties
    <2>2. ASSUME NEW i \in 1..m
          PROVE  cf[i].tries = fs[r+i-1].tries
      <3>1. fs[r+i-1] \in Frame
        BY <1>2
      <3>2. cf[i] = [fs[r+i-1] EXCEPT !.base = fs[r+i-1].base - b]
        BY <1>3
      <3>. QED
        BY <3>1, <3>2 DEF Frame
    <2>. QED
      BY <2>1, <2>2
  <1>5. /\ Len(ch) = p
        /\ \A j \in 1..p : ch[j].fc = hs[k+j].fc - (r - 1) /\ ch[j].level = hs[k+j].level
    BY <1>2, <1>3, LenProperties
  <1>. HIDE DEF cf, ch, m, p, b
  <1>6. ASSUME NEW i \in 1..m, NEW l \in 1..Len(cf[i].tries)
        PROVE  \E h \in 1..p : ch[h].fc = i /\ ch[h].level = l - 1
    <2>1. PICK x \in 1..n : x = r + i - 1
      BY <1>2
    <2>2. l \in 1..Len(fs[x].tries)
      BY <1>4, <2>1
    <2>3. PICK h \in 1..q : hs[h].fc = x /\ hs[h].level = l - 1
      BY <2>2 DEF Handled
    <2>4. ~(h \in 1..k) /\ x - (r - 1) = i
      BY <1>1, <2>1, <2>3 DEF m
    <2>5. h - k \in 1..p /\ k + (h - k) = h
      BY <1>1, <2>4 DEF p
    <2>6. PICK j \in 1..p : k + j = h
      BY <2>5
    <2>. QED
      BY <1>5, <2>3, <2>4, <2>6
  <1>7. Handled(cf, ch)
    BY <1>4, <1>5, <1>6 DEF Handled
  <1>. QED
    BY <1>7 DEF cf, ch

(* The handler recorded last belongs to the innermost try there is: the    *)
(* frames above its own are inside of none.                                *)
LEMMA LastHandlerInnermost ==
  ASSUME NEW fs \in Seq(Frame), NEW hs \in Seq(Handler), HandlersNested(fs, hs),
         Handled(fs, hs), hs # <<>>
  PROVE  LET h == Last(hs) IN
         /\ h.fc \in 1..Len(fs)
         /\ h.level = Len(fs[h.fc].tries) - 1
         /\ \A j \in h.fc + 1..Len(fs) : fs[j].tries = <<>>
  <1>. DEFINE q == Len(hs)
              f == hs[q].fc
              v == hs[q].level
  <1>1. q \in Nat /\ q \in 1..q /\ Last(hs) = hs[q] /\ Len(fs) \in Nat
    BY LastOf, LenProperties
  <1>2. /\ f \in 1..Len(fs) /\ v < Len(fs[f].tries) /\ f \in Nat /\ v \in Nat
    BY <1>1, HandlerAt DEF HandlersNested
  <1>3. \A g \in 1..q : g = q \/ hs[g].fc < f \/ (hs[g].fc = f /\ hs[g].level < v)
    <2>1. \A g \in 1..q : g = q \/ g < q
      BY <1>1
    <2>. QED
      BY <1>1, <2>1 DEF HandlersNested
  <1>4. Len(fs[f].tries) \in Nat
    BY <1>2, FrameAt
  <1>. HIDE DEF f, v, q
  <1>5. v = Len(fs[f].tries) - 1
    <2>. DEFINE n == Len(fs[f].tries)
    <2>1. n \in Nat /\ v < n /\ n \in 1..n
      BY <1>2, <1>4
    <2>2. PICK h \in 1..q : hs[h].fc = f /\ hs[h].level = n - 1
      BY <1>2, <2>1 DEF Handled, q
    <2>3. CASE h = q
      BY <2>2, <2>3 DEF v
    <2>4. CASE h # q
      <3>1. n - 1 < v
        BY <1>2, <1>3, <2>2, <2>4
      <3>. HIDE DEF n
      <3>2. FALSE
        BY <1>2, <2>1, <3>1
      <3>. QED
        BY <3>2
    <2>. QED
      BY <2>3, <2>4
  <1>6. ASSUME NEW j \in f + 1..Len(fs)
        PROVE  fs[j].tries = <<>>
    <2>1. j \in 1..Len(fs) /\ j > f /\ j \in Nat
      BY <1>1, <1>2
    <2>2. fs[j].tries \in Seq(Nat) /\ Len(fs[j].tries) \in Nat
      BY <2>1, FrameAt
    <2>3. SUFFICES ASSUME fs[j].tries # <<>> PROVE FALSE
      OBVIOUS
    <2>4. 1 \in 1..Len(fs[j].tries)
      BY <2>2, <2>3, LastOf
    <2>5. PICK h \in 1..q : hs[h].fc = j
      BY <2>1, <2>4 DEF Handled, q
    <2>6. h = q \/ j < f \/ j = f
      BY <1>3, <2>5
    <2>. QED
      BY <1>2, <2>1, <2>5, <2>6 DEF f
  <1>. QED
    BY <1>1, <1>2, <1>5, <1>6 DEF f, v

(* Where there is a try there is a handler.                                *)
LEMMA TryNeedsHandler ==
  ASSUME NEW fs \in Seq(Frame), NEW hs \in Seq(Handler), HandlersNested(fs, hs),
         Handled(fs, hs), NEW n \in 1..Len(fs), n = Len(fs), fs[n].tries # <<>>
  PROVE  /\ hs # <<>> /\ Last(hs).fc = n
         /\ Last(hs).level = Len(fs[n].tries) - 1
  <1>1. fs[n].tries \in Seq(Nat) /\ n \in Nat
    BY FrameAt
  <1>2. 1 \in 1..Len(fs[n].tries)
    BY <1>1, LastOf
  <1>3. PICK h \in 1..Len(hs) : hs[h].fc = n
    BY <1>2 DEF Handled
  <1>4. hs # <<>>
    BY <1>3, EmptySeq
  <1>5. PICK f \in 1..Len(fs) :
           /\ f = Last(hs).fc /\ Last(hs).level = Len(fs[f].tries) - 1
           /\ \A j \in f + 1..Len(fs) : fs[j].tries = <<>>
    BY <1>4, LastHandlerInnermost
  <1>6. f = n
    <2>1. ~(n \in f + 1..Len(fs))
      BY <1>5
    <2>. QED
      BY <1>1, <2>1
  <1>. QED
    BY <1>4, <1>5, <1>6

(* A try entered in the top frame, with its handler.                       *)
LEMMA TryHandled ==
  ASSUME NEW fs \in Seq(Frame), NEW gs, NEW hs \in Seq(Handler), Handled(fs, hs),
         NEW n \in 1..Len(fs), Len(gs) = Len(fs), NEW x \in Nat, NEW nh \in Handler,
         \A i \in 1..Len(fs) : i # n => gs[i].tries = fs[i].tries,
         gs[n].tries = Append(fs[n].tries, x),
         nh.fc = n, nh.level = Len(fs[n].tries)
  PROVE  Handled(gs, Append(hs, nh))
  <1>. DEFINE ks == Append(hs, nh)
              q  == Len(hs)
              m  == Len(fs[n].tries)
  <1>1. fs[n].tries \in Seq(Nat) /\ m \in Nat /\ q \in Nat
    BY FrameAt, LenProperties
  <1>2. /\ Len(ks) = q + 1 /\ ks[q + 1] = nh /\ q + 1 \in 1..q + 1
        /\ \A h \in 1..q : ks[h] = hs[h] /\ h \in 1..q + 1
    BY <1>1
  <1>3. Len(gs[n].tries) = m + 1
    BY <1>1
  <1>. HIDE DEF ks, q
  <1>4. ASSUME NEW i \in 1..Len(fs), NEW l \in 1..Len(gs[i].tries)
        PROVE  \E h \in 1..q + 1 : ks[h].fc = i /\ ks[h].level = l - 1
    <2>1. CASE i = n /\ l = m + 1
      BY <1>1, <1>2, <2>1
    <2>2. CASE ~(i = n /\ l = m + 1)
      <3>1. l \in 1..Len(fs[i].tries)
        <4>1. CASE i # n
          BY <4>1
        <4>2. CASE i = n
          <5>1. l \in 1..m + 1 /\ l # m + 1
            BY <1>3, <2>2, <4>2
          <5>2. l \in 1..m
            <6>. HIDE DEF m
            <6>. QED
              BY <1>1, <5>1
          <5>. QED
            BY <4>2, <5>2
        <4>. QED
          BY <4>1, <4>2
      <3>2. PICK h \in 1..q : hs[h].fc = i /\ hs[h].level = l - 1
        BY <3>1 DEF Handled, q
      <3>. QED
        BY <1>2, <3>2
    <2>. QED
      BY <2>1, <2>2
  <1>5. Handled(gs, ks)
    BY <1>2, <1>4 DEF Handled
  <1>. QED
    BY <1>5 DEF ks

(* The innermost try left with its handler; the frames above its frame go. *)
LEMMA TryLeft ==
  ASSUME NEW fs \in Seq(Frame), NEW hs \in Seq(Handler), HandlersNested(fs, hs),
         Handled(fs, hs), hs # <<>>, NEW f, f = Last(hs).fc,
         NEW gs, Len(gs) = f,
         \A i \in 1..f : i # f => gs[i].tries = fs[i].tries,
         Len(gs[f].tries) = Last(hs).level
  PROVE  Handled(gs, AllButLast(hs))
  <1>. DEFINE q  == Len(hs)
              v  == Last(hs).level
              ks == AllButLast(hs)
  <1>1. /\ q \in Nat /\ q >= 1 /\ Last(hs) = hs[q] /\ q \in 1..q
        /\ Len(ks) = q - 1 /\ \A h \in 1..q - 1 : ks[h] = hs[h]
    BY LastOf, ButLastIsCut
  <1>2. f \in 1..Len(fs) /\ v = Len(fs[f].tries) - 1 /\ v \in Nat /\ Len(fs) \in Nat
    BY <1>1, LastHandlerInnermost, HandlerAt, LenProperties
  <1>. HIDE DEF v, ks, q
  <1>3. ASSUME NEW i \in 1..f, NEW l \in 1..Len(gs[i].tries)
        PROVE  \E h \in 1..q - 1 : ks[h].fc = i /\ ks[h].level = l - 1
    <2>1. i \in 1..Len(fs) /\ (i = f => l \in 1..v) /\ Len(fs[i].tries) \in Nat
      <3>1. i \in 1..Len(fs)
        BY <1>2
      <3>. QED
        BY <3>1, FrameAt DEF v
    <2>2. l \in 1..Len(fs[i].tries)
      <3>1. CASE i # f
        BY <3>1
      <3>2. CASE i = f
        <4>. DEFINE n == Len(fs[f].tries)
        <4>1. l \in 1..v /\ v = n - 1 /\ n \in Nat
          BY <1>2, <2>1, <3>2
        <4>. HIDE DEF n
        <4>2. l \in 1..n
          BY <1>2, <4>1
        <4>. QED
          BY <3>2, <4>2 DEF n
      <3>. QED
        BY <3>1, <3>2
    <2>3. PICK h \in 1..q : hs[h].fc = i /\ hs[h].level = l - 1
      BY <2>1, <2>2 DEF Handled, q
    <2>4. h # q
      <3>. SUFFICES ASSUME h = q PROVE FALSE
        OBVIOUS
      <3>1. i = f /\ l - 1 = v
        BY <1>1, <2>3 DEF v
      <3>2. l \in 1..v
        BY <2>1, <3>1
      <3>. QED
        BY <1>2, <3>1, <3>2
    <2>5. h \in 1..q - 1
      BY <1>1, <2>4
    <2>. QED
      BY <1>1, <2>3, <2>5
  <1>4. Handled(gs, ks)
    BY <1>1, <1>3 DEF Handled
  <1>. QED
    BY <1>4 DEF ks

-----------------------------------------------------------------------------
(* Steps that leave the context and what is saved of it alone.             *)
LEMMA QuietTried ==
  ASSUME Tried, Anchored, UNCHANGED <<frames, handlers, coro, conts>>,
         NativesHandled(natives')
  PROVE  Tried'
  BY DEF Tried

(* A loop that goes on in a context where every try has its handler, or    *)
(* returns it to a native that either uses it or puts its caller's back.   *)
LEMMA LoopTried ==
  ASSUME IInv, Tried, status = "run", Anchored, NEW r,
         NEW fs, NEW hs, NEW s, Handled(fs, hs),
         EndLoop(r, fs, hs, s) \/ StayInLoop(fs, hs, s)
  PROVE  natives' = natives /\ (Anchored' => Handled(frames', handlers'))
  <1>1. natives' = natives
    BY DEF EndLoop, StayInLoop
  <1>2. CASE frames' = fs /\ handlers' = hs
    BY <1>1, <1>2
  <1>3. CASE /\ natives # <<>> /\ status' = "native"
             /\ Last(natives).guarded
    <2>1. natives \in Seq(Native) /\ Len(natives) \in 1..Len(natives)
          /\ Last(natives) = natives[Len(natives)]
      BY <1>3, LastOf DEF IInv, TypeOK
    <2>2. Handled(Last(natives).caller, Last(natives).hs)
      BY <2>1 DEF Tried, NativesHandled
    <2>3. Anchored' => frames' = Last(natives).caller /\ handlers' = Last(natives).hs
      BY <1>1, <1>3 DEF Anchored
    <2>. QED
      BY <1>1, <2>2, <2>3
  <1>. QED
    BY <1>2, <1>3 DEF EndLoop, StayInLoop

(* Frames from r on are dropped and their handlers trimmed.                *)
LEMMA DropHandled ==
  ASSUME IInv, Tried, status = "run", Anchored, NEW n \in Nat, n <= Depth,
         NEW k, IsTrim(handlers, n, k)
  PROVE  Handled(SubSeq(frames, 1, n), SubSeq(handlers, 1, k))
  <1>1. frames \in Seq(Frame) /\ handlers \in Seq(Handler) /\ n \in 0..Len(frames)
    BY InLoop DEF Depth
  <1>. QED
    BY <1>1, CutHandled DEF Tried

(* What is captured of the running context.                                *)
LEMMA CapturedHandled ==
  ASSUME IInv, Tried, status = "run", Anchored, NEW r \in 1..Depth, NEW m, NEW needs,
         IsRoot(frames, r), IsSplit(handlers, r - 1, m), NEW co \in CoroType,
         co = [coro EXCEPT ![frames[r].cl] =
                 Capture(frames, handlers, r, m, sp - 1, needs)]
  PROVE  CoroHandled(co)
  <1>. DEFINE sv == Capture(frames, handlers, r, m, sp - 1, needs)
  <1>1. frames \in Seq(Frame) /\ handlers \in Seq(Handler) /\ Handled(frames, handlers)
    BY InLoop DEF Tried
  <1>2. Handled(sv.frames, sv.handlers)
    BY <1>1, CaptureHandled
  <1>3. coro \in CoroType /\ CoroHandled(coro)
    BY DEF Tried, IInv, TypeOK, CoroType
  <1>. HIDE DEF sv
  <1>4. co = [coro EXCEPT ![frames[r].cl] = sv]
    BY DEF sv
  <1>5. \A c \in Closures : co[c] = coro[c] \/ co[c] = sv
    BY <1>3, <1>4 DEF CoroType
  <1>. QED
    BY <1>2, <1>3, <1>5 DEF CoroHandled

(* One closure's suspended activation forgotten.                           *)
LEMMA ForgottenHandled ==
  ASSUME NEW co \in CoroType, CoroHandled(co), NEW c
  PROVE  CoroHandled([co EXCEPT ![c] = None])
  <1>1. \A d \in Closures : [co EXCEPT ![c] = None][d] \in {co[d], None}
    BY DEF CoroType
  <1>. QED
    BY <1>1 DEF CoroHandled

(* A continuation made of a context with all its handlers.                 *)
LEMMA ContsGrow ==
  ASSUME NEW cs \in Seq(Continuation), ContsHandled(cs), NEW cn \in Continuation,
         Handled(cn.frames, cn.handlers)
  PROVE  ContsHandled(Append(cs, cn))
  <1>. DEFINE n  == Len(cs)
              ds == Append(cs, cn)
  <1>1. /\ n \in Nat /\ Len(ds) = n + 1 /\ ds[n + 1] = cn
        /\ \A i \in 1..n : ds[i] = cs[i]
    BY AppendProperties, LenProperties
  <1>2. \A i \in 1..n + 1 : i \in 1..n \/ i = n + 1
    BY <1>1
  <1>. HIDE DEF ds
  <1>3. ContsHandled(ds)
    BY <1>1, <1>2 DEF ContsHandled
  <1>. QED
    BY <1>3 DEF ds

-----------------------------------------------------------------------------
(* The frames below the top when its tries are replaced.                   *)
LEMMA BelowTop ==
  ASSUME NEW fs \in Seq(Frame), NEW ts
  PROVE  \A i \in 1..Len(fs) : i # Len(fs) => WithTopTries(fs, ts)[i] = fs[i]
  BY LenProperties DEF WithTopTries

(* OP_PUSH_HANDLER with room for the handler.                              *)
LEMMA EnterTryTried ==
  ASSUME IInv, Tried, EnterTry, Len(handlers) < MaxHandlers
  PROVE  Tried'
  <1>1. Running /\ status = "run" /\ Anchored
    BY DEF EnterTry, Running
  <1>2. /\ frames \in Seq(Frame) /\ frames # <<>> /\ Top \in Frame /\ Top.base \in Nat
        /\ sp \in Nat /\ handlers \in Seq(Handler)
        /\ Floor \in Nat /\ Floor <= sp /\ Top.base + FixedSlots <= Floor
        /\ FixedSlots \in Nat
        /\ Depth \in 1..Depth
    BY <1>1, InLoop
  <1>3. PICK n \in 1..Len(frames) : n = Len(frames) /\ Depth = n /\ Top = frames[n]
    BY <1>2 DEF Depth, Top
  <1>4. PICK x \in Nat : x = sp - Top.base
    BY <1>2
  <1>5. Top.tries \in Seq(Nat) /\ Len(Top.tries) \in Nat
    BY <1>2 DEF Frame
  <1>6. PICK nh \in Handler : nh = [fc |-> n, sc |-> sp, level |-> Len(Top.tries)]
    <2>1. n \in Nat /\ sp \in Nat /\ Len(Top.tries) \in Nat
      BY <1>2, <1>3, <1>5
    <2>. QED
      BY ONLY <2>1 DEF Handler
  <1>7. PICK ts \in Seq(Nat) : ts = Append(frames[n].tries, x)
    <2>1. frames[n].tries \in Seq(Nat)
      BY <1>3, <1>5
    <2>2. Append(frames[n].tries, x) \in Seq(Nat)
      BY ONLY <2>1, x \in Nat, AppendProperties
    <2>. QED
      BY <2>2
  <1>8. /\ frames' = WithTopTries(frames, ts)
        /\ handlers' = Append(handlers, nh)
    <2>1. frames' = [frames EXCEPT ![n].tries = ts]
      BY <1>2, <1>3, <1>4, <1>7 DEF EnterTry
    <2>2. handlers' = Append(handlers, nh)
      BY <1>3, <1>6 DEF EnterTry
    <2>. QED
      BY <1>3, <2>1, <2>2 DEF WithTopTries
  <1>9. /\ Len(frames') = Len(frames)
        /\ \A i \in 1..Len(frames) : i # n => frames'[i].tries = frames[i].tries
        /\ frames'[n].tries = ts
    <2>1. /\ frames' \in Seq(Frame) /\ Len(frames') = Len(frames)
          /\ \A i \in 1..Len(frames) : frames'[i].base = frames[i].base /\ frames'[i].ret = frames[i].ret
          /\ \A i \in 1..Len(frames) : i # Len(frames) => frames'[i].tries = frames[i].tries
          /\ frames'[Len(frames)].tries = ts
      BY ONLY <1>2, <1>8, ts \in Seq(Nat), TopTries, SMTT(30)
    <2>. QED
      BY <1>3, <2>1
  <1>10. nh.fc = n /\ nh.level = Len(frames[n].tries)
    BY <1>3, <1>6
  <1>11. Handled(frames, handlers)
    BY <1>1 DEF Tried
  <1>12. Handled(frames', Append(handlers, nh))
    <2>1. frames'[n].tries = Append(frames[n].tries, x)
      BY <1>7, <1>9
    <2>. QED
      BY <1>2, <1>9, <1>10, <1>11, <2>1, TryHandled, Zenon
  <1>13. natives' = natives /\ coro' = coro /\ conts' = conts
    BY DEF EnterTry
  <1>. QED
    BY <1>8, <1>12, <1>13 DEF Tried

(* OP_POP_HANDLER: the handler that goes is the top frame's last.          *)
LEMMA LeaveTryTried ==
  ASSUME IInv, Tried, LeaveTry
  PROVE  Tried'
  <1>1. Running /\ status = "run" /\ Anchored /\ Top.tries # <<>>
    BY DEF LeaveTry, Running
  <1>2. /\ frames \in Seq(Frame) /\ frames # <<>> /\ handlers \in Seq(Handler)
        /\ HandlersNested(frames, handlers) /\ Handled(frames, handlers)
        /\ Depth \in 1..Depth /\ Top \in Frame
    BY <1>1, InLoop DEF WellFormed, Tried
  <1>3. PICK n \in 1..Len(frames) : n = Len(frames) /\ Depth = n /\ Top = frames[n]
    BY <1>2 DEF Depth, Top
  <1>4. /\ handlers # <<>> /\ Last(handlers).fc = n
        /\ Last(handlers).level = Len(frames[n].tries) - 1
    BY <1>1, <1>2, <1>3, TryNeedsHandler
  <1>5. PICK ts \in Seq(Nat) : /\ ts = AllButLast(frames[n].tries)
                               /\ Len(ts) = Len(frames[n].tries) - 1
    <2>1. frames[n].tries \in Seq(Nat) /\ frames[n].tries # <<>>
      BY <1>1, <1>2, <1>3, FrameAt
    <2>. QED
      BY <2>1, ButLastIsCut
  <1>6. frames' = WithTopTries(frames, ts) /\ handlers' = AllButLast(handlers)
    <2>1. frames' = [frames EXCEPT ![n].tries = ts]
      BY <1>2, <1>3, <1>5 DEF LeaveTry
    <2>2. handlers' = AllButLast(handlers)
      BY <1>4 DEF LeaveTry
    <2>. QED
      BY <1>3, <2>1, <2>2 DEF WithTopTries
  <1>7. /\ Len(frames') = n
        /\ \A i \in 1..n : i # n => frames'[i].tries = frames[i].tries
        /\ Len(frames'[n].tries) = Last(handlers).level
    <2>1. /\ frames' \in Seq(Frame) /\ Len(frames') = Len(frames)
          /\ \A i \in 1..Len(frames) : frames'[i].base = frames[i].base /\ frames'[i].ret = frames[i].ret
          /\ \A i \in 1..Len(frames) : i # Len(frames) => frames'[i].tries = frames[i].tries
          /\ frames'[Len(frames)].tries = ts
      BY ONLY <1>2, <1>6, ts \in Seq(Nat), TopTries, SMTT(30)
    <2>. QED
      BY <1>3, <1>4, <1>5, <2>1
  <1>8. Handled(frames', AllButLast(handlers))
    BY <1>2, <1>4, <1>7, TryLeft
  <1>9. natives' = natives /\ coro' = coro /\ conts' = conts
    BY DEF LeaveTry
  <1>. QED
    BY <1>6, <1>8, <1>9 DEF Tried

(* What OP_THROW does when it finds a handler: it belongs to the innermost *)
(* try of frame f, which is left.                                          *)
LEMMA CatchLands ==
  ASSUME IInv, Tried, Catch
  PROVE  /\ status = "run" /\ Anchored
         /\ frames \in Seq(Frame) /\ handlers \in Seq(Handler) /\ handlers # <<>>
         /\ HandlersNested(frames, handlers) /\ Handled(frames, handlers)
         /\ handlers' = AllButLast(handlers)
         /\ \E f \in 1..Depth :
              /\ f = Last(handlers).fc
              /\ frames[f].tries # <<>>
              /\ \A j \in f + 1..Depth : frames[j].tries = <<>>
              /\ frames' \in Seq(Frame) /\ Len(frames') = f
              /\ \A i \in 1..f : frames'[i].base = frames[i].base
              /\ \A i \in 1..f : i # f => frames'[i] = frames[i]
              /\ frames'[f].tries = AllButLast(frames[f].tries)
              /\ Len(frames'[f].tries) = Last(handlers).level
              /\ sp' = frames[f].base + Last(frames[f].tries) + 1
  <1>1. /\ Running /\ status = "run" /\ Anchored /\ handlers # <<>>
        /\ handlers' = AllButLast(handlers)
    BY DEF Catch, Running
  <1>2. /\ frames \in Seq(Frame) /\ handlers \in Seq(Handler) /\ Depth = Len(frames)
        /\ HandlersNested(frames, handlers) /\ Handled(frames, handlers) /\ Depth \in Nat
    BY <1>1, InLoop DEF WellFormed, Tried, Depth
  <1>3. PICK f \in 1..Len(frames) :
           /\ f = Last(handlers).fc
           /\ Last(handlers).level = Len(frames[f].tries) - 1
           /\ \A j \in f + 1..Len(frames) : frames[j].tries = <<>>
    BY <1>1, <1>2, LastHandlerInnermost
  <1>4. PICK v \in Nat : /\ v = Last(handlers).level
                         /\ Last(handlers).sc = frames[f].base + frames[f].tries[v + 1]
    <2>1. Len(handlers) \in 1..Len(handlers) /\ Last(handlers) = handlers[Len(handlers)]
      BY <1>1, <1>2, LastOf
    <2>2. Last(handlers).level \in Nat
      BY <1>2, <2>1, HandlerAt
    <2>3. Last(handlers).sc = frames[f].base + frames[f].tries[Last(handlers).level + 1]
      BY <1>2, <1>3, <2>1 DEF HandlersNested
    <2>. QED
      BY <2>2, <2>3
  <1>5. PICK us \in Seq(Nat) : us = frames[f].tries
    BY <1>2, FrameAt
  <1>6. Len(us) = v + 1 /\ us # <<>> /\ v \in 0..Len(us) /\ v \in 0..v + 1
    <2>1. Len(us) \in Nat /\ v = Len(us) - 1
      BY <1>3, <1>4, <1>5, LenProperties
    <2>2. Len(us) = v + 1 /\ v \in 0..Len(us)
      BY <2>1
    <2>. QED
      BY <2>2, EmptySeq
  <1>7. PICK ts \in Seq(Nat) : ts = AllButLast(us) /\ Len(ts) = v /\ ts = SubSeq(us, 1, v)
    <2>1. Len(us) - 1 = v
      BY <1>6
    <2>. QED
      BY <1>6, <2>1, ButLastIsCut
  <1>8. PICK fs \in Seq(Frame) : /\ fs = SubSeq(frames, 1, f) /\ Len(fs) = f
                                 /\ \A i \in 1..f : fs[i] = frames[i]
    <2>1. f \in 0..Len(frames)
      OBVIOUS
    <2>2. /\ SubSeq(frames, 1, f) \in Seq(Frame) /\ Len(SubSeq(frames, 1, f)) = f
          /\ \A i \in 1..f : SubSeq(frames, 1, f)[i] = frames[i]
      BY ONLY <1>2, <2>1, Cut
    <2>. QED
      BY ONLY <2>2
  <1>9. fs # <<>>
    <2>1. Len(fs) # 0
      BY <1>8
    <2>. QED
      BY <2>1, EmptySeq
  <1>10. frames' = WithTopTries(fs, ts)
    <2>1. First(frames, f) = fs
      BY <1>2, <1>8 DEF First
    <2>2. First(fs[Len(fs)].tries, v) = ts
      <3>1. fs[Len(fs)].tries = us
        BY <1>5, <1>8
      <3>2. v < Len(us)
        BY <1>6
      <3>. QED
        BY <1>7, <3>1, <3>2 DEF First
    <2>. QED
      BY <1>3, <1>4, <2>1, <2>2 DEF Catch, WithTopTries
  <1>11. /\ frames' \in Seq(Frame) /\ Len(frames') = Len(fs)
         /\ \A i \in 1..Len(fs) : frames'[i].base = fs[i].base /\ frames'[i].ret = fs[i].ret
         /\ \A i \in 1..Len(fs) : i # Len(fs) => frames'[i].tries = fs[i].tries
         /\ frames'[Len(fs)].tries = ts
    <2>1. PICK gs : gs = WithTopTries(fs, ts)
      OBVIOUS
    <2>2. /\ gs \in Seq(Frame) /\ Len(gs) = Len(fs)
          /\ \A i \in 1..Len(fs) : gs[i].base = fs[i].base /\ gs[i].ret = fs[i].ret
          /\ \A i \in 1..Len(fs) : i # Len(fs) => gs[i].tries = fs[i].tries
          /\ gs[Len(fs)].tries = ts
      BY ONLY fs \in Seq(Frame), ts \in Seq(Nat), <1>9, <2>1, TopTries, SMTT(30)
    <2>. QED
      BY ONLY <1>10, <2>1, <2>2
  <1>12. \A i \in 1..f : i # f => frames'[i] = frames[i]
    <2>1. \A i \in 1..Len(fs) : i # Len(fs) => frames'[i] = fs[i]
      BY <1>10, BelowTop
    <2>. QED
      BY <1>8, <2>1
  <1>13. sp' = frames[f].base + Last(us) + 1
    <2>1. Last(us) = us[v + 1]
      BY <1>6 DEF Last
    <2>2. sp' = Last(handlers).sc + 1
      BY DEF Catch
    <2>. QED
      BY <1>4, <1>5, <2>1, <2>2
  <1>14. /\ Len(frames') = f /\ \A i \in 1..f : frames'[i].base = frames[i].base
         /\ frames'[f].tries = ts
    BY <1>8, <1>11
  <1>. QED
    BY <1>1, <1>2, <1>3, <1>4, <1>5, <1>6, <1>7, <1>11, <1>12, <1>13, <1>14

(* OP_THROW caught.                                                        *)
LEMMA CatchTried ==
  ASSUME IInv, Tried, Catch
  PROVE  Tried'
  <1>1. PICK f \in 1..Depth :
              /\ f = Last(handlers).fc
              /\ frames' \in Seq(Frame) /\ Len(frames') = f
              /\ \A i \in 1..f : i # f => frames'[i] = frames[i]
              /\ Len(frames'[f].tries) = Last(handlers).level
    BY CatchLands
  <1>2. /\ frames \in Seq(Frame) /\ handlers \in Seq(Handler) /\ handlers # <<>>
        /\ HandlersNested(frames, handlers) /\ Handled(frames, handlers)
        /\ handlers' = AllButLast(handlers)
    BY CatchLands
  <1>3. Handled(frames', AllButLast(handlers))
    BY <1>1, <1>2, TryLeft
  <1>4. natives' = natives /\ coro' = coro /\ conts' = conts
    BY DEF Catch
  <1>. QED
    BY <1>2, <1>3, <1>4 DEF Tried

-----------------------------------------------------------------------------
(* OP_CALL of a closure.                                                   *)
LEMMA CallTried ==
  ASSUME IInv, Tried, NEW c \in Callable, NEW k \in Args, Call(c, k)
  PROVE  Tried'
  <1>1. Running /\ status = "run" /\ Anchored /\ sp >= Floor + k + 1 /\ conts' = conts
    BY DEF Call, Running
  <1>2. /\ frames \in Seq(Frame) /\ handlers \in Seq(Handler)
        /\ sp \in Nat /\ Floor \in Nat /\ c \in Closures /\ k \in Nat
        /\ coro \in CoroType
    BY <1>1, InLoop, ControlAssumption DEF Callable, IInv, TypeOK, CoroType
  <1>3. PICK b \in Nat : b = sp - (k + 1)
    <2>1. sp - (k + 1) \in Nat
      BY <1>1, <1>2
    <2>. QED
      BY <2>1
  <1>4. Handled(frames, handlers) /\ CoroHandled(coro)
    BY <1>1 DEF Tried
  <1>5. CASE Enter(frames, handlers, coro, c, b) /\ natives' = natives
    <2>1. Handled(frames', handlers') /\ CoroHandled(coro')
      BY <1>2, <1>4, <1>5, EnterHandled
    <2>. QED
      BY <1>1, <1>5, <2>1 DEF Tried
  <1>6. CASE /\ EndLoop("error", frames, handlers, FailHeight(frames, coro, c, b, sp))
             /\ coro' = coro
    <2>1. natives' = natives /\ (Anchored' => Handled(frames', handlers'))
      BY <1>1, <1>4, <1>6, LoopTried
    <2>. QED
      BY <1>1, <1>6, <2>1 DEF Tried
  <1>. QED
    BY <1>3, <1>5, <1>6 DEF Call

(* Instructions after which a loop goes on, or ends, without an activation *)
(* having been saved: a prefix of the frames, with their handlers.         *)
LEMMA DropTried ==
  ASSUME IInv, Tried, status = "run", Anchored, NEW n \in Nat, n <= Depth,
         NEW k, IsTrim(handlers, n, k), NEW r, NEW s,
         \/ EndLoop(r, SubSeq(frames, 1, n), SubSeq(handlers, 1, k), s)
         \/ StayInLoop(SubSeq(frames, 1, n), SubSeq(handlers, 1, k), s),
         conts' = conts, CoroHandled(coro')
  PROVE  Tried'
  <1>1. Handled(SubSeq(frames, 1, n), SubSeq(handlers, 1, k))
    BY DropHandled
  <1>2. natives' = natives /\ (Anchored' => Handled(frames', handlers'))
    BY <1>1, LoopTried
  <1>. QED
    BY <1>2 DEF Tried

(* OP_RETURN, to a caller or into a continuation.                          *)
LEMMA ReturnTried ==
  ASSUME IInv, Tried, Return
  PROVE  Tried'
  <1>1. status = "run" /\ Anchored /\ conts' = conts /\ coro' = coro
    BY DEF Return, Running
  <1>2. /\ frames \in Seq(Frame) /\ Depth \in Nat /\ Depth >= 1 /\ Depth \in 1..Depth
        /\ Depth = Len(frames) /\ Top = frames[Depth] /\ Top \in Frame
    BY <1>1, InLoop DEF Depth, Top
  <1>3. CASE Top.ret # 0
    <2>1. Top.ret \in 1..Len(conts)
      <3>1. Top.ret \in Nat
        BY <1>2 DEF Frame
      <3>2. Top.ret <= Len(conts) /\ Len(conts) \in Nat
        BY <1>2, HeldFacts DEF RetsMade
      <3>. QED
        BY <1>3, <3>1, <3>2
    <2>2. PICK i \in 1..Len(conts) : i = Top.ret
      BY <2>1
    <2>3. Handled(conts[i].frames, conts[i].handlers)
      BY DEF Tried, ContsHandled
    <2>4. StayInLoop(conts[i].frames, conts[i].handlers, conts[i].sp + 1)
      BY <1>3, <2>2 DEF Return
    <2>5. natives' = natives /\ (Anchored' => Handled(frames', handlers'))
      BY <1>1, <2>3, <2>4, LoopTried
    <2>. QED
      BY <1>1, <2>5 DEF Tried
  <1>4. CASE Top.ret = 0
    <2>1. PICK k \in 0..Len(handlers) :
             /\ IsTrim(handlers, Depth - 1, k)
             /\ \/ EndLoop("ok", AllButLast(frames), SubSeq(handlers, 1, k), Top.base + 1)
                \/ StayInLoop(AllButLast(frames), SubSeq(handlers, 1, k), Top.base + 1)
      BY <1>4 DEF Return
    <2>2. PICK n \in Nat : n = Depth - 1 /\ n <= Depth
      BY <1>2
    <2>3. AllButLast(frames) = SubSeq(frames, 1, n)
      BY <1>2, <2>2 DEF AllButLast
    <2>4. CoroHandled(coro')
      BY <1>1 DEF Tried
    <2>. QED
      BY <1>1, <2>1, <2>2, <2>3, <2>4, DropTried
  <1>. QED
    BY <1>3, <1>4

(* OP_INLINE_RETURN.                                                       *)
LEMMA InlineReturnTried ==
  ASSUME IInv, Tried, InlineReturn
  PROVE  Tried'
  <1>1. status = "run" /\ Anchored /\ conts' = conts
    BY DEF InlineReturn, Running
  <1>2. PICK r \in 1..Depth, k \in 0..Len(handlers) :
           /\ IsTrim(handlers, r - 1, k)
           /\ coro' = [coro EXCEPT ![frames[r].cl] = None]
           /\ \/ EndLoop("ok", SubSeq(frames, 1, r - 1), SubSeq(handlers, 1, k),
                         frames[r].base + 1)
              \/ StayInLoop(SubSeq(frames, 1, r - 1), SubSeq(handlers, 1, k),
                            frames[r].base + 1)
    BY DEF InlineReturn
  <1>3. PICK n \in Nat : n = r - 1 /\ n <= Depth
    <2>1. Depth \in Nat
      BY <1>1, InLoop
    <2>. QED
      BY <2>1
  <1>4. coro \in CoroType /\ CoroHandled(coro)
    BY DEF Tried, IInv, TypeOK, CoroType
  <1>5. CoroHandled(coro')
    BY <1>2, <1>4, ForgottenHandled
  <1>. QED
    BY <1>1, <1>2, <1>3, <1>5, DropTried

(* OP_YIELD.                                                               *)
LEMMA YieldTried ==
  ASSUME IInv, Tried, Yield
  PROVE  Tried'
  <1>1. status = "run" /\ Anchored /\ conts' = conts
    BY DEF Yield, Running
  <1>2. PICK r \in 1..Depth, k \in 0..Len(handlers), m \in 0..Len(handlers) :
           /\ IsRoot(frames, r)
           /\ IsTrim(handlers, r - 1, k)
           /\ IsSplit(handlers, r - 1, m)
           /\ coro' = [coro EXCEPT ![frames[r].cl] =
                         Capture(frames, handlers, r, m, sp - 1, FALSE)]
           /\ \/ EndLoop("ok", SubSeq(frames, 1, r - 1), SubSeq(handlers, 1, k),
                         frames[r].base + 1)
              \/ StayInLoop(SubSeq(frames, 1, r - 1), SubSeq(handlers, 1, k),
                            frames[r].base + 1)
    BY DEF Yield
  <1>3. PICK n \in Nat : n = r - 1 /\ n <= Depth
    <2>1. Depth \in Nat
      BY <1>1, InLoop
    <2>. QED
      BY <2>1
  <1>4. coro' \in CoroType
    <2>1. IInv'
      BY YieldStep
    <2>. QED
      BY <2>1 DEF IInv, TypeOK, CoroType
  <1>5. CoroHandled(coro')
    BY <1>1, <1>2, <1>4, CapturedHandled
  <1>. QED
    BY <1>1, <1>2, <1>3, <1>5, DropTried

(* An abort or an exit taken at the end of an instruction.                 *)
LEMMA UnwindTried ==
  ASSUME IInv, Tried, Unwind
  PROVE  Tried'
  <1>. DEFINE wanted == IF abort = "exit" THEN Target ELSE Depth - 1
              n      == IF wanted < Depth THEN wanted ELSE Depth
              slot   == IF n < Depth THEN frames[n + 1].base ELSE Top.base
  <1>1. status = "run" /\ Anchored /\ conts' = conts /\ coro' = coro
    BY DEF Unwind
  <1>2. PICK k \in 0..Len(handlers) :
           /\ IsTrim(handlers, n, k)
           /\ \/ EndLoop("ok", SubSeq(frames, 1, n), SubSeq(handlers, 1, k), slot + 1)
              \/ StayInLoop(SubSeq(frames, 1, n), SubSeq(handlers, 1, k), slot + 1)
    BY DEF Unwind
  <1>3. Depth \in Nat /\ Depth >= 1 /\ Target \in Nat
    BY <1>1, InLoop
  <1>4. n \in Nat /\ n <= Depth
    BY <1>3
  <1>5. CoroHandled(coro')
    BY <1>1 DEF Tried
  <1>. HIDE DEF n, slot
  <1>. QED
    BY <1>1, <1>2, <1>4, <1>5, DropTried

(* OP_CALL of a continuation: one context saved, another put back.         *)
LEMMA CallContinuationTried ==
  ASSUME IInv, Tried, NEW i \in 1..Len(conts), NEW k \in Args, CallContinuation(i, k)
  PROVE  Tried'
  <1>. DEFINE cn == conts[i]
              cx == Snapshot(sp - (k + 1), None, 0)
              gs == [cn.frames EXCEPT ![cn.resume].ret = Len(conts) + 1]
  <1>1. /\ Running /\ status = "run" /\ Anchored /\ cn.resume # 0
        /\ conts' = Append(conts, cx)
        /\ \/ coro' = coro
           \/ coro' = [coro EXCEPT ![cn.owner] = None]
        /\ frames' = gs /\ handlers' = cn.handlers /\ natives' = natives
        /\ sp >= Floor + k + 1
    BY DEF CallContinuation, Running
  <1>2. /\ frames \in Seq(Frame) /\ handlers \in Seq(Handler)
        /\ coro \in CoroType /\ CoroHandled(coro) /\ Handled(frames, handlers)
        /\ conts \in Seq(Continuation) /\ ContsHandled(conts)
        /\ sp \in Nat /\ Floor \in Nat /\ k \in Nat /\ Len(conts) \in Nat
    BY <1>1, InLoop, HeldFacts, ControlAssumption DEF Tried, IInv, TypeOK, CoroType
  <1>3. sp - (k + 1) \in Nat
    BY <1>1, <1>2
  <1>4. cx \in Continuation /\ cx.frames = frames /\ cx.handlers = handlers
    BY <1>2, <1>3 DEF Snapshot, Continuation
  <1>. HIDE DEF cx
  <1>5. ContsHandled(conts')
    BY <1>1, <1>2, <1>4, ContsGrow
  <1>6. CoroHandled(coro')
    BY <1>1, <1>2, ForgottenHandled
  <1>7. /\ cn.frames \in Seq(Frame) /\ cn.resume \in 1..Len(cn.frames)
        /\ Handled(cn.frames, cn.handlers)
    <2>1. cn \in Continuation
      BY <1>2
    <2>2. cn.frames \in Seq(Frame) /\ Len(cn.frames) \in Nat
      BY <2>1, ContAt, LenProperties
    <2>3. cn.resume \in 0..Len(cn.frames)
      BY DEF IInv, ContinuationsSound
    <2>. QED
      BY <1>1, <1>2, <2>2, <2>3 DEF ContsHandled
  <1>. HIDE DEF cn
  <1>8. Len(gs) = Len(cn.frames) /\ \A j \in 1..Len(cn.frames) : gs[j].tries = cn.frames[j].tries
    <2>1. PICK fs \in Seq(Frame), r \in 1..Len(cn.frames), x \in Nat :
             fs = cn.frames /\ r = cn.resume /\ x = Len(conts) + 1
      BY <1>2, <1>7
    <2>2. gs = WithRet(fs, r, x)
      BY <2>1 DEF WithRet
    <2>. HIDE DEF gs
    <2>3. /\ gs \in Seq(Frame) /\ Len(gs) = Len(fs)
          /\ \A j \in 1..Len(fs) : gs[j].base = fs[j].base /\ gs[j].tries = fs[j].tries
          /\ \A j \in 1..Len(fs) : j # r => gs[j].ret = fs[j].ret
          /\ gs[r].ret = x
      BY <2>1, <2>2, RetReplaced
    <2>. QED
      BY <2>1, <2>3
  <1>. HIDE DEF gs
  <1>9. Handled(gs, cn.handlers)
    BY <1>7, <1>8, SameTries
  <1>. QED
    BY <1>1, <1>5, <1>6, <1>9 DEF Tried

(* OP_CALLCC.                                                              *)
LEMMA CallCCTried ==
  ASSUME IInv, Tried, NEW hd \in Callable \cup {None}, CallCC(hd)
  PROVE  Tried'
  <1>1. Running /\ status = "run" /\ Anchored /\ sp > Floor
    BY DEF CallCC, Running
  <1>2. PICK r \in 1..Depth, k \in 0..Len(handlers), m \in 0..Len(handlers) :
        LET b  == frames[r].base
            fs == SubSeq(frames, 1, r - 1)
            hs == SubSeq(handlers, 1, k)
            co == [coro EXCEPT ![frames[r].cl] =
                     Capture(frames, handlers, r, m, sp - 1, TRUE)]
        IN
        /\ IsRoot(frames, r)
        /\ IsTrim(handlers, r - 1, k)
        /\ IsSplit(handlers, r - 1, m)
        /\ conts' = Append(conts, Snapshot(sp - 1, frames[r].cl, r))
        /\ \/ /\ hd = None
              /\ StayInLoop(fs, hs, b + 1)
              /\ coro' = co
              /\ abort' = abort
           \/ /\ hd # None
              /\ CanEnter(fs, hs, co, hd, b)
              /\ Enter(fs, hs, co, hd, b)
              /\ UNCHANGED <<natives, targets, status>>
           \/ /\ hd # None
              /\ ~CanEnter(fs, hs, co, hd, b)
              /\ EndLoop("error", fs, hs, FailHeight(fs, co, hd, b, b + 2))
              /\ coro' = co
              /\ abort' = abort
    BY DEF CallCC
  <1>. DEFINE b  == frames[r].base
              fs == SubSeq(frames, 1, r - 1)
              hs == SubSeq(handlers, 1, k)
              sv == Capture(frames, handlers, r, m, sp - 1, TRUE)
              co == [coro EXCEPT ![frames[r].cl] = sv]
              cx == Snapshot(sp - 1, frames[r].cl, r)
  <1>3. /\ IsRoot(frames, r) /\ IsTrim(handlers, r - 1, k) /\ IsSplit(handlers, r - 1, m)
        /\ conts' = Append(conts, cx)
        /\ \/ StayInLoop(fs, hs, b + 1) /\ coro' = co
           \/ /\ hd # None /\ Enter(fs, hs, co, hd, b)
              /\ UNCHANGED <<natives, targets, status>>
           \/ /\ EndLoop("error", fs, hs, FailHeight(fs, co, hd, b, b + 2))
              /\ coro' = co
    BY <1>2
  <1>4. /\ frames \in Seq(Frame) /\ handlers \in Seq(Handler)
        /\ sp \in Nat /\ Floor \in Nat /\ Depth = Len(frames) /\ Depth \in Nat
        /\ conts \in Seq(Continuation) /\ coro \in CoroType /\ CoroHandled(coro)
        /\ Handled(frames, handlers) /\ ContsHandled(conts)
    BY <1>1, InLoop, HeldFacts DEF IInv, TypeOK, Depth, Tried, CoroType
  <1>5. /\ fs \in Seq(Frame) /\ hs \in Seq(Handler) /\ b \in Nat
        /\ frames[r].cl \in Closures
    BY <1>1, <1>3, DroppedFrom
  <1>6. co \in CoroType
    <2>1. sv \in Saved
      BY <1>1, <1>3, CapturedSound
    <2>. HIDE DEF sv
    <2>. QED
      BY <1>4, <2>1 DEF CoroType
  <1>7. CoroHandled(co)
    <2>1. PICK cc \in CoroType : cc = co
      BY <1>6
    <2>2. CoroHandled(cc)
      BY <1>1, <1>3, <2>1, CapturedHandled
    <2>. QED
      BY <2>1, <2>2
  <1>8. Handled(fs, hs)
    <2>1. PICK n \in Nat : n = r - 1 /\ n <= Depth
      BY <1>4
    <2>. QED
      BY <1>1, <1>3, <2>1, DropHandled
  <1>9. ContsHandled(conts')
    <2>1. sp - 1 \in Nat /\ r \in Nat
      BY <1>1, <1>4
    <2>2. cx \in Continuation /\ cx.frames = frames /\ cx.handlers = handlers
      BY <1>4, <1>5, <2>1 DEF Snapshot, Continuation
    <2>. HIDE DEF cx
    <2>. QED
      BY <1>3, <1>4, <2>2, ContsGrow
  <1>. HIDE DEF b, fs, hs, sv, co, cx
  <1>10. CASE hd # None /\ Enter(fs, hs, co, hd, b) /\ UNCHANGED <<natives, targets, status>>
    <2>1. hd \in Closures
      BY <1>10 DEF Callable
    <2>2. Handled(frames', handlers') /\ CoroHandled(coro')
      BY <1>5, <1>6, <1>7, <1>8, <1>10, <2>1, EnterHandled
    <2>. QED
      BY <1>9, <1>10, <2>2 DEF Tried
  <1>11. CASE /\ \/ StayInLoop(fs, hs, b + 1)
                 \/ EndLoop("error", fs, hs, FailHeight(fs, co, hd, b, b + 2))
              /\ coro' = co
    <2>1. PICK t : StayInLoop(fs, hs, t) \/ EndLoop("error", fs, hs, t)
      BY <1>11
    <2>2. natives' = natives /\ (Anchored' => Handled(frames', handlers'))
      BY <1>1, <1>8, <2>1, LoopTried
    <2>. QED
      BY <1>7, <1>9, <1>11, <2>2 DEF Tried
  <1>. QED
    BY <1>3, <1>10, <1>11

(* The natives in progress, one more or one less.                          *)
LEMMA NativesGrow ==
  ASSUME NEW ns \in Seq(Native), NativesHandled(ns), NEW nt \in Native,
         Handled(nt.caller, nt.hs)
  PROVE  NativesHandled(Append(ns, nt))
  <1>. DEFINE n  == Len(ns)
              ms == Append(ns, nt)
  <1>1. /\ n \in Nat /\ Len(ms) = n + 1 /\ ms[n + 1] = nt
        /\ \A i \in 1..n : ms[i] = ns[i]
    BY AppendProperties, LenProperties
  <1>2. \A i \in 1..n + 1 : i \in 1..n \/ i = n + 1
    BY <1>1
  <1>. HIDE DEF ms
  <1>3. NativesHandled(ms)
    BY <1>1, <1>2 DEF NativesHandled
  <1>. QED
    BY <1>3 DEF ms

(* OP_CALL of a native.                                                    *)
LEMMA CallNativeTried ==
  ASSUME IInv, Tried, NEW k \in Args, NEW q \in Roots, NEW g \in BOOLEAN, CallNative(k, q, g)
  PROVE  Tried'
  <1>1. /\ Running /\ status = "run" /\ Anchored /\ sp >= Floor + k + 1
        /\ natives' = Append(natives, [base |-> sp - (k + 1), sp |-> sp + q,
                                       caller |-> frames, hs |-> handlers,
                                       guarded |-> g])
        /\ UNCHANGED <<frames, handlers, coro, conts>>
    BY DEF CallNative, Running
  <1>2. /\ frames \in Seq(Frame) /\ handlers \in Seq(Handler) /\ Handled(frames, handlers)
        /\ sp \in Nat /\ Floor \in Nat /\ k \in Nat /\ q \in Nat
        /\ natives \in Seq(Native) /\ NativesHandled(natives)
    BY <1>1, InLoop, ControlAssumption DEF IInv, TypeOK, Tried
  <1>3. PICK b \in Nat, t \in Nat : b = sp - (k + 1) /\ t = sp + q
    <2>1. sp - (k + 1) \in Nat /\ sp + q \in Nat
      BY <1>1, <1>2
    <2>. QED
      BY <2>1
  <1>4. PICK nt \in Native : nt = [base |-> b, sp |-> t, caller |-> frames,
                                   hs |-> handlers, guarded |-> g]
    BY <1>2 DEF Native
  <1>5. NativesHandled(Append(natives, nt))
    BY <1>2, <1>4, NativesGrow
  <1>6. NativesHandled(natives')
    BY <1>1, <1>3, <1>4, <1>5
  <1>. QED
    BY <1>1, <1>6, QuietTried

(* A native returns.                                                       *)
LEMMA NativeReturnsTried ==
  ASSUME IInv, Tried, NEW a, NativeReturns(a)
  PROVE  Tried'
  <1>1. /\ InNative /\ Anchored /\ natives' = AllButLast(natives)
        /\ UNCHANGED <<frames, handlers, coro, conts>>
    BY DEF NativeReturns, InNative
  <1>2. /\ natives # <<>> /\ natives \in Seq(Native) /\ Len(natives) \in Nat
    BY <1>1, InsideNative
  <1>3. /\ Len(natives') = Len(natives) - 1
        /\ \A i \in 1..Len(natives) - 1 : natives'[i] = natives[i] /\ i \in 1..Len(natives)
    BY <1>1, <1>2, ButLastIsCut
  <1>4. NativesHandled(natives')
    BY <1>3 DEF Tried, NativesHandled
  <1>. QED
    BY <1>1, <1>4, QuietTried

(* A native starts a nested loop on a closure.                             *)
LEMMA NativeCallsTried ==
  ASSUME IInv, Tried, NEW c \in Callable, NEW k \in Args, NativeCalls(c, k)
  PROVE  Tried'
  <1>1. /\ InNative /\ Anchored /\ Enter(frames, handlers, coro, c, sp)
        /\ conts' = conts /\ natives' = natives
    BY DEF NativeCalls, InNative
  <1>2. /\ frames \in Seq(Frame) /\ handlers \in Seq(Handler) /\ sp \in Nat
        /\ c \in Closures /\ coro \in CoroType /\ CoroHandled(coro)
        /\ Handled(frames, handlers)
    BY <1>1, InsideNative DEF Callable, IInv, TypeOK, Tried, CoroType
  <1>3. Handled(frames', handlers') /\ CoroHandled(coro')
    BY <1>1, <1>2, EnterHandled
  <1>. QED
    BY <1>1, <1>3 DEF Tried

(* Instructions and steps of natives that change no frame and no handler.  *)
LEMMA QuietSteps ==
  ASSUME IInv, Tried,
         \/ \E k \in Args : CallToNull(k)
         \/ PushOperand \/ PopOperand \/ AssertFails
         \/ \E k \in Args : NativeCallsToNull(k)
         \/ \E c \in Callable, k \in Args : NativeCallFails(c, k)
  PROVE  Tried'
  <1>1. /\ Anchored /\ UNCHANGED <<frames, handlers, coro, conts>>
        /\ natives' = natives
    BY DEF CallToNull, PushOperand, PopOperand, AssertFails, NativeCallsToNull,
           NativeCallFails, Running, InNative
  <1>2. NativesHandled(natives')
    BY <1>1 DEF Tried
  <1>. QED
    BY <1>1, <1>2, QuietTried

(* A dispatch loop that ends with its frames as they are.                  *)
LEMMA StopTried ==
  ASSUME IInv, Tried, ThrowUncaught \/ \E r \in Finished : Stop(r)
  PROVE  Tried'
  <1>1. PICK r, s : /\ status = "run" /\ Anchored
                    /\ EndLoop(r, frames, handlers, s)
                    /\ coro' = coro /\ conts' = conts
    BY DEF ThrowUncaught, Stop, Running
  <1>2. Handled(frames, handlers)
    BY <1>1 DEF Tried
  <1>3. natives' = natives /\ (Anchored' => Handled(frames', handlers'))
    BY <1>1, <1>2, LoopTried
  <1>. QED
    BY <1>1, <1>3 DEF Tried

(* The first frame is inside of no try.                                    *)
LEMMA FirstHandled == Handled(<<NewFrame(Main, 0)>>, <<>>)
  <1>1. NewFrame(Main, 0).tries = <<>> /\ Len(<<>>) = 0 /\ 1..0 = {}
    BY DEF NewFrame
  <1>. DEFINE fr == NewFrame(Main, 0)
  <1>. HIDE DEF fr
  <1>2. Len(<<fr>>) = 1 /\ <<fr>>[1] = fr /\ \A i \in 1..1 : i = 1
    OBVIOUS
  <1>3. Handled(<<fr>>, <<>>)
    BY <1>1, <1>2 DEF Handled, fr
  <1>. QED
    BY <1>3 DEF fr

(* A script starts, the first one                                          *)
LEMMA InitTried == Init => Tried
  <1>. SUFFICES ASSUME Init PROVE Tried
    OBVIOUS
  <1>1. /\ frames = <<NewFrame(Main, 0)>> /\ handlers = <<>> /\ natives = <<>>
        /\ coro = [c \in Closures |-> None] /\ conts = <<>>
    BY DEF Init, Start
  <1>2. NativesHandled(natives) /\ CoroHandled(coro) /\ ContsHandled(conts)
    BY <1>1, EmptySeq DEF NativesHandled, CoroHandled, ContsHandled
  <1>. QED
    BY <1>1, <1>2, FirstHandled DEF Tried

(* or a later one in the same VM.                                          *)
LEMMA InterpretTried ==
  ASSUME IInv, Tried, Interpret
  PROVE  Tried'
  <1>. DEFINE n == Len(conts)
  <1>1. /\ frames' = <<NewFrame(Main, 0)>> /\ handlers' = <<>> /\ natives' = <<>>
        /\ coro' = [coro EXCEPT ![Main] = None]
        /\ conts' = [i \in 1..n |-> IF conts[i].owner = Main
                                    THEN [conts[i] EXCEPT !.owner = None] ELSE conts[i]]
    BY DEF Interpret
  <1>2. conts \in Seq(Continuation) /\ n \in Nat /\ ContsHandled(conts)
        /\ coro \in CoroType /\ CoroHandled(coro)
    BY HeldFacts DEF Tried, IInv, TypeOK, CoroType
  <1>3. ASSUME NEW i \in 1..n
        PROVE  /\ conts'[i].frames = conts[i].frames
               /\ conts'[i].handlers = conts[i].handlers
    <2>1. conts[i] \in Continuation
      BY <1>2
    <2>2. conts'[i] = conts[i] \/ conts'[i] = [conts[i] EXCEPT !.owner = None]
      BY <1>1
    <2>. QED
      BY <2>1, <2>2 DEF Continuation
  <1>4. Len(conts') = n
    BY <1>1, <1>2, LenProperties
  <1>5. ContsHandled(conts')
    BY <1>2, <1>3, <1>4 DEF ContsHandled
  <1>6. CoroHandled(coro')
    BY <1>1, <1>2, ForgottenHandled
  <1>7. NativesHandled(natives')
    BY <1>1, EmptySeq DEF NativesHandled
  <1>. QED
    BY <1>1, <1>5, <1>6, <1>7, FirstHandled DEF Tried

(* No step takes a handler from a try, when every one that is entered gets *)
(* its own.                                                                *)
LEMMA NextTried ==
  ASSUME IInv, Tried, [Next]_vars, [EnterTry => Len(handlers) < MaxHandlers]_vars
  PROVE  Tried'
  <1>0. CASE UNCHANGED vars
    BY <1>0 DEF vars, Tried, Anchored, Depth
  <1>. SUFFICES ASSUME Next, EnterTry => Len(handlers) < MaxHandlers PROVE Tried'
    BY <1>0
  <1>1. CASE Interpret
    BY <1>1, InterpretTried
  <1>2. CASE \E c \in Callable, k \in Args : Call(c, k)
    BY <1>2, CallTried
  <1>3. CASE \E k \in Args : CallToNull(k)
    BY <1>3, QuietSteps
  <1>4. CASE \E i \in 1..Len(conts), k \in Args : CallContinuation(i, k)
    BY <1>4, CallContinuationTried
  <1>5. CASE PushOperand \/ PopOperand
    BY <1>5, QuietSteps
  <1>6. CASE EnterTry \/ LeaveTry \/ Catch
    BY <1>6, EnterTryTried, LeaveTryTried, CatchTried
  <1>7. CASE ThrowUncaught \/ \E r \in Finished : Stop(r)
    BY <1>7, StopTried
  <1>8. CASE AssertFails
    BY <1>8, QuietSteps
  <1>9. CASE Return \/ InlineReturn \/ Yield
    BY <1>9, ReturnTried, InlineReturnTried, YieldTried
  <1>10. CASE \E hd \in Callable \cup {None} : CallCC(hd)
    BY <1>10, CallCCTried
  <1>11. CASE Unwind
    BY <1>11, UnwindTried
  <1>12. CASE \E k \in Args, q \in Roots, g \in BOOLEAN : CallNative(k, q, g)
    BY <1>12, CallNativeTried
  <1>13. CASE \E a \in {"no", "frame", "exit"} : NativeReturns(a)
    BY <1>13, NativeReturnsTried
  <1>14. CASE \E c \in Callable, k \in Args : NativeCalls(c, k)
    BY <1>14, NativeCallsTried
  <1>15. CASE \E k \in Args : NativeCallsToNull(k)
    BY <1>15, QuietSteps
  <1>16. CASE \E c \in Callable, k \in Args : NativeCallFails(c, k)
    BY <1>16, QuietSteps
  <1>. QED
    BY <1>1, <1>2, <1>3, <1>4, <1>5, <1>6, <1>7, <1>8, <1>9, <1>10, <1>11, <1>12,
       <1>13, <1>14, <1>15, <1>16 DEF Next

-----------------------------------------------------------------------------
(* While no handler is dropped, Tried holds.                               *)
THEOREM TriedAlways == Spec /\ HandlersFit => [](IInv /\ Tried)
  <1>1. Init => Tried
    BY InitTried
  <1>2. IInv /\ Tried /\ [Next]_vars /\ [EnterTry => Len(handlers) < MaxHandlers]_vars => Tried'
    BY NextTried
  <1>3. Spec => []IInv
    BY Inductive
  <1>. QED
    BY <1>1, <1>2, <1>3, PTL DEF Spec, HandlersFit

(* A throw in the body of a try cannot pass it by: through calls, returns, *)
(* yields, resumptions, aborts, continuations and natives that call back,  *)
(* every try a live frame is inside of keeps its handler, as long as none  *)
(* was entered with the handler array full.                                *)
THEOREM TriesHaveHandlers == Spec /\ HandlersFit => []EveryTryHasHandler
  <1>1. Tried => EveryTryHasHandler
    BY Zenon DEF Tried, Handled, EveryTryHasHandler, Depth
  <1>. QED
    BY <1>1, TriedAlways, PTL

(* A caught throw lands in the innermost try of the innermost activation   *)
(* that is inside of one, with the operands of that moment and the         *)
(* exception on top.                                                       *)
THEOREM ThrowsReachInnermostTry == Spec /\ HandlersFit => ThrowReachesInnermostTry
  <1>1. ASSUME IInv, Tried, Catch
        PROVE  \E i \in 1..Depth :
                 /\ frames[i].tries # <<>>
                 /\ \A j \in i+1..Depth : frames[j].tries = <<>>
                 /\ Len(frames') = i
                 /\ frames'[i].tries = AllButLast(frames[i].tries)
                 /\ sp' = frames[i].base + Last(frames[i].tries) + 1
    BY <1>1, CatchLands
  <1>2. IInv /\ Tried /\ [Next]_vars =>
          [Catch => \E i \in 1..Depth :
                 /\ frames[i].tries # <<>>
                 /\ \A j \in i+1..Depth : frames[j].tries = <<>>
                 /\ Len(frames') = i
                 /\ frames'[i].tries = AllButLast(frames[i].tries)
                 /\ sp' = frames[i].base + Last(frames[i].tries) + 1]_vars
    BY <1>1, Zenon
  <1>. QED
    BY <1>2, TriedAlways, PTL DEF Spec, ThrowReachesInnermostTry

-----------------------------------------------------------------------------
(***************************************************************************)
(* A context that contains the one native nt was called from: its frames   *)
(* are the lowest, the next one's slots lie above nt's operands, and its   *)
(* handlers are followed by those of later frames only.                    *)
(***************************************************************************)
Over(nt, fs, hs) ==
  /\ Len(nt.caller) < Len(fs)
  /\ \A j \in 1..Len(nt.caller) : fs[j] = nt.caller[j]
  /\ nt.sp <= fs[Len(nt.caller) + 1].base
  /\ Len(nt.hs) <= Len(hs)
  /\ \A j \in 1..Len(nt.hs) : hs[j] = nt.hs[j]
  /\ \A j \in Len(nt.hs) + 1..Len(hs) : hs[j].fc > Len(nt.caller)

(***************************************************************************)
(* Natives were called from contexts on top of one another, the running    *)
(* loop is on top of them all, and the native that goes on finds the       *)
(* handlers it left.                                                       *)
(***************************************************************************)
OnTop(ns) == \A k \in 1..Len(ns) : \A i \in 1..k-1 : Over(ns[i], ns[k].caller, ns[k].hs)

Undisturbed ==
  /\ OnTop(natives)
  /\ status = "run" /\ Anchored =>
       \A i \in 1..Len(natives) : Over(natives[i], frames, handlers)
  /\ status = "native" /\ Anchored => handlers = Last(natives).hs

(* A native that is in progress was called from a well formed context.     *)
LEMMA InProgress ==
  ASSUME IInv, NEW i \in 1..Len(natives)
  PROVE  /\ natives[i] \in Native
         /\ natives[i].caller \in Seq(Frame) /\ natives[i].hs \in Seq(Handler)
         /\ natives[i].sp \in Nat
         /\ Len(natives[i].caller) \in Nat /\ Len(natives[i].hs) \in Nat
         /\ \A j \in 1..Len(natives[i].hs) :
              /\ natives[i].hs[j].fc \in 1..Len(natives[i].caller)
              /\ natives[i].hs[j].fc \in Nat
              /\ natives[i].hs[j].fc <= Len(natives[i].caller)
  <1>1. natives[i] \in Native
    BY DEF IInv, TypeOK
  <1>2. PICK nt \in Native : nt = natives[i]
    BY <1>1
  <1>3. /\ nt.caller \in Seq(Frame) /\ nt.hs \in Seq(Handler) /\ nt.sp \in Nat
        /\ Len(nt.caller) \in Nat /\ Len(nt.hs) \in Nat
    BY NativeAt, LenProperties
  <1>4. HandlersNested(nt.caller, nt.hs)
    BY <1>2 DEF IInv, NativesSound, WellFormed
  <1>5. \A j \in 1..Len(nt.hs) : nt.hs[j].fc \in 1..Len(nt.caller)
    BY <1>4 DEF HandlersNested
  <1>6. \A j \in 1..Len(nt.hs) : nt.hs[j].fc \in Nat /\ nt.hs[j].fc <= Len(nt.caller)
    BY <1>3, <1>5
  <1>. QED
    BY <1>2, <1>3, <1>5, <1>6

(* Frames and handlers put on top of a context.                            *)
LEMMA OverGrows ==
  ASSUME NEW nt, Len(nt.caller) \in Nat, Len(nt.hs) \in Nat,
         NEW fs, NEW hs, Len(fs) \in Nat, Len(hs) \in Nat,
         Over(nt, fs, hs), NEW gs, NEW ks, Len(gs) \in Nat, Len(ks) \in Nat,
         Len(fs) <= Len(gs), \A j \in 1..Len(fs) : gs[j] = fs[j],
         Len(hs) <= Len(ks), \A j \in 1..Len(hs) : ks[j] = hs[j],
         \A j \in Len(hs) + 1..Len(ks) : ks[j].fc \in Nat /\ ks[j].fc > Len(fs)
  PROVE  Over(nt, gs, ks)
  <1>. DEFINE c == Len(nt.caller)
              q == Len(nt.hs)
              n == Len(fs)
              m == Len(hs)
              x == Len(gs)
              y == Len(ks)
  <1>1. /\ c < n /\ q <= m /\ n <= x /\ m <= y
        /\ \A j \in 1..c : fs[j] = nt.caller[j]
        /\ nt.sp <= fs[c + 1].base
        /\ \A j \in 1..q : hs[j] = nt.hs[j]
        /\ \A j \in q + 1..m : hs[j].fc > c
    BY DEF Over
  <1>2. /\ \A j \in 1..n : gs[j] = fs[j]
        /\ \A j \in 1..m : ks[j] = hs[j]
        /\ \A j \in m + 1..y : ks[j].fc \in Nat /\ ks[j].fc > n
    OBVIOUS
  <1>3. c \in Nat /\ q \in Nat /\ n \in Nat /\ m \in Nat /\ x \in Nat /\ y \in Nat
    OBVIOUS
  <1>. HIDE DEF c, q, n, m, x, y
  <1>4. /\ c < x /\ q <= y /\ c + 1 \in 1..n /\ (\A j \in 1..c : j \in 1..n)
        /\ (\A j \in 1..q : j \in 1..m)
        /\ \A j \in q + 1..y : j \in q + 1..m \/ j \in m + 1..y
        /\ \A j \in q + 1..m : j \in 1..m
    BY <1>1, <1>3
  <1>5. \A j \in m + 1..y : ks[j].fc > c
    <2>1. \A a \in Nat : a > n => a > c
      BY <1>1, <1>3
    <2>. QED
      BY <1>2, <2>1
  <1>6. \A j \in q + 1..y : ks[j].fc > c
    BY <1>1, <1>2, <1>4, <1>5
  <1>7. /\ \A j \in 1..c : gs[j] = nt.caller[j]
        /\ nt.sp <= gs[c + 1].base
        /\ \A j \in 1..q : ks[j] = nt.hs[j]
    BY <1>1, <1>2, <1>4
  <1>. QED
    BY <1>4, <1>6, <1>7 DEF Over, c, q, x, y

(* Frames that go, and their handlers, above the native's caller.          *)
LEMMA OverCut ==
  ASSUME IInv, NEW i \in 1..Len(natives), NEW fs \in Seq(Frame), NEW hs \in Seq(Handler),
         Over(natives[i], fs, hs), NEW n \in 0..Len(fs), NEW k, IsTrim(hs, n, k),
         Len(natives[i].caller) < n
  PROVE  Over(natives[i], SubSeq(fs, 1, n), SubSeq(hs, 1, k))
  <1>. DEFINE nt == natives[i]
              c  == Len(nt.caller)
              q  == Len(nt.hs)
              gs == SubSeq(fs, 1, n)
              ks == SubSeq(hs, 1, k)
  <1>1. /\ c \in Nat /\ q \in Nat /\ n \in Nat /\ Len(hs) \in Nat /\ Len(fs) \in Nat
        /\ \A j \in 1..q : nt.hs[j].fc \in Nat /\ nt.hs[j].fc <= c
    BY InProgress, LenProperties
  <1>2. k \in 0..Len(hs) /\ \A j \in k+1..Len(hs) : hs[j].fc > n
    BY DEF IsTrim
  <1>3. Len(gs) = n /\ \A j \in 1..n : gs[j] = fs[j]
    BY Cut
  <1>4. Len(ks) = k /\ \A j \in 1..k : ks[j] = hs[j]
    BY <1>2, Cut
  <1>5. /\ c < n /\ q <= Len(hs)
        /\ \A j \in 1..c : fs[j] = nt.caller[j]
        /\ nt.sp <= fs[c + 1].base
        /\ \A j \in 1..q : hs[j] = nt.hs[j]
        /\ \A j \in q + 1..Len(hs) : hs[j].fc > c
    BY DEF Over
  <1>. HIDE DEF nt, c, q, gs, ks
  <1>6. q <= k
    <2>. SUFFICES ASSUME k < q PROVE FALSE
      BY <1>1, <1>2
    <2>1. k + 1 \in 1..q /\ k + 1 \in k + 1..Len(hs)
      BY <1>1, <1>2, <1>5
    <2>2. hs[k + 1].fc > n /\ hs[k + 1].fc \in Nat /\ hs[k + 1].fc <= c
      BY <1>1, <1>2, <1>5, <2>1
    <2>. QED
      BY <1>1, <1>5, <2>2
  <1>7. /\ c + 1 \in 1..n /\ (\A j \in 1..c : j \in 1..n)
        /\ (\A j \in 1..q : j \in 1..k)
        /\ \A j \in q + 1..k : j \in 1..k /\ j \in q + 1..Len(hs)
    BY <1>1, <1>2, <1>5, <1>6
  <1>8. /\ \A j \in 1..c : gs[j] = nt.caller[j]
        /\ nt.sp <= gs[c + 1].base
        /\ \A j \in 1..q : ks[j] = nt.hs[j]
        /\ \A j \in q + 1..k : ks[j].fc > c
    BY <1>3, <1>4, <1>5, <1>7
  <1>9. Over(nt, gs, ks)
    BY <1>3, <1>4, <1>5, <1>6, <1>8 DEF Over, c, q
  <1>. QED
    BY <1>9 DEF nt, gs, ks

(* The last handler goes, of a frame above the native's caller.            *)
LEMMA OverPopped ==
  ASSUME IInv, NEW i \in 1..Len(natives), NEW fs \in Seq(Frame), NEW hs \in Seq(Handler),
         Over(natives[i], fs, hs), hs # <<>>, Last(hs).fc > Len(natives[i].caller),
         NEW gs \in Seq(Frame), Len(natives[i].caller) < Len(gs), Len(gs) <= Len(fs),
         \A j \in 1..Len(gs) : gs[j].base = fs[j].base,
         \A j \in 1..Len(gs) : j # Len(gs) => gs[j] = fs[j]
  PROVE  Over(natives[i], gs, AllButLast(hs))
  <1>. DEFINE nt == natives[i]
              c  == Len(nt.caller)
              q  == Len(nt.hs)
              m  == Len(hs)
              n  == Len(gs)
              ks == AllButLast(hs)
  <1>1. /\ c \in Nat /\ q \in Nat /\ n \in Nat
        /\ \A j \in 1..q : nt.hs[j].fc \in Nat /\ nt.hs[j].fc <= c
    BY InProgress, LenProperties
  <1>2. /\ m \in Nat /\ m \in 1..m /\ Last(hs) = hs[m] /\ Len(ks) = m - 1
        /\ \A j \in 1..m - 1 : ks[j] = hs[j]
    BY LastOf, ButLastIsCut
  <1>3. /\ q <= m
        /\ \A j \in 1..c : fs[j] = nt.caller[j]
        /\ nt.sp <= fs[c + 1].base
        /\ \A j \in 1..q : hs[j] = nt.hs[j]
        /\ \A j \in q + 1..m : hs[j].fc > c
    BY DEF Over
  <1>4. /\ c < n /\ hs[m].fc > c
        /\ \A j \in 1..n : gs[j].base = fs[j].base
        /\ \A j \in 1..n : j # n => gs[j] = fs[j]
    BY <1>2
  <1>. HIDE DEF nt, c, q, m, n, ks
  <1>5. q <= m - 1
    <2>. SUFFICES ASSUME q = m PROVE FALSE
      BY <1>1, <1>2, <1>3
    <2>1. hs[m].fc \in Nat /\ hs[m].fc <= c
      BY <1>1, <1>2, <1>3
    <2>. QED
      BY <1>1, <1>4, <2>1
  <1>6. /\ c + 1 \in 1..n /\ (\A j \in 1..c : j \in 1..n /\ j # n)
        /\ (\A j \in 1..q : j \in 1..m - 1)
        /\ \A j \in q + 1..m - 1 : j \in 1..m - 1 /\ j \in q + 1..m
    BY <1>1, <1>2, <1>4, <1>5
  <1>7. /\ \A j \in 1..c : gs[j] = nt.caller[j]
        /\ nt.sp <= gs[c + 1].base
        /\ \A j \in 1..q : ks[j] = nt.hs[j]
        /\ \A j \in q + 1..m - 1 : ks[j].fc > c
    BY <1>2, <1>3, <1>4, <1>6
  <1>8. Over(nt, gs, ks)
    BY <1>2, <1>4, <1>5, <1>7 DEF Over, c, q, n
  <1>. QED
    BY <1>8 DEF nt, ks

(* A running loop has a frame above every native's caller.                 *)
LEMMA AboveAll ==
  ASSUME IInv, OnTop(natives), NEW fs \in Seq(Frame),
         Len(fs) > (IF natives = <<>> THEN 0 ELSE Len(Last(natives).caller)),
         NEW i \in 1..Len(natives)
  PROVE  Len(natives[i].caller) < Len(fs)
  <1>1. natives # <<>> /\ natives \in Seq(Native) /\ Len(natives) \in Nat
    BY EmptySeq DEF IInv, TypeOK
  <1>2. PICK k \in 1..Len(natives) : k = Len(natives) /\ Last(natives) = natives[k]
    BY <1>1, LastOf
  <1>3. /\ Len(natives[i].caller) \in Nat /\ Len(natives[k].caller) \in Nat
        /\ Len(fs) \in Nat /\ Len(natives[k].caller) < Len(fs)
    BY <1>1, <1>2, InProgress, LenProperties
  <1>4. CASE i = k
    BY <1>3, <1>4
  <1>5. CASE i # k
    <2>1. i \in 1..k - 1
      BY <1>2, <1>5
    <2>2. Len(natives[i].caller) < Len(natives[k].caller)
      BY <2>1 DEF OnTop, Over
    <2>. QED
      BY <1>3, <2>2
  <1>. QED
    BY <1>4, <1>5

(* A loop that goes on keeps Undisturbed if it leaves the callers alone.   *)
LEMMA LoopUndisturbed ==
  ASSUME IInv, Undisturbed, natives' = natives, status' = "run",
         frames' \in Seq(Frame),
         ASSUME NEW i \in 1..Len(natives), Len(natives[i].caller) < Len(frames')
         PROVE  Over(natives[i], frames', handlers')
  PROVE  Undisturbed'
  <1>1. SUFFICES ASSUME Anchored', NEW i \in 1..Len(natives)
                 PROVE  Over(natives[i], frames', handlers')
    BY DEF Undisturbed
  <1>2. Len(frames') > (IF natives = <<>> THEN 0 ELSE Len(Last(natives).caller))
    BY <1>1 DEF Anchored, Depth
  <1>3. PICK fs \in Seq(Frame) : fs = frames'
    OBVIOUS
  <1>4. OnTop(natives) /\ Len(fs) > (IF natives = <<>> THEN 0 ELSE Len(Last(natives).caller))
    BY <1>2, <1>3 DEF Undisturbed
  <1>5. Len(natives[i].caller) < Len(fs)
    BY <1>4, AboveAll
  <1>. QED
    BY <1>3, <1>5

(* What a running loop has below it.                                       *)
LEMMA RunningOver ==
  ASSUME Undisturbed, status = "run", Anchored, NEW i \in 1..Len(natives)
  PROVE  Over(natives[i], frames, handlers)
  BY DEF Undisturbed

(* A loop that ends gives the native that waits its own handlers back.     *)
LEMMA EndUndisturbed ==
  ASSUME IInv, Undisturbed, status = "run", Anchored, NEW r \in Finished,
         NEW fs, NEW hs, NEW s, EndLoop(r, fs, hs, s),
         natives # <<>> /\ fs = Last(natives).caller => hs = Last(natives).hs
  PROVE  Undisturbed'
  <1>1. natives' = natives
    BY DEF EndLoop
  <1>2. OnTop(natives')
    BY <1>1 DEF Undisturbed
  <1>3. CASE natives = <<>>
    <2>1. status' = r /\ Len(natives') = 0
      BY <1>1, <1>3, EmptySeq DEF EndLoop
    <2>2. status' # "native"
      BY <2>1 DEF Finished
    <2>3. \A i \in 1..Len(natives') : FALSE
      BY <2>1
    <2>. QED
      BY <1>2, <2>2, <2>3 DEF Undisturbed
  <1>4. CASE natives # <<>>
    <2>1. /\ status' = "native"
          /\ \/ Last(natives).guarded
             \/ frames' = fs /\ handlers' = hs
      BY <1>4 DEF EndLoop
    <2>2. Anchored' => handlers' = Last(natives').hs
      BY <1>1, <1>4, <2>1 DEF Anchored
    <2>. QED
      BY <1>2, <2>1, <2>2 DEF Undisturbed
  <1>. QED
    BY <1>3, <1>4

(* Frames from n + 1 on are dropped and their handlers trimmed.            *)
LEMMA DropUndisturbed ==
  ASSUME IInv, Undisturbed, status = "run", Anchored, NEW n \in Nat, n <= Depth,
         NEW k, IsTrim(handlers, n, k), NEW r \in Finished, NEW s,
         \/ EndLoop(r, SubSeq(frames, 1, n), SubSeq(handlers, 1, k), s)
         \/ StayInLoop(SubSeq(frames, 1, n), SubSeq(handlers, 1, k), s)
  PROVE  Undisturbed'
  <1>. DEFINE gs == SubSeq(frames, 1, n)
              ks == SubSeq(handlers, 1, k)
  <1>1. /\ frames \in Seq(Frame) /\ handlers \in Seq(Handler) /\ n \in 0..Len(frames)
        /\ Depth = Len(frames) /\ Depth \in Nat /\ natives \in Seq(Native)
    BY InLoop DEF Depth, IInv, TypeOK
  <1>2. gs \in Seq(Frame) /\ Len(gs) = n
    BY <1>1, Cut
  <1>3. CASE StayInLoop(gs, ks, s)
    <2>1. /\ frames' = gs /\ handlers' = ks /\ natives' = natives /\ status' = "run"
      BY <1>3 DEF StayInLoop
    <2>2. ASSUME NEW i \in 1..Len(natives), Len(natives[i].caller) < Len(frames')
          PROVE  Over(natives[i], frames', handlers')
      <3>1. Len(natives[i].caller) < n
        BY <1>2, <2>1, <2>2
      <3>2. Over(natives[i], frames, handlers)
        BY RunningOver
      <3>3. Over(natives[i], gs, ks)
        BY <1>1, <3>1, <3>2, OverCut
      <3>. QED
        BY <2>1, <3>3
    <2>. QED
      BY <1>2, <2>1, <2>2, LoopUndisturbed
  <1>4. CASE EndLoop(r, gs, ks, s)
    <2>1. ASSUME natives # <<>>, gs = Last(natives).caller
          PROVE  ks = Last(natives).hs
      <3>1. PICK i \in 1..Len(natives) : i = Len(natives) /\ Last(natives) = natives[i]
        BY <1>1, <2>1, LastOf
      <3>. DEFINE nt == natives[i]
                  q  == Len(nt.hs)
                  m  == Len(handlers)
      <3>2. /\ nt.hs \in Seq(Handler) /\ q \in Nat
            /\ \A j \in 1..q : nt.hs[j].fc \in Nat /\ nt.hs[j].fc <= Len(nt.caller)
        BY InProgress
      <3>3. Len(nt.caller) = n
        BY <1>2, <2>1, <3>1
      <3>4. /\ q <= m /\ \A j \in 1..q : handlers[j] = nt.hs[j]
            /\ \A j \in q + 1..m : handlers[j].fc > n
        BY <3>3, RunningOver DEF Over
      <3>5. /\ k \in 0..m /\ (k > 0 => handlers[k].fc <= n)
            /\ \A j \in k+1..m : handlers[j].fc > n
        BY DEF IsTrim
      <3>6. /\ m \in Nat /\ \A j \in 1..m : handlers[j].fc \in Nat
        BY <1>1, HandlerAt, LenProperties
      <3>7. ks \in Seq(Handler) /\ Len(ks) = k /\ \A j \in 1..k : ks[j] = handlers[j]
        BY <1>1, <3>5, Cut
      <3>. HIDE DEF nt, q, m, gs, ks
      <3>8. k = q
        <4>1. k <= q
          <5>. SUFFICES ASSUME q < k PROVE FALSE
            BY <3>2, <3>5
          <5>1. k \in q + 1..m /\ k > 0 /\ k \in 1..m
            BY <3>2, <3>5, <3>6
          <5>2. handlers[k].fc > n /\ handlers[k].fc <= n /\ handlers[k].fc \in Nat
            BY <3>4, <3>5, <3>6, <5>1
          <5>. QED
            BY <5>2
        <4>2. q <= k
          <5>. SUFFICES ASSUME k < q PROVE FALSE
            BY <3>2, <3>5
          <5>1. k + 1 \in 1..q /\ k + 1 \in k + 1..m
            BY <3>2, <3>4, <3>5, <3>6
          <5>2. handlers[k + 1].fc > n /\ handlers[k + 1].fc <= n /\ handlers[k + 1].fc \in Nat
            BY <3>2, <3>3, <3>4, <3>5, <5>1
          <5>. QED
            BY <5>2
        <4>. QED
          BY <3>2, <3>5, <4>1, <4>2
      <3>9. ks = nt.hs
        <4>1. Len(ks) = Len(nt.hs) /\ \A j \in 1..Len(ks) : ks[j] = nt.hs[j]
          BY <3>4, <3>7, <3>8 DEF q
        <4>. QED
          BY <3>2, <3>7, <4>1, SeqEqual
      <3>. QED
        BY <3>1, <3>9 DEF nt
    <2>. QED
      BY <1>4, <2>1, EndUndisturbed
  <1>. QED
    BY <1>3, <1>4

(* A loop that ends with its frames as they are leaves the native stuck.   *)
LEMMA StopUndisturbed ==
  ASSUME IInv, Undisturbed, status = "run", Anchored, NEW r \in Finished, NEW s,
         NEW hs, EndLoop(r, frames, hs, s)
  PROVE  Undisturbed'
  <1>1. natives # <<>> => frames # Last(natives).caller
    BY AboveCaller
  <1>. QED
    BY <1>1, EndUndisturbed

(* A closure entered on top of the running loop or of a native.            *)
LEMMA EnterOnTop ==
  ASSUME NEW fs \in Seq(Frame), NEW hs \in Seq(Handler), NEW b \in Nat,
         NEW co \in CoroType, NEW c \in Closures,
         \A d \in Closures : co[d] # None => SavedSound(d, co[d]),
         Enter(fs, hs, co, c, b)
  PROVE  /\ frames' \in Seq(Frame) /\ Len(fs) < Len(frames')
         /\ \A j \in 1..Len(fs) : frames'[j] = fs[j]
         /\ frames'[Len(fs) + 1].base = b
         /\ handlers' \in Seq(Handler) /\ Len(hs) <= Len(handlers')
         /\ \A j \in 1..Len(hs) : handlers'[j] = hs[j]
         /\ \A j \in Len(hs) + 1..Len(handlers') :
              handlers'[j].fc \in Nat /\ handlers'[j].fc > Len(fs)
  <1>0. Len(fs) \in Nat /\ Len(hs) \in Nat
    BY LenProperties
  <1>1. CASE co[c] = None
    <2>1. frames' = Append(fs, NewFrame(c, b)) /\ handlers' = hs
      BY <1>1 DEF Enter
    <2>2. NewFrame(c, b) \in Frame /\ NewFrame(c, b).base = b
      BY EmptySeq DEF NewFrame, Frame
    <2>. DEFINE fr == NewFrame(c, b)
    <2>. HIDE DEF fr
    <2>3. /\ frames' \in Seq(Frame) /\ Len(frames') = Len(fs) + 1
          /\ \A j \in 1..Len(fs) : frames'[j] = fs[j]
          /\ frames'[Len(fs) + 1] = fr
      BY <2>1, <2>2, AppendProperties DEF fr
    <2>4. frames'[Len(fs) + 1].base = b
      BY <2>2, <2>3 DEF fr
    <2>5. \A j \in Len(hs) + 1..Len(hs) : FALSE
      BY <1>0
    <2>6. Len(fs) < Len(frames') /\ Len(hs) <= Len(hs)
      BY <1>0, <2>3
    <2>. QED
      BY <2>1, <2>3, <2>4, <2>5, <2>6
  <1>2. CASE co[c] # None
    <2>1. PICK sv \in Saved : sv = co[c]
      BY <1>2, HeldAt
    <2>. DEFINE rf == ResumedFrames(sv, b)
                rh == ResumedHandlers(sv, Len(fs), b)
    <2>2. frames' = fs \o rf /\ handlers' = hs \o rh
      BY <1>2, <2>1 DEF Enter
    <2>3. /\ rf \in Seq(Frame) /\ Len(rf) = Len(sv.frames)
          /\ \A j \in 1..Len(sv.frames) : rf[j].base = sv.frames[j].base + b
          /\ rh \in Seq(Handler) /\ Len(rh) = Len(sv.handlers)
          /\ \A h \in 1..Len(sv.handlers) : rh[h].fc = sv.handlers[h].fc + Len(fs)
      BY <1>0, ResumedShape
    <2>4. SavedSound(c, sv)
      BY <1>2, <2>1
    <2>5. /\ 1 \in 1..Len(sv.frames) /\ sv.frames[1].base = 0 /\ Len(sv.frames) \in Nat
          /\ Len(sv.frames) >= 1
      <3>1. sv.frames \in Seq(Frame) /\ sv.frames # <<>>
        BY <2>4, SavedAt DEF SavedSound
      <3>2. Len(sv.frames) \in Nat /\ Len(sv.frames) >= 1
        BY <3>1, LastOf
      <3>. QED
        BY <2>4, <3>2 DEF SavedSound
    <2>6. \A h \in 1..Len(sv.handlers) : sv.handlers[h].fc \in Nat /\ sv.handlers[h].fc >= 1
      <3>1. \A h \in 1..Len(sv.handlers) : sv.handlers[h].fc \in 1..Len(sv.frames)
        BY <2>4 DEF SavedSound, WellFormed, HandlersNested
      <3>2. \A x \in 1..Len(sv.frames) : x \in Nat /\ x >= 1
        BY <2>5
      <3>. QED
        BY <3>1, <3>2, SMTT(30)
    <2>7. Len(sv.handlers) \in Nat
      BY SavedAt, LenProperties
    <2>. HIDE DEF rf, rh
    <2>8. /\ frames' \in Seq(Frame) /\ Len(frames') = Len(fs) + Len(rf)
          /\ \A j \in 1..Len(fs) : frames'[j] = fs[j]
          /\ \A j \in 1..Len(rf) : frames'[Len(fs) + j] = rf[j]
      <3>1. rf \in Seq(Frame)
        BY <2>3
      <3>2. /\ fs \o rf \in Seq(Frame) /\ Len(fs \o rf) = Len(fs) + Len(rf)
            /\ \A j \in 1..Len(fs) : (fs \o rf)[j] = fs[j]
            /\ \A j \in 1..Len(rf) : (fs \o rf)[Len(fs) + j] = rf[j]
        BY ONLY <3>1, fs \in Seq(Frame), Joined
      <3>. QED
        BY ONLY <2>2, <3>2
    <2>9. /\ handlers' \in Seq(Handler) /\ Len(handlers') = Len(hs) + Len(rh)
          /\ \A j \in 1..Len(hs) : handlers'[j] = hs[j]
          /\ \A j \in 1..Len(rh) : handlers'[Len(hs) + j] = rh[j]
      <3>1. rh \in Seq(Handler)
        BY <2>3
      <3>2. /\ hs \o rh \in Seq(Handler) /\ Len(hs \o rh) = Len(hs) + Len(rh)
            /\ \A j \in 1..Len(hs) : (hs \o rh)[j] = hs[j]
            /\ \A j \in 1..Len(rh) : (hs \o rh)[Len(hs) + j] = rh[j]
        BY ONLY <3>1, hs \in Seq(Handler), Joined
      <3>. QED
        BY ONLY <2>2, <3>2
    <2>10. frames'[Len(fs) + 1].base = b /\ Len(fs) < Len(frames')
           /\ Len(hs) <= Len(handlers')
      <3>1. frames'[Len(fs) + 1].base = 0 + b
        BY ONLY <2>3, <2>5, <2>8
      <3>2. Len(frames') = Len(fs) + Len(sv.frames) /\ Len(handlers') = Len(hs) + Len(sv.handlers)
        BY ONLY <2>3, <2>8, <2>9
      <3>3. Len(fs) < Len(fs) + Len(sv.frames) /\ Len(hs) <= Len(hs) + Len(sv.handlers)
        BY ONLY <1>0, <2>5, <2>7
      <3>. QED
        BY ONLY <3>1, <3>2, <3>3, b \in Nat
    <2>11. ASSUME NEW j \in Len(hs) + 1..Len(handlers')
           PROVE  handlers'[j].fc \in Nat /\ handlers'[j].fc > Len(fs)
      <3>1. j - Len(hs) \in 1..Len(rh) /\ Len(hs) + (j - Len(hs)) = j
        BY <1>0, <2>3, <2>7, <2>9
      <3>2. PICK h \in 1..Len(rh) : Len(hs) + h = j
        BY <3>1
      <3>3. handlers'[j].fc = sv.handlers[h].fc + Len(fs) /\ sv.handlers[h].fc \in Nat
            /\ sv.handlers[h].fc >= 1
        BY <2>3, <2>6, <2>9, <3>2
      <3>. QED
        BY ONLY <1>0, <3>3
    <2>. QED
      BY <2>8, <2>9, <2>10, <2>11
  <1>. QED
    BY <1>1, <1>2

(* Instructions and steps of natives that change no frame and no handler.  *)
LEMMA QuietUndisturbed ==
  ASSUME IInv, Undisturbed,
         \/ \E k \in Args : CallToNull(k)
         \/ PushOperand \/ PopOperand \/ AssertFails
         \/ \E k \in Args : NativeCallsToNull(k)
         \/ \E c \in Callable, k \in Args : NativeCallFails(c, k)
  PROVE  Undisturbed'
  <1>1. /\ Anchored /\ UNCHANGED <<frames, handlers, natives>>
        /\ \/ status = "run" /\ status' = "run"
           \/ status = "native" /\ status' = "native"
           \/ InNative /\ status' = "run"
    BY DEF CallToNull, PushOperand, PopOperand, AssertFails, NativeCallsToNull,
           NativeCallFails, Running, InNative
  <1>2. OnTop(natives')
    BY <1>1 DEF Undisturbed
  <1>3. CASE status = "run" /\ status' = "run"
    <2>1. \A i \in 1..Len(natives) : Over(natives[i], frames, handlers)
      BY <1>1, <1>3 DEF Undisturbed
    <2>. QED
      BY <1>1, <1>2, <1>3, <2>1 DEF Undisturbed
  <1>4. CASE status = "native" /\ status' = "native"
    <2>1. handlers = Last(natives).hs
      BY <1>1, <1>4 DEF Undisturbed
    <2>. QED
      BY <1>1, <1>2, <1>4, <2>1 DEF Undisturbed
  <1>5. CASE InNative /\ status' = "run"
    <2>1. natives # <<>> /\ frames = Last(natives).caller /\ Len(frames) \in Nat
      BY <1>5, InsideNative DEF Depth
    <2>2. ~Anchored'
      <3>1. ~(Len(frames') > Len(Last(natives').caller))
        BY <1>1, <2>1
      <3>. QED
        BY <1>1, <1>5, <2>1, <3>1 DEF Anchored, Depth
    <2>. QED
      BY <1>2, <1>5, <2>2 DEF Undisturbed
  <1>. QED
    BY <1>1, <1>3, <1>4, <1>5

(* What the innermost native has below it.                                 *)
LEMMA NativeOver ==
  ASSUME IInv, Undisturbed, InNative, NEW i \in 1..Len(natives) - 1
  PROVE  Over(natives[i], frames, handlers)
  <1>1. /\ natives # <<>> /\ natives \in Seq(Native) /\ frames = Last(natives).caller
        /\ Anchored /\ status = "native"
    BY InsideNative DEF InNative
  <1>2. handlers = Last(natives).hs
    BY <1>1 DEF Undisturbed
  <1>3. PICK k \in 1..Len(natives) : k = Len(natives) /\ Last(natives) = natives[k]
    BY <1>1, LastOf
  <1>4. Over(natives[i], natives[k].caller, natives[k].hs)
    BY <1>3 DEF Undisturbed, OnTop
  <1>. QED
    BY <1>1, <1>2, <1>3, <1>4

(* OP_CALL of a native.                                                    *)
LEMMA CallNativeUndisturbed ==
  ASSUME IInv, Undisturbed, NEW k \in Args, NEW q \in Roots, NEW g \in BOOLEAN,
         CallNative(k, q, g)
  PROVE  Undisturbed'
  <1>. DEFINE nt == [base |-> sp - (k + 1), sp |-> sp + q, caller |-> frames,
                     hs |-> handlers, guarded |-> g]
              n  == Len(natives)
  <1>1. /\ status = "run" /\ Anchored /\ status' = "native"
        /\ natives' = Append(natives, nt) /\ handlers' = handlers
    BY DEF CallNative, Running
  <1>2. nt.caller = frames /\ nt.hs = handlers
    OBVIOUS
  <1>3. natives \in Seq(Native) /\ n \in Nat
    BY DEF IInv, TypeOK
  <1>. HIDE DEF nt
  <1>4. /\ Len(natives') = n + 1 /\ natives'[n + 1] = nt
        /\ \A i \in 1..n : natives'[i] = natives[i]
    BY <1>1, <1>3
  <1>5. Last(natives').hs = handlers
    BY <1>2, <1>4 DEF Last
  <1>6. ASSUME NEW j \in 1..n + 1, NEW i \in 1..j - 1
        PROVE  Over(natives'[i], natives'[j].caller, natives'[j].hs)
    <2>1. i \in 1..n /\ natives'[i] = natives[i]
      BY <1>3, <1>4
    <2>2. CASE j = n + 1
      <3>1. Over(natives[i], frames, handlers)
        BY <1>1, <2>1, RunningOver
      <3>. QED
        BY <1>2, <1>4, <2>1, <2>2, <3>1
    <2>3. CASE j # n + 1
      <3>1. j \in 1..n
        BY <1>3, <2>3
      <3>2. Over(natives[i], natives[j].caller, natives[j].hs)
        BY <3>1 DEF Undisturbed, OnTop
      <3>. QED
        BY <1>4, <2>1, <3>1, <3>2
    <2>. QED
      BY <2>2, <2>3
  <1>7. OnTop(natives')
    BY <1>4, <1>6 DEF OnTop
  <1>. QED
    BY <1>1, <1>5, <1>7 DEF Undisturbed

(* A native returns: its caller goes on with the handlers it had.          *)
LEMMA NativeReturnsUndisturbed ==
  ASSUME IInv, Undisturbed, NEW a, NativeReturns(a)
  PROVE  Undisturbed'
  <1>1. /\ InNative /\ natives' = AllButLast(natives) /\ status' = "run"
        /\ UNCHANGED <<frames, handlers>>
    BY DEF NativeReturns
  <1>2. natives # <<>> /\ natives \in Seq(Native) /\ Len(natives) \in Nat
    BY <1>1, InsideNative
  <1>3. /\ Len(natives') = Len(natives) - 1
        /\ \A i \in 1..Len(natives) - 1 : natives'[i] = natives[i] /\ i \in 1..Len(natives)
    BY <1>1, <1>2, ButLastIsCut
  <1>4. ASSUME NEW j \in 1..Len(natives'), NEW i \in 1..j - 1
        PROVE  Over(natives'[i], natives'[j].caller, natives'[j].hs)
    <2>1. j \in 1..Len(natives) - 1 /\ i \in 1..Len(natives) - 1
      BY <1>2, <1>3
    <2>2. Over(natives[i], natives[j].caller, natives[j].hs)
      BY <1>3, <2>1 DEF Undisturbed, OnTop
    <2>. QED
      BY <1>3, <2>1, <2>2
  <1>5. OnTop(natives')
    BY <1>4 DEF OnTop
  <1>6. \A i \in 1..Len(natives) - 1 : Over(natives[i], frames, handlers)
    BY <1>1, NativeOver
  <1>7. \A i \in 1..Len(natives') : Over(natives'[i], frames', handlers')
    BY <1>1, <1>3, <1>6
  <1>. QED
    BY <1>1, <1>5, <1>7 DEF Undisturbed

(* A native starts a nested loop on a closure: on top of its operands.     *)
LEMMA NativeCallsUndisturbed ==
  ASSUME IInv, Undisturbed, NEW c \in Callable, NEW k \in Args, NativeCalls(c, k)
  PROVE  Undisturbed'
  <1>1. /\ InNative /\ Anchored /\ Enter(frames, handlers, coro, c, sp)
        /\ natives' = natives /\ status' = "run" /\ status = "native"
    BY DEF NativeCalls, InNative
  <1>2. /\ natives # <<>> /\ natives \in Seq(Native) /\ frames = Last(natives).caller
        /\ sp = Last(natives).sp
        /\ frames \in Seq(Frame) /\ handlers \in Seq(Handler) /\ sp \in Nat
        /\ c \in Closures /\ coro \in CoroType
        /\ \A d \in Closures : coro[d] # None => SavedSound(d, coro[d])
    BY <1>1, InsideNative DEF Callable, IInv, TypeOK, CoroType, CoroutinesSound
  <1>3. /\ frames' \in Seq(Frame) /\ Len(frames) < Len(frames')
        /\ \A j \in 1..Len(frames) : frames'[j] = frames[j]
        /\ frames'[Len(frames) + 1].base = sp
        /\ handlers' \in Seq(Handler) /\ Len(handlers) <= Len(handlers')
        /\ \A j \in 1..Len(handlers) : handlers'[j] = handlers[j]
        /\ \A j \in Len(handlers) + 1..Len(handlers') :
             handlers'[j].fc \in Nat /\ handlers'[j].fc > Len(frames)
    BY <1>1, <1>2, EnterOnTop, SMTT(30)
  <1>4. /\ Len(frames) \in Nat /\ Len(frames') \in Nat
        /\ Len(handlers) \in Nat /\ Len(handlers') \in Nat
        /\ Len(frames) <= Len(frames')
    BY <1>2, <1>3, LenProperties
  <1>5. handlers = Last(natives).hs
    BY <1>1 DEF Undisturbed
  <1>6. PICK m \in 1..Len(natives) : m = Len(natives) /\ Last(natives) = natives[m]
    BY <1>2, LastOf
  <1>7. ASSUME NEW i \in 1..Len(natives)
        PROVE  Over(natives[i], frames', handlers')
    <2>1. CASE i = m
      <3>1. /\ natives[i].caller = frames /\ natives[i].hs = handlers /\ natives[i].sp = sp
            /\ sp <= sp
        BY <1>2, <1>5, <1>6, <2>1
      <3>. QED
        BY <1>3, <3>1, Zenon DEF Over
    <2>2. CASE i # m
      <3>1. i \in 1..Len(natives) - 1
        BY <1>6, <2>2
      <3>2. Over(natives[i], frames, handlers)
        BY <1>1, <3>1, NativeOver
      <3>3. Len(natives[i].caller) \in Nat /\ Len(natives[i].hs) \in Nat
        BY InProgress
      <3>. QED
        BY <1>3, <1>4, <3>2, <3>3, OverGrows, Zenon
    <2>. QED
      BY <2>1, <2>2
  <1>. QED
    BY <1>1, <1>3, <1>7, LoopUndisturbed

(* OP_CALL of a closure.                                                   *)
LEMMA CallUndisturbed ==
  ASSUME IInv, Undisturbed, NEW c \in Callable, NEW k \in Args, Call(c, k)
  PROVE  Undisturbed'
  <1>1. Running /\ status = "run" /\ Anchored /\ sp >= Floor + k + 1
    BY DEF Call, Running
  <1>2. /\ frames \in Seq(Frame) /\ handlers \in Seq(Handler)
        /\ sp \in Nat /\ Floor \in Nat /\ c \in Closures /\ k \in Nat
        /\ coro \in CoroType
        /\ \A d \in Closures : coro[d] # None => SavedSound(d, coro[d])
    BY <1>1, InLoop, ControlAssumption
       DEF Callable, IInv, TypeOK, CoroType, CoroutinesSound
  <1>3. PICK b \in Nat : b = sp - (k + 1)
    <2>1. sp - (k + 1) \in Nat
      BY <1>1, <1>2
    <2>. QED
      BY <2>1
  <1>4. CASE Enter(frames, handlers, coro, c, b) /\ natives' = natives /\ status' = status
    <2>1. /\ frames' \in Seq(Frame) /\ Len(frames) < Len(frames')
          /\ \A j \in 1..Len(frames) : frames'[j] = frames[j]
          /\ frames'[Len(frames) + 1].base = b
          /\ handlers' \in Seq(Handler) /\ Len(handlers) <= Len(handlers')
          /\ \A j \in 1..Len(handlers) : handlers'[j] = handlers[j]
          /\ \A j \in Len(handlers) + 1..Len(handlers') :
               handlers'[j].fc \in Nat /\ handlers'[j].fc > Len(frames)
      BY <1>2, <1>4, EnterOnTop
    <2>2. /\ Len(frames) \in Nat /\ Len(frames') \in Nat
          /\ Len(handlers) \in Nat /\ Len(handlers') \in Nat
          /\ Len(frames) <= Len(frames')
      BY <1>2, <2>1, LenProperties
    <2>3. ASSUME NEW i \in 1..Len(natives)
          PROVE  Over(natives[i], frames', handlers')
      <3>1. Over(natives[i], frames, handlers)
        BY <1>1, RunningOver
      <3>2. Len(natives[i].caller) \in Nat /\ Len(natives[i].hs) \in Nat
        BY InProgress
      <3>. QED
        BY <2>1, <2>2, <3>1, <3>2, OverGrows, Zenon
    <2>. QED
      BY <1>1, <1>4, <2>1, <2>3, LoopUndisturbed
  <1>5. CASE EndLoop("error", frames, handlers, FailHeight(frames, coro, c, b, sp))
    <2>1. PICK r \in Finished : \E s : EndLoop(r, frames, handlers, s)
      BY <1>5 DEF Finished
    <2>. QED
      BY <1>1, <2>1, StopUndisturbed
  <1>. QED
    BY <1>3, <1>4, <1>5 DEF Call

(* A dispatch loop that ends with its frames as they are.                  *)
LEMMA EndingUndisturbed ==
  ASSUME IInv, Undisturbed, ThrowUncaught \/ \E r \in Finished : Stop(r)
  PROVE  Undisturbed'
  <1>1. PICK r \in Finished : /\ status = "run" /\ Anchored
                              /\ \E s : EndLoop(r, frames, handlers, s)
    BY DEF ThrowUncaught, Stop, Running, Finished
  <1>. QED
    BY <1>1, StopUndisturbed

(* OP_RETURN, where no continuation was ever made.                         *)
LEMMA ReturnUndisturbed ==
  ASSUME IInv, Undisturbed, conts = <<>>, Return
  PROVE  Undisturbed'
  <1>1. status = "run" /\ Anchored
    BY DEF Return, Running
  <1>2. /\ frames \in Seq(Frame) /\ Depth \in Nat /\ Depth >= 1 /\ Depth \in 1..Depth
        /\ Depth = Len(frames) /\ Top = frames[Depth] /\ Top \in Frame
    BY <1>1, InLoop DEF Depth, Top
  <1>3. Top.ret = 0
    <2>1. Top.ret \in Nat
      BY <1>2 DEF Frame
    <2>2. Top.ret <= Len(conts) /\ Len(conts) = 0
      BY <1>2, HeldFacts DEF RetsMade
    <2>. QED
      BY <2>1, <2>2
  <1>4. PICK k \in 0..Len(handlers) :
           /\ IsTrim(handlers, Depth - 1, k)
           /\ \/ EndLoop("ok", AllButLast(frames), SubSeq(handlers, 1, k), Top.base + 1)
              \/ StayInLoop(AllButLast(frames), SubSeq(handlers, 1, k), Top.base + 1)
    BY <1>3 DEF Return
  <1>5. PICK n \in Nat : n = Depth - 1 /\ n <= Depth
    BY <1>2
  <1>6. AllButLast(frames) = SubSeq(frames, 1, n)
    BY <1>2, <1>5 DEF AllButLast
  <1>7. PICK r \in Finished : r = "ok"
    BY DEF Finished
  <1>. QED
    BY <1>1, <1>4, <1>5, <1>6, <1>7, DropUndisturbed

(* OP_INLINE_RETURN and OP_YIELD.                                          *)
LEMMA RootUndisturbed ==
  ASSUME IInv, Undisturbed, InlineReturn \/ Yield
  PROVE  Undisturbed'
  <1>1. status = "run" /\ Anchored
    BY DEF InlineReturn, Yield, Running
  <1>2. PICK r \in 1..Depth, k \in 0..Len(handlers) :
           /\ IsTrim(handlers, r - 1, k)
           /\ \/ EndLoop("ok", SubSeq(frames, 1, r - 1), SubSeq(handlers, 1, k),
                         frames[r].base + 1)
              \/ StayInLoop(SubSeq(frames, 1, r - 1), SubSeq(handlers, 1, k),
                            frames[r].base + 1)
    <2>1. CASE InlineReturn
      BY <2>1 DEF InlineReturn
    <2>2. CASE Yield
      BY <2>2 DEF Yield
    <2>. QED
      BY <2>1, <2>2
  <1>3. PICK n \in Nat : n = r - 1 /\ n <= Depth
    <2>1. Depth \in Nat
      BY <1>1, InLoop
    <2>. QED
      BY <2>1
  <1>4. PICK e \in Finished : e = "ok"
    BY DEF Finished
  <1>. QED
    BY <1>1, <1>2, <1>3, <1>4, DropUndisturbed

(* An abort or an exit taken at the end of an instruction.                 *)
LEMMA UnwindUndisturbed ==
  ASSUME IInv, Undisturbed, Unwind
  PROVE  Undisturbed'
  <1>. DEFINE wanted == IF abort = "exit" THEN Target ELSE Depth - 1
              n      == IF wanted < Depth THEN wanted ELSE Depth
              slot   == IF n < Depth THEN frames[n + 1].base ELSE Top.base
  <1>1. status = "run" /\ Anchored
    BY DEF Unwind
  <1>2. PICK k \in 0..Len(handlers) :
           /\ IsTrim(handlers, n, k)
           /\ \/ EndLoop("ok", SubSeq(frames, 1, n), SubSeq(handlers, 1, k), slot + 1)
              \/ StayInLoop(SubSeq(frames, 1, n), SubSeq(handlers, 1, k), slot + 1)
    BY DEF Unwind
  <1>3. Depth \in Nat /\ Depth >= 1 /\ Target \in Nat
    BY <1>1, InLoop
  <1>4. n \in Nat /\ n <= Depth
    BY <1>3
  <1>5. PICK r \in Finished : r = "ok"
    BY DEF Finished
  <1>. HIDE DEF n, slot
  <1>. QED
    BY <1>1, <1>2, <1>4, <1>5, DropUndisturbed

(* Only the tries of the top frame change.                                 *)
LEMMA OverTop ==
  ASSUME NEW nt, Len(nt.caller) \in Nat, NEW fs, NEW hs, Over(nt, fs, hs),
         NEW gs, Len(gs) = Len(fs), Len(fs) \in Nat,
         \A j \in 1..Len(fs) : gs[j].base = fs[j].base,
         \A j \in 1..Len(fs) : j # Len(fs) => gs[j] = fs[j]
  PROVE  Over(nt, gs, hs)
  <1>. DEFINE c == Len(nt.caller)
              n == Len(fs)
  <1>1. c \in Nat /\ n \in Nat /\ c < n
    BY DEF Over
  <1>2. /\ \A j \in 1..c : fs[j] = nt.caller[j]
        /\ nt.sp <= fs[c + 1].base
    BY DEF Over
  <1>3. /\ \A j \in 1..n : gs[j].base = fs[j].base
        /\ \A j \in 1..n : j # n => gs[j] = fs[j]
    OBVIOUS
  <1>. HIDE DEF c, n
  <1>4. c + 1 \in 1..n /\ \A j \in 1..c : j \in 1..n /\ j # n
    BY <1>1
  <1>5. (\A j \in 1..c : gs[j] = nt.caller[j]) /\ nt.sp <= gs[c + 1].base
    BY <1>2, <1>3, <1>4
  <1>. QED
    BY <1>1, <1>5 DEF Over, c, n

(* OP_PUSH_HANDLER, with room for the handler or without.                  *)
LEMMA EnterTryUndisturbed ==
  ASSUME IInv, Undisturbed, EnterTry
  PROVE  Undisturbed'
  <1>1. Running /\ status = "run" /\ Anchored /\ natives' = natives /\ status' = status
    BY DEF EnterTry, Running
  <1>2. /\ frames \in Seq(Frame) /\ frames # <<>> /\ Top \in Frame /\ Top.base \in Nat
        /\ sp \in Nat /\ handlers \in Seq(Handler)
        /\ Floor \in Nat /\ Floor <= sp /\ Top.base + FixedSlots <= Floor
        /\ FixedSlots \in Nat
        /\ Depth \in 1..Depth
    BY <1>1, InLoop
  <1>3. PICK n \in 1..Len(frames) : n = Len(frames) /\ Depth = n /\ Top = frames[n]
    BY <1>2 DEF Depth, Top
  <1>4. PICK x \in Nat : x = sp - Top.base
    BY <1>2
  <1>5. PICK ts \in Seq(Nat) : ts = Append(frames[n].tries, x)
    <2>1. frames[n].tries \in Seq(Nat)
      BY <1>2, FrameAt
    <2>2. Append(frames[n].tries, x) \in Seq(Nat)
      BY ONLY <2>1, x \in Nat, AppendProperties
    <2>. QED
      BY <2>2
  <1>6. PICK nh \in Handler : nh = [fc |-> n, sc |-> sp, level |-> Len(Top.tries)]
    <2>1. n \in Nat /\ sp \in Nat /\ Len(Top.tries) \in Nat
      BY <1>2, <1>3 DEF Frame
    <2>. QED
      BY ONLY <2>1 DEF Handler
  <1>7. /\ frames' = WithTopTries(frames, ts)
        /\ handlers' = Append(handlers, nh) \/ handlers' = handlers
    <2>1. frames' = [frames EXCEPT ![n].tries = ts]
      BY <1>2, <1>3, <1>4, <1>5 DEF EnterTry
    <2>2. handlers' = Append(handlers, nh) \/ handlers' = handlers
      BY <1>3, <1>6 DEF EnterTry
    <2>. QED
      BY <1>3, <2>1, <2>2 DEF WithTopTries
  <1>8. /\ frames' \in Seq(Frame) /\ Len(frames') = Len(frames)
        /\ \A i \in 1..Len(frames) : frames'[i].base = frames[i].base /\ frames'[i].ret = frames[i].ret
        /\ \A i \in 1..Len(frames) : i # Len(frames) => frames'[i].tries = frames[i].tries
        /\ frames'[Len(frames)].tries = ts
    BY ONLY <1>2, <1>7, ts \in Seq(Nat), TopTries, SMTT(30)
  <1>9. \A j \in 1..Len(frames) : j # Len(frames) => frames'[j] = frames[j]
    BY <1>2, <1>7, BelowTop
  <1>10. /\ Len(frames) \in Nat /\ Len(handlers) \in Nat /\ Len(frames) <= Len(frames)
         /\ Len(handlers) <= Len(handlers) + 1
    BY <1>2, LenProperties
  <1>11. ASSUME NEW i \in 1..Len(natives)
         PROVE  Over(natives[i], frames', handlers')
    <2>1. /\ Len(natives[i].caller) \in Nat /\ Len(natives[i].hs) \in Nat
          /\ Over(natives[i], frames, handlers)
      BY <1>1, InProgress, RunningOver
    <2>2. Over(natives[i], frames', handlers)
      BY <1>8, <1>9, <1>10, <2>1, OverTop
    <2>3. CASE handlers' = handlers
      BY <2>2, <2>3
    <2>4. CASE handlers' = Append(handlers, nh)
      <3>. DEFINE nt == natives[i]
                  q  == Len(handlers)
      <3>1. /\ Len(handlers') = q + 1 /\ handlers'[q + 1] = nh
            /\ \A j \in 1..q : handlers'[j] = handlers[j]
        BY <1>2, <2>4
      <3>2. nh.fc = n /\ n > Len(nt.caller) /\ q \in Nat
        BY <1>3, <1>6, <1>10, <2>1 DEF Over
      <3>3. /\ Len(nt.caller) < Len(frames')
            /\ \A j \in 1..Len(nt.caller) : frames'[j] = nt.caller[j]
            /\ nt.sp <= frames'[Len(nt.caller) + 1].base
            /\ Len(nt.hs) <= q
            /\ \A j \in 1..Len(nt.hs) : handlers[j] = nt.hs[j]
            /\ \A j \in Len(nt.hs) + 1..q : handlers[j].fc > Len(nt.caller)
        BY <2>2 DEF Over
      <3>4. Len(nt.hs) \in Nat
        BY <2>1
      <3>. HIDE DEF nt, q
      <3>5. /\ Len(nt.hs) <= Len(handlers')
            /\ \A j \in 1..Len(nt.hs) : handlers'[j] = nt.hs[j]
        BY <3>1, <3>2, <3>3, <3>4
      <3>6. ASSUME NEW j \in Len(nt.hs) + 1..Len(handlers')
            PROVE  handlers'[j].fc > Len(nt.caller)
        <4>1. CASE j = q + 1
          BY <3>1, <3>2, <4>1
        <4>2. CASE j # q + 1
          <5>1. j \in Len(nt.hs) + 1..q /\ j \in 1..q
            BY <3>1, <3>2, <3>4, <4>2
          <5>. QED
            BY <3>1, <3>3, <5>1
        <4>. QED
          BY <4>1, <4>2
      <3>7. Over(nt, frames', handlers')
        BY <3>3, <3>5, <3>6 DEF Over
      <3>. QED
        BY <3>7 DEF nt
    <2>. QED
      BY <1>7, <2>3, <2>4
  <1>. QED
    BY <1>1, <1>8, <1>11, LoopUndisturbed

(* OP_POP_HANDLER: the handler that goes is not of a native's caller.      *)
LEMMA LeaveTryUndisturbed ==
  ASSUME IInv, Tried, Undisturbed, LeaveTry
  PROVE  Undisturbed'
  <1>1. /\ Running /\ status = "run" /\ Anchored /\ Top.tries # <<>>
        /\ natives' = natives /\ status' = status
    BY DEF LeaveTry, Running
  <1>2. /\ frames \in Seq(Frame) /\ frames # <<>> /\ handlers \in Seq(Handler)
        /\ HandlersNested(frames, handlers) /\ Handled(frames, handlers)
        /\ Depth \in 1..Depth /\ Top \in Frame
    BY <1>1, InLoop DEF WellFormed, Tried
  <1>3. PICK n \in 1..Len(frames) : n = Len(frames) /\ Depth = n /\ Top = frames[n]
    BY <1>2 DEF Depth, Top
  <1>4. handlers # <<>> /\ Last(handlers).fc = n
    BY <1>1, <1>2, <1>3, TryNeedsHandler
  <1>5. PICK ts \in Seq(Nat) : ts = AllButLast(frames[n].tries)
    <2>1. frames[n].tries \in Seq(Nat) /\ frames[n].tries # <<>>
      BY <1>1, <1>2, <1>3, FrameAt
    <2>. QED
      BY <2>1, ButLastIsCut
  <1>6. frames' = WithTopTries(frames, ts) /\ handlers' = AllButLast(handlers)
    <2>1. frames' = [frames EXCEPT ![n].tries = ts]
      BY <1>2, <1>3, <1>5 DEF LeaveTry
    <2>2. handlers' = AllButLast(handlers)
      BY <1>4 DEF LeaveTry
    <2>. QED
      BY <1>3, <2>1, <2>2 DEF WithTopTries
  <1>7. /\ frames' \in Seq(Frame) /\ Len(frames') = Len(frames)
        /\ \A i \in 1..Len(frames) : frames'[i].base = frames[i].base /\ frames'[i].ret = frames[i].ret
        /\ \A i \in 1..Len(frames) : i # Len(frames) => frames'[i].tries = frames[i].tries
        /\ frames'[Len(frames)].tries = ts
    BY ONLY <1>2, <1>6, ts \in Seq(Nat), TopTries, SMTT(30)
  <1>8. \A j \in 1..Len(frames) : j # Len(frames) => frames'[j] = frames[j]
    BY <1>2, <1>6, BelowTop
  <1>9. Len(frames) \in Nat
    BY <1>2, LenProperties
  <1>10. ASSUME NEW i \in 1..Len(natives), Len(natives[i].caller) < Len(frames')
         PROVE  Over(natives[i], frames', handlers')
    <2>1. Over(natives[i], frames, handlers)
      BY <1>1, RunningOver
    <2>2. Last(handlers).fc > Len(natives[i].caller)
      BY <1>3, <1>4, <1>7, <1>10, InProgress
    <2>3. PICK gs \in Seq(Frame) : gs = frames'
      BY <1>7
    <2>4. /\ Len(natives[i].caller) < Len(gs) /\ Len(gs) <= Len(frames)
          /\ \A j \in 1..Len(gs) : gs[j].base = frames[j].base
          /\ \A j \in 1..Len(gs) : j # Len(gs) => gs[j] = frames[j]
      BY <1>7, <1>8, <1>9, <1>10, <2>3
    <2>5. Over(natives[i], gs, AllButLast(handlers))
      BY <1>2, <1>4, <2>1, <2>2, <2>4, OverPopped
    <2>. QED
      BY <1>6, <2>3, <2>5
  <1>. QED
    BY <1>1, <1>7, <1>10, LoopUndisturbed

(* OP_THROW caught above the callers of the natives.                       *)
LEMMA CatchUndisturbed ==
  ASSUME IInv, Tried, Undisturbed, Catch
  PROVE  Undisturbed'
  <1>1. PICK f \in 1..Depth :
              /\ f = Last(handlers).fc
              /\ frames' \in Seq(Frame) /\ Len(frames') = f
              /\ \A i \in 1..f : frames'[i].base = frames[i].base
              /\ \A i \in 1..f : i # f => frames'[i] = frames[i]
    BY CatchLands
  <1>2. /\ status = "run" /\ Anchored
        /\ frames \in Seq(Frame) /\ handlers \in Seq(Handler) /\ handlers # <<>>
        /\ handlers' = AllButLast(handlers)
    BY CatchLands
  <1>3. natives' = natives /\ status' = status
    BY DEF Catch
  <1>4. Len(frames) \in Nat /\ f \in Nat /\ f <= Len(frames)
    BY <1>2, LenProperties DEF Depth
  <1>5. ASSUME NEW i \in 1..Len(natives), Len(natives[i].caller) < Len(frames')
        PROVE  Over(natives[i], frames', handlers')
    <2>1. Over(natives[i], frames, handlers)
      BY <1>2, RunningOver
    <2>2. Last(handlers).fc > Len(natives[i].caller)
      BY <1>1, <1>4, <1>5, InProgress
    <2>3. PICK gs \in Seq(Frame) : gs = frames'
      BY <1>1
    <2>4. /\ Len(natives[i].caller) < Len(gs) /\ Len(gs) <= Len(frames)
          /\ \A j \in 1..Len(gs) : gs[j].base = frames[j].base
          /\ \A j \in 1..Len(gs) : j # Len(gs) => gs[j] = frames[j]
      BY <1>1, <1>4, <1>5, <2>3
    <2>5. Over(natives[i], gs, AllButLast(handlers))
      BY <1>2, <2>1, <2>2, <2>4, OverPopped
    <2>. QED
      BY <1>2, <2>3, <2>5
  <1>. QED
    BY <1>1, <1>2, <1>3, <1>5, LoopUndisturbed

(* A script starts with no native below it.                                *)
LEMMA StartUndisturbed ==
  /\ Init => Undisturbed
  /\ Interpret => Undisturbed'
  <1>1. ASSUME natives = <<>>, status = "run"
        PROVE  Undisturbed
    <2>1. Len(natives) = 0 /\ 1..0 = {}
      BY <1>1
    <2>. QED
      BY <1>1, <2>1 DEF Undisturbed, OnTop
  <1>2. ASSUME natives' = <<>>, status' = "run"
        PROVE  Undisturbed'
    <2>1. Len(natives') = 0 /\ 1..0 = {}
      BY <1>2
    <2>. QED
      BY <1>2, <2>1 DEF Undisturbed, OnTop
  <1>. QED
    BY <1>1, <1>2 DEF Init, Start, Interpret

(* No step disturbs a native, when no continuation is ever made.           *)
LEMMA NextUndisturbed ==
  ASSUME IInv, Tried, Undisturbed, [Next]_vars, conts = <<>>, conts' = <<>>
  PROVE  Undisturbed'
  <1>0. CASE UNCHANGED vars
    BY <1>0 DEF vars, Undisturbed, Anchored, Depth
  <1>. SUFFICES ASSUME Next PROVE Undisturbed'
    BY <1>0
  <1>1. CASE Interpret
    BY <1>1, StartUndisturbed
  <1>2. CASE \E c \in Callable, k \in Args : Call(c, k)
    BY <1>2, CallUndisturbed
  <1>3. CASE \E k \in Args : CallToNull(k)
    BY <1>3, QuietUndisturbed
  <1>4. ~ \E i \in 1..Len(conts), k \in Args : CallContinuation(i, k)
    <2>1. 1..Len(conts) = {}
      OBVIOUS
    <2>. QED
      BY <2>1
  <1>5. CASE PushOperand \/ PopOperand
    BY <1>5, QuietUndisturbed
  <1>6. CASE EnterTry \/ LeaveTry \/ Catch
    BY <1>6, EnterTryUndisturbed, LeaveTryUndisturbed, CatchUndisturbed
  <1>7. CASE ThrowUncaught \/ \E r \in Finished : Stop(r)
    BY <1>7, EndingUndisturbed
  <1>8. CASE AssertFails
    BY <1>8, QuietUndisturbed
  <1>9. CASE Return \/ InlineReturn \/ Yield
    BY <1>9, ReturnUndisturbed, RootUndisturbed
  <1>10. ~ \E hd \in Callable \cup {None} : CallCC(hd)
    <2>. SUFFICES ASSUME NEW hd, CallCC(hd) PROVE FALSE
      OBVIOUS
    <2>1. PICK cx : conts' = Append(conts, cx)
      BY DEF CallCC
    <2>2. Append(<<>>, cx) # <<>>
      BY AppendProperties
    <2>. QED
      BY <2>1, <2>2
  <1>11. CASE Unwind
    BY <1>11, UnwindUndisturbed
  <1>12. CASE \E k \in Args, q \in Roots, g \in BOOLEAN : CallNative(k, q, g)
    BY <1>12, CallNativeUndisturbed
  <1>13. CASE \E a \in {"no", "frame", "exit"} : NativeReturns(a)
    BY <1>13, NativeReturnsUndisturbed
  <1>14. CASE \E c \in Callable, k \in Args : NativeCalls(c, k)
    BY <1>14, NativeCallsUndisturbed
  <1>15. CASE \E k \in Args : NativeCallsToNull(k)
    BY <1>15, QuietUndisturbed
  <1>16. CASE \E c \in Callable, k \in Args : NativeCallFails(c, k)
    BY <1>16, QuietUndisturbed
  <1>. QED
    BY <1>1, <1>2, <1>3, <1>4, <1>5, <1>6, <1>7, <1>8, <1>9, <1>10, <1>11, <1>12,
       <1>13, <1>14, <1>15, <1>16 DEF Next

(* What Undisturbed says to a native that goes on.                         *)
LEMMA UndisturbedSuffices ==
  ASSUME IInv, Undisturbed
  PROVE  NativesUndisturbed
  <1>1. ASSUME NEW i \in 1..Len(natives), Anchored, Depth > Len(natives[i].caller)
        PROVE  frames[Len(natives[i].caller) + 1].base >= natives[i].sp
    <2>0. natives # <<>> /\ natives \in Seq(Native)
      BY EmptySeq DEF IInv, TypeOK
    <2>1. /\ natives[i].sp \in Nat /\ frames \in Seq(Frame) /\ Depth = Len(frames)
          /\ Len(natives[i].caller) + 1 \in 1..Len(frames)
      <3>1. Len(natives[i].caller) \in Nat /\ natives[i].sp \in Nat
        BY InProgress
      <3>2. frames \in Seq(Frame) /\ Depth = Len(frames) /\ Len(frames) \in Nat
        BY LenProperties DEF IInv, TypeOK, Depth
      <3>. QED
        BY <1>1, <3>1, <3>2
    <2>2. frames[Len(natives[i].caller) + 1].base \in Nat
      BY <2>1, FrameAt
    <2>3. ASSUME Over(natives[i], frames, handlers)
          PROVE  frames[Len(natives[i].caller) + 1].base >= natives[i].sp
      BY <2>1, <2>2, <2>3 DEF Over
    <2>4. CASE status = "run"
      BY <1>1, <2>3, <2>4 DEF Undisturbed
    <2>5. CASE status = "native"
      <3>1. InNative /\ frames = Last(natives).caller
        BY <1>1, <2>5, InsideNative DEF InNative
      <3>2. Last(natives) = natives[Len(natives)] /\ Len(natives) \in Nat
        BY <2>0, LastOf
      <3>3. i # Len(natives)
        BY <1>1, <2>1, <3>1, <3>2
      <3>4. i \in 1..Len(natives) - 1
        BY <3>2, <3>3
      <3>. QED
        BY <2>3, <3>1, <3>4, NativeOver
    <2>6. CASE status \in Finished
      BY <2>0, <2>6 DEF IInv, LoopsMatch
    <2>. QED
      BY <2>4, <2>5, <2>6 DEF IInv, TypeOK
  <1>2. ASSUME NEW i \in 1..Len(natives), Anchored, i = Len(natives), status = "native"
        PROVE  handlers = natives[i].hs
    BY <1>2 DEF Undisturbed, Last
  <1>. QED
    BY <1>1, <1>2, Zenon DEF NativesUndisturbed

(* Continuations are never forgotten.                                      *)
LEMMA FirstContinuation ==
  ASSUME IInv, [Next]_vars, conts' = <<>>
  PROVE  conts = <<>>
  <1>1. conts \in Seq(Continuation)
    BY DEF IInv, TypeOK
  <1>2. ASSUME NEW cn
        PROVE  conts' # Append(conts, cn)
    <2>1. Len(Append(conts, cn)) = Len(conts) + 1 /\ Len(conts) \in Nat
      BY <1>1, AppendProperties
    <2>. QED
      BY <2>1
  <1>3. CASE Interpret
    <2>1. Len(conts) \in Nat
          /\ \E f : conts' = [i \in 1..Len(conts) |-> f[i]]
      <3>. DEFINE f == [i \in 1..Len(conts) |->
                         IF conts[i].owner = Main
                         THEN [conts[i] EXCEPT !.owner = None] ELSE conts[i]]
      <3>1. conts' = [i \in 1..Len(conts) |-> f[i]]
        BY <1>3 DEF Interpret
      <3>. HIDE DEF f
      <3>. QED
        BY <1>1, <3>1
    <2>2. 1..Len(conts) = {}
      BY <2>1
    <2>. QED
      BY <1>1, <2>1, <2>2
  <1>4. ASSUME NEW i, NEW k, CallContinuation(i, k)
        PROVE  FALSE
    BY <1>2, <1>4 DEF CallContinuation
  <1>5. ASSUME NEW hd, CallCC(hd)
        PROVE  FALSE
    BY <1>2, <1>5 DEF CallCC
  <1>6. CASE Next /\ ~Interpret
    <2>1. conts' = conts
      BY <1>4, <1>5, <1>6
      DEF Next, Call, CallToNull, PushOperand, PopOperand, EnterTry, LeaveTry, Catch,
          ThrowUncaught, Stop, AssertFails, Return, InlineReturn, Yield, Unwind, CallNative,
          NativeReturns, NativeCalls, NativeCallsToNull, NativeCallFails
    <2>. QED
      BY <2>1
  <1>. QED
    BY <1>3, <1>6 DEF vars

(* A native that goes on after a callback finds its operands below the     *)
(* slots of the closures it called, and the handlers as they were when it  *)
(* was entered, until callcc is used (call_continuation), in every         *)
(* execution in which no handler is dropped.                               *)
THEOREM NativesStayUndisturbed ==
  Spec /\ HandlersFit => []NativesUndisturbed
  <1>. DEFINE Calm == conts = <<>> => Undisturbed
  <1>1. Init => Calm
    BY StartUndisturbed
  <1>2. IInv /\ Tried /\ Calm /\ [Next]_vars => Calm'
    BY FirstContinuation, NextUndisturbed
  <1>3. IInv /\ Calm => NativesUndisturbed
    BY UndisturbedSuffices DEF NativesUndisturbed
  <1>4. Spec /\ HandlersFit => [](IInv /\ Tried)
    BY TriedAlways
  <1>. HIDE DEF Calm
  <1>. QED
    BY <1>1, <1>2, <1>3, <1>4, PTL DEF Spec
=============================================================================
