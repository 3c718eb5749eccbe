------------------------------ MODULE VmContext ------------------------------
(***************************************************************************)
(* The execution context of the Sleep VM (src/src/slp_vm.c): the call      *)
(* frames, the height of the operand stack and the array of try handlers.  *)
(* The three live in flat arrays of struct SlpVM (src/include/slp_vm.h);   *)
(* coroutines and continuations are copies of a piece, or of the whole, of *)
(* that context.  This module has the constants, the shape of the data and *)
(* the operators that cut a context and put it together again.             *)
(*                                                                         *)
(* Values are abstracted: the stack is its height, an instruction pointer  *)
(* is the list of the try statements it is inside of.                      *)
(***************************************************************************)
EXTENDS Naturals, Sequences

CONSTANTS
  Closures,     \* closure objects the script can call
  Inline,       \* those with is_inline: they run in their caller's scope
  Main,         \* the closure slp_vm_run makes of the script itself
  None,         \* "not suspended", "no owner"
  FixedSlots,   \* slots of an activation: callee, $0, $1..$9, @_ (12)
  StackMax,     \* SLP_STACK_MAX
  MaxFrames,    \* SLP_MAX_FRAMES
  MaxHandlers   \* SLP_MAX_HANDLERS

ASSUME ContextAssumption ==
  /\ Inline \subseteq Closures
  /\ Main \in Closures \ Inline
  /\ None \notin Closures
  /\ FixedSlots \in Nat \ {0}
  /\ StackMax \in Nat /\ StackMax >= FixedSlots
  /\ MaxFrames \in Nat \ {0}
  /\ MaxHandlers \in Nat

(***************************************************************************)
(* A frame: its closure, the stack index of its slots, the operand heights *)
(* (from its slots) at which the try statements around its instruction     *)
(* pointer were entered, and the continuation it returns to (0: none).     *)
(***************************************************************************)
Frame == [cl : Closures, base : Nat, tries : Seq(Nat), ret : Nat]

(* A try handler: frame_count and stack_count when the try was entered;   *)
(* level, the number of enclosing tries, stands for catch_ip.             *)
Handler == [fc : Nat, sc : Nat, level : Nat]

(* The activation saved in a closure by yield and callcc: frames and      *)
(* handlers counted from the activation's own root.                       *)
Saved == [frames : Seq(Frame), handlers : Seq(Handler),
          size : Nat, needs : BOOLEAN]

(* A continuation object: a copy of the whole context.  owner and resume  *)
(* are set by callcc only.                                                *)
Continuation == [frames : Seq(Frame), handlers : Seq(Handler), sp : Nat,
                 owner : Closures \cup {None}, resume : Nat]

NewFrame(c, b) == [cl |-> c, base |-> b, tries |-> <<>>, ret |-> 0]

Last(s) == s[Len(s)]
First(s, n) == SubSeq(s, 1, IF n < Len(s) THEN n ELSE Len(s))
AllButLast(s) == SubSeq(s, 1, Len(s) - 1)

(* Variants that forget to trim, or trim the handlers of frame n as well.  *)
TrimForgotten(hs, n, k) == n \in Nat /\ k = Len(hs)
TrimTooFar(hs, n, k) ==
  /\ k \in 0..Len(hs)
  /\ k > 0 => hs[k].fc < n
  /\ \A j \in k+1..Len(hs) : hs[j].fc >= n

(***************************************************************************)
(* k handlers are left when trim_try_handlers(vm, n) has popped, from the  *)
(* end, those of frames above n.                                           *)
(***************************************************************************)
IsTrim(hs, n, k) ==
  /\ k \in 0..Len(hs)
  /\ k > 0 => hs[k].fc <= n
  /\ \A j \in k+1..Len(hs) : hs[j].fc > n

(* r is the ordinary frame that yield, callcc and an inline return act    *)
(* for: the innermost one that is not inline, or the outermost frame.     *)
IsRoot(fs, r) ==
  /\ r \in 1..Len(fs)
  /\ r > 1 => fs[r].cl \notin Inline
  /\ \A j \in r+1..Len(fs) : fs[j].cl \in Inline

(***************************************************************************)
(* capture_coroutine_try_handlers copies the handlers after the first k,   *)
(* k found by a scan from the front.                                       *)
(***************************************************************************)
IsSplit(hs, n, k) ==
  /\ k \in 0..Len(hs)
  /\ \A j \in 1..k : hs[j].fc <= n
  /\ k < Len(hs) => hs[k+1].fc > n

(* A variant that leaves the stack heights of the handlers as they are.    *)
CaptureKeepsHeights(fs, hs, r, k, s, needs) ==
  [frames   |-> [i \in 1..Len(fs)-r+1 |->
                   [fs[r+i-1] EXCEPT !.base = fs[r+i-1].base - fs[r].base]],
   handlers |-> [j \in 1..Len(hs)-k |->
                   [hs[k+j] EXCEPT !.fc = hs[k+j].fc - (r - 1)]],
   size     |-> s - fs[r].base,
   needs    |-> needs]

(* The frames from r on and the handlers after k, counted from frame r.    *)
Capture(fs, hs, r, k, s, needs) ==
  LET b == fs[r].base IN
  [frames   |-> [i \in 1..Len(fs)-r+1 |->
                   [fs[r+i-1] EXCEPT !.base = fs[r+i-1].base - b]],
   handlers |-> [j \in 1..Len(hs)-k |->
                   [fc |-> hs[k+j].fc - (r - 1), sc |-> hs[k+j].sc - b,
                    level |-> hs[k+j].level]],
   size     |-> s - b,
   needs    |-> needs]

(* Variants that put slots and handlers back where they were saved.        *)
ResumedInPlace(sv, b) == [i \in 1..Len(sv.frames) |-> sv.frames[i]]
HandlersInPlace(sv, n, b) == [j \in 1..Len(sv.handlers) |-> sv.handlers[j]]

(* A saved activation put back on top of n frames, its slots at b.         *)
ResumedFrames(sv, b) ==
  [i \in 1..Len(sv.frames) |->
     [sv.frames[i] EXCEPT !.base = sv.frames[i].base + b]]
ResumedHandlers(sv, n, b) ==
  [j \in 1..Len(sv.handlers) |->
     [fc |-> sv.handlers[j].fc + n, sc |-> sv.handlers[j].sc + b,
      level |-> sv.handlers[j].level]]

-----------------------------------------------------------------------------
(* The lowest height the code of the top frame pops to.                    *)
FloorOf(fs) ==
  LET top == Last(fs) IN
  top.base + (IF top.tries = <<>> THEN FixedSlots ELSE Last(top.tries))

(* The operands of frame i end where the slots of the next one begin.      *)
Ceiling(fs, s, i) == IF i = Len(fs) THEN s ELSE fs[i+1].base

(***************************************************************************)
(* Activations are stacked: fixed slots, then operands, then the next      *)
(* activation; a try was entered at a height between the two.              *)
(***************************************************************************)
FramesStacked(fs, s) ==
  /\ \A i \in 1..Len(fs) : fs[i].base + FixedSlots <= Ceiling(fs, s, i)
  /\ \A i, j \in 1..Len(fs) : i < j => fs[i].base + FixedSlots <= fs[j].base
  /\ \A i \in 1..Len(fs) : \A l \in 1..Len(fs[i].tries) :
        /\ FixedSlots <= fs[i].tries[l]
        /\ fs[i].base + fs[i].tries[l] <= Ceiling(fs, s, i)
        /\ \A m \in 1..Len(fs[i].tries) :
              l < m => fs[i].tries[l] <= fs[i].tries[m]

(***************************************************************************)
(* Every handler belongs to a try its frame is inside of, was recorded at  *)
(* that try's height, and lies after the handlers of outer tries.          *)
(***************************************************************************)
HandlersNested(fs, hs) ==
  /\ \A h \in 1..Len(hs) :
        /\ hs[h].fc \in 1..Len(fs)
        /\ hs[h].level < Len(fs[hs[h].fc].tries)
        /\ hs[h].sc = fs[hs[h].fc].base + fs[hs[h].fc].tries[hs[h].level + 1]
  /\ \A g, h \in 1..Len(hs) : g < h =>
        \/ hs[g].fc < hs[h].fc
        \/ hs[g].fc = hs[h].fc /\ hs[g].level < hs[h].level

WellFormed(fs, s, hs) == FramesStacked(fs, s) /\ HandlersNested(fs, hs)

(***************************************************************************)
(* A saved activation of closure c: one ordinary frame (c's) with inline   *)
(* ones above it, well formed from height 0.                               *)
(***************************************************************************)
SavedSound(c, sv) ==
  /\ sv.frames # <<>>
  /\ sv.frames[1].cl = c /\ sv.frames[1].base = 0
  /\ \A i \in 2..Len(sv.frames) : sv.frames[i].cl \in Inline
  /\ WellFormed(sv.frames, sv.size, sv.handlers)
=============================================================================
