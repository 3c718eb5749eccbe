------------------------------ MODULE VmControl ------------------------------
(***************************************************************************)
(* Control flow of the Sleep VM (src/src/slp_vm.c): calls and returns,     *)
(* try/catch/throw, coroutines (yield and the call that resumes), callcc   *)
(* and continuations, natives that call closures back through a nested     *)
(* dispatch loop (slp_vm_call), abort and exit.                            *)
(*                                                                         *)
(* One step is one instruction of the innermost dispatch loop, or one step *)
(* of the native that runs above it.                                       *)
(***************************************************************************)
EXTENDS VmContext

CONSTANTS
  Args,         \* argument counts of the calls explored
  Roots,        \* how many values a native keeps on the stack for itself
  MaxTries,     \* bound: try statements nested in one closure
  MaxConts,     \* bound: continuation objects ever made
  MaxNatives    \* bound: natives in progress

ASSUME ControlAssumption ==
  /\ Args \subseteq Nat /\ Roots \subseteq Nat
  /\ MaxTries \in Nat /\ MaxConts \in Nat /\ MaxNatives \in Nat

VARIABLES
  frames,       \* vm->frames[0 .. frame_count-1]
  sp,           \* vm->stack_top - vm->stack
  handlers,     \* vm->try_handlers[0 .. try_handler_count-1]
  coro,         \* the coroutine_* fields of every closure, or None
  conts,        \* the continuation objects, in the order they were made
  natives,      \* natives that are executing, outermost first
  targets,      \* target_frame_count of every slp_vm_call in progress
  abort,        \* "no", or abort_requested without/with flow_exit_requested
  status        \* who executes: a dispatch loop, a native, or nobody

vars == <<frames, sp, handlers, coro, conts, natives, targets, abort, status>>

(***************************************************************************)
(* A native in progress: the stack index its result goes to, the height it *)
(* expects on the stack between two calls of its own, the frames and the   *)
(* handlers when it was entered, and whether it calls back through         *)
(* slp_vm_call_value or slp_vm_eval_inline, which put the two counts and   *)
(* the stack top back, or through slp_vm_call, which does not.             *)
(***************************************************************************)
Native == [base : Nat, sp : Nat, caller : Seq(Frame), hs : Seq(Handler),
           guarded : BOOLEAN]

Finished == {"ok", "error", "halt"}

TypeOK ==
  /\ frames \in Seq(Frame)
  /\ sp \in Nat
  /\ handlers \in Seq(Handler)
  /\ coro \in [Closures -> Saved \cup {None}]
  /\ conts \in Seq(Continuation)
  /\ natives \in Seq(Native)
  /\ targets \in Seq(Nat)
  /\ abort \in {"no", "frame", "exit"}
  /\ status \in {"run", "native"} \cup Finished

Depth == Len(frames)
Top == frames[Len(frames)]
Target == Last(targets)

Floor == FloorOf(frames)

(***************************************************************************)
(* The frames belong to the C code that is executing: a dispatch loop      *)
(* started by a native has a frame above that native's caller to run, and  *)
(* a native that goes on finds its caller's frames and its own operands,   *)
(* and, when its call put the handler count back, the handlers it counted. *)
(* Where this fails the loop executes somebody else's frames, or reads     *)
(* frames[-1]; the model stops there.                                      *)
(***************************************************************************)
Anchored ==
  /\ status = "run" =>
       Depth > (IF natives = <<>> THEN 0 ELSE Len(Last(natives).caller))
  /\ status = "native" =>
       /\ frames = Last(natives).caller
       /\ sp = Last(natives).sp
       /\ Last(natives).guarded => handlers = Last(natives).hs

Running == status = "run" /\ abort = "no" /\ Anchored
InNative == status = "native" /\ Anchored

-----------------------------------------------------------------------------
(* slp_vm_interpret: the three counts reset, then slp_vm_run.              *)
Start ==
  /\ frames = <<NewFrame(Main, 0)>>
  /\ sp = FixedSlots
  /\ handlers = <<>>
  /\ natives = <<>>
  /\ targets = <<0>>
  /\ abort = "no"
  /\ status = "run"

Init ==
  /\ Start
  /\ coro = [c \in Closures |-> None]
  /\ conts = <<>>

(***************************************************************************)
(* The host runs another script in the same VM, as the console does: the   *)
(* script is a closure object of its own, so what the previous one left    *)
(* suspended under the name Main cannot be reached any more.               *)
(***************************************************************************)
Interpret ==
  /\ status \in Finished
  /\ frames' = <<NewFrame(Main, 0)>>
  /\ sp' = FixedSlots
  /\ handlers' = <<>>
  /\ natives' = <<>>
  /\ targets' = <<0>>
  /\ abort' = "no"
  /\ status' = "run"
  /\ coro' = [coro EXCEPT ![Main] = None]
  /\ conts' = [i \in 1..Len(conts) |->
                 IF conts[i].owner = Main
                 THEN [conts[i] EXCEPT !.owner = None] ELSE conts[i]]

(***************************************************************************)
(* The innermost slp_vm_call returns result r and leaves fs, hs, s.  The   *)
(* host or the native that called it goes on; a native pops the value of a *)
(* successful call.                                                        *)
(***************************************************************************)
EndLoop(r, fs, hs, s) ==
  /\ targets' = AllButLast(targets)
  /\ natives' = natives
  /\ \/ /\ natives = <<>>
        /\ status' = r
        /\ frames' = fs /\ handlers' = hs /\ sp' = s
     \/ /\ natives # <<>>
        /\ status' = "native"
        /\ \/ /\ Last(natives).guarded
              /\ frames' = First(fs, Len(Last(natives).caller))
              /\ handlers' = First(hs, Len(Last(natives).hs))
              /\ sp' = Last(natives).sp
           \/ /\ ~Last(natives).guarded
              /\ frames' = fs /\ handlers' = hs
              /\ sp' = IF r = "ok" /\ s > 0 THEN s - 1 ELSE s

StayInLoop(fs, hs, s) ==
  /\ frames' = fs /\ handlers' = hs /\ sp' = s
  /\ UNCHANGED <<natives, targets, status>>

-----------------------------------------------------------------------------
(* call_closure for closure c at stack index b, in a context fs, hs, co.   *)
CanEnter(fs, hs, co, c, b) ==
  /\ Len(fs) < MaxFrames
  /\ IF co[c] = None
     THEN b + FixedSlots <= StackMax
     ELSE /\ b + co[c].size <= StackMax
          /\ Len(fs) + Len(co[c].frames) <= MaxFrames
          /\ Len(hs) + Len(co[c].handlers) <= MaxHandlers

(* A fresh activation, or the suspended one put back; a callcc that is     *)
(* resumed gets its value pushed.                                          *)
Enter(fs, hs, co, c, b) ==
  \/ /\ co[c] = None
     /\ frames' = Append(fs, NewFrame(c, b))
     /\ handlers' = hs
     /\ sp' = b + FixedSlots
     /\ coro' = co
     /\ abort' = abort
  \/ /\ co[c] # None
     /\ frames' = fs \o ResumedFrames(co[c], b)
     /\ handlers' = hs \o ResumedHandlers(co[c], Len(fs), b)
     /\ coro' = [co EXCEPT ![c] = None]
     /\ IF co[c].needs /\ b + co[c].size >= StackMax
        THEN sp' = b + co[c].size /\ abort' = "frame"
        ELSE /\ sp' = b + co[c].size + (IF co[c].needs THEN 1 ELSE 0)
             /\ abort' = abort

(* Where a call that failed leaves the stack.                              *)
FailHeight(fs, co, c, b, s) ==
  IF Len(fs) < MaxFrames /\ co[c] # None THEN b ELSE s

(* OP_CALL of a closure; the call fails at the limits of the VM.           *)
Call(c, k) ==
  LET b == sp - (k + 1) IN
  /\ Running
  /\ sp >= Floor + k + 1
  /\ \/ /\ CanEnter(frames, handlers, coro, c, b)
        /\ Enter(frames, handlers, coro, c, b)
        /\ UNCHANGED <<natives, targets, status>>
     \/ /\ ~CanEnter(frames, handlers, coro, c, b)
        /\ EndLoop("error", frames, handlers, FailHeight(frames, coro, c, b, sp))
        /\ UNCHANGED <<coro, abort>>
  /\ UNCHANGED conts

(* A callee that is not callable, or a closure called with a named         *)
(* parameter it cannot reach: arguments popped, null pushed.               *)
CallToNull(k) ==
  /\ Running
  /\ sp >= Floor + k + 1
  /\ sp' = sp - k
  /\ UNCHANGED <<frames, handlers, coro, conts, natives, targets, abort, status>>

(* A copy of the context as a continuation (capture_vm_context); the       *)
(* variant misses the last frame.                                          *)
SnapshotShort(s, c, r) ==
  [frames |-> AllButLast(frames), handlers |-> handlers, sp |-> s,
   owner |-> c, resume |-> r]

Snapshot(s, c, r) ==
  [frames |-> frames, handlers |-> handlers, sp |-> s, owner |-> c, resume |-> r]

(***************************************************************************)
(* A continuation is called.  The present context, without callee and      *)
(* arguments, becomes the continuation the resumed frame returns to; the   *)
(* whole saved context replaces it, nested dispatch loops or not.          *)
(***************************************************************************)
CallContinuation(i, k) ==
  LET b   == sp - (k + 1)
      cn  == conts[i]
  IN
  /\ Running
  /\ sp >= Floor + k + 1
  /\ Len(conts) < MaxConts
  /\ cn.resume # 0
  /\ conts' = Append(conts, Snapshot(b, None, 0))
  /\ coro' = IF cn.owner = None THEN coro ELSE [coro EXCEPT ![cn.owner] = None]
  /\ frames' = [cn.frames EXCEPT ![cn.resume].ret = Len(conts) + 1]
  /\ handlers' = cn.handlers
  /\ IF cn.sp < StackMax
     THEN sp' = cn.sp + 1 /\ abort' = abort
     ELSE sp' = cn.sp /\ abort' = "frame"
  /\ UNCHANGED <<natives, targets, status>>

-----------------------------------------------------------------------------
(* Instructions that push or pop operands.  The compiler emits none that   *)
(* pops below the operands of the statement it is in (as a variant does).  *)
PushOperand ==
  /\ Running
  /\ \/ sp < StackMax  /\ sp' = sp + 1 /\ abort' = abort
     \/ sp >= StackMax /\ sp' = sp     /\ abort' = "frame"
  /\ UNCHANGED <<frames, handlers, coro, conts, natives, targets, status>>

PopBelowFloor ==
  /\ Running
  /\ sp' = sp - 1
  /\ UNCHANGED <<frames, handlers, coro, conts, natives, targets, abort, status>>

PopOperand ==
  /\ Running
  /\ sp > Floor
  /\ sp' = sp - 1
  /\ UNCHANGED <<frames, handlers, coro, conts, natives, targets, abort, status>>

(* OP_PUSH_HANDLER: when the array is full nothing is recorded.            *)
EnterTry ==
  /\ Running
  /\ Len(Top.tries) < MaxTries
  /\ frames' = [frames EXCEPT ![Depth].tries = Append(@, sp - Top.base)]
  /\ handlers' = IF Len(handlers) < MaxHandlers
                 THEN Append(handlers, [fc |-> Depth, sc |-> sp,
                                        level |-> Len(Top.tries)])
                 ELSE handlers
  /\ UNCHANGED <<sp, coro, conts, natives, targets, abort, status>>

(* A variant of the next that pops no handler.                             *)
LeaveTryKeeps ==
  /\ Running
  /\ Top.tries # <<>>
  /\ frames' = [frames EXCEPT ![Depth].tries = AllButLast(@)]
  /\ UNCHANGED <<sp, handlers, coro, conts, natives, targets, abort, status>>

(* OP_POP_HANDLER, at the end of a try body or before a break out of it.   *)
LeaveTry ==
  /\ Running
  /\ Top.tries # <<>>
  /\ frames' = [frames EXCEPT ![Depth].tries = AllButLast(@)]
  /\ handlers' = IF handlers = <<>> THEN handlers ELSE AllButLast(handlers)
  /\ UNCHANGED <<sp, coro, conts, natives, targets, abort, status>>

(* OP_THROW with a handler: frames above the handler's are dropped.        *)
Catch ==
  LET h  == Last(handlers)
      fs == First(frames, h.fc)
  IN
  /\ Running
  /\ sp > Floor
  /\ handlers # <<>>
  /\ frames' = [fs EXCEPT ![Len(fs)].tries = First(@, h.level)]
  /\ handlers' = AllButLast(handlers)
  /\ sp' = h.sc + 1
  /\ UNCHANGED <<coro, conts, natives, targets, abort, status>>

(* OP_THROW without one: the dispatch loop returns an error.               *)
ThrowUncaught ==
  /\ Running
  /\ sp > Floor
  /\ handlers = <<>>
  /\ EndLoop("error", frames, handlers, sp - 1)
  /\ UNCHANGED <<coro, conts, abort>>

(* OP_HALT, OP_DONE, or an instruction that fails (a division by zero, no  *)
(* memory, a call whose named argument turns out to have no name once the  *)
(* callee's frame is there): the loop returns r, frames as they are.       *)
Stop(r) ==
  /\ Running
  /\ EndLoop(r, frames, handlers, sp)
  /\ UNCHANGED <<coro, conts, abort>>

(* OP_ASSERT: abort and flow exit are requested together.                  *)
AssertFails ==
  /\ Running
  /\ sp > Floor
  /\ sp' = sp - 1
  /\ abort' = "exit"
  /\ UNCHANGED <<frames, handlers, coro, conts, natives, targets, status>>

-----------------------------------------------------------------------------
(* OP_RETURN.  A frame entered through a continuation restores the         *)
(* invoker's context; any other drops its slots for the result, and ends   *)
(* the loop at its target (a loop of Sleep frames never sees 0 before it). *)
Return ==
  LET fr == Top IN
  /\ Running
  /\ sp > Floor
  /\ \/ /\ fr.ret # 0
        /\ StayInLoop(conts[fr.ret].frames, conts[fr.ret].handlers,
                      conts[fr.ret].sp + 1)
     \/ /\ fr.ret = 0
        /\ \E k \in 0..Len(handlers) :
              /\ IsTrim(handlers, Depth - 1, k)
              /\ LET fs == AllButLast(frames)
                     hs == SubSeq(handlers, 1, k)
                 IN IF Depth - 1 \in {Target, 0}
                    THEN EndLoop("ok", fs, hs, fr.base + 1)
                    ELSE StayInLoop(fs, hs, fr.base + 1)
  /\ UNCHANGED <<coro, conts, abort>>

(* OP_INLINE_RETURN: the ordinary caller returns with all inline frames    *)
(* above it, and a suspended activation of its closure is forgotten.       *)
InlineReturn ==
  /\ Running
  /\ sp > Floor
  /\ Top.cl \in Inline
  /\ \E r \in 1..Depth, k \in 0..Len(handlers) :
        /\ IsRoot(frames, r)
        /\ IsTrim(handlers, r - 1, k)
        /\ coro' = [coro EXCEPT ![frames[r].cl] = None]
        /\ LET fs == SubSeq(frames, 1, r - 1)
               hs == SubSeq(handlers, 1, k)
           IN IF r - 1 \in {Target, 0}
              THEN EndLoop("ok", fs, hs, frames[r].base + 1)
              ELSE StayInLoop(fs, hs, frames[r].base + 1)
  /\ UNCHANGED <<conts, abort>>

(* OP_YIELD: the root frame, the inline frames above it, their operands    *)
(* and handlers are saved in the root's closure.                           *)
Yield ==
  /\ Running
  /\ sp > Floor
  /\ \E r \in 1..Depth, k, m \in 0..Len(handlers) :
        /\ IsRoot(frames, r)
        /\ IsTrim(handlers, r - 1, k)
        /\ IsSplit(handlers, r - 1, m)
        /\ coro' = [coro EXCEPT ![frames[r].cl] =
                      Capture(frames, handlers, r, m, sp - 1, FALSE)]
        /\ LET fs == SubSeq(frames, 1, r - 1)
               hs == SubSeq(handlers, 1, k)
           IN IF r - 1 = Target
              THEN EndLoop("ok", fs, hs, frames[r].base + 1)
              ELSE StayInLoop(fs, hs, frames[r].base + 1)
  /\ UNCHANGED <<conts, abort>>

(***************************************************************************)
(* OP_CALLCC: the context is copied to a continuation, the activation is   *)
(* saved in its closure as by yield, and the handler is called in its      *)
(* place; an operand that is not a closure makes the continuation itself   *)
(* the caller's value.                                                     *)
(***************************************************************************)
CallCC(hd) ==
  /\ Running
  /\ sp > Floor
  /\ Len(conts) < MaxConts
  /\ \E r \in 1..Depth, k, m \in 0..Len(handlers) :
        LET b  == frames[r].base
            fs == SubSeq(frames, 1, r - 1)
            hs == SubSeq(handlers, 1, k)
            co == [coro EXCEPT ![frames[r].cl] =
                     Capture(frames, handlers, r, m, sp - 1, TRUE)]
        IN
        /\ IsRoot(frames, r)
        /\ IsTrim(handlers, r - 1, k)
        /\ IsSplit(handlers, r - 1, m)
        /\ conts' = Append(conts, Snapshot(sp - 1, frames[r].cl, r))
        /\ \/ /\ hd = None
              /\ StayInLoop(fs, hs, b + 1)
              /\ coro' = co
              /\ abort' = abort
           \/ /\ hd # None
              /\ CanEnter(fs, hs, co, hd, b)
              /\ Enter(fs, hs, co, hd, b)
              /\ UNCHANGED <<natives, targets, status>>
           \/ /\ hd # None
              /\ ~CanEnter(fs, hs, co, hd, b)
              /\ EndLoop("error", fs, hs, FailHeight(fs, co, hd, b, b + 2))
              /\ coro' = co
              /\ abort' = abort

(***************************************************************************)
(* The test at the end of an instruction: an abort drops the running       *)
(* frame, an exit all frames of this dispatch loop.                        *)
(***************************************************************************)
Unwind ==
  LET wanted == IF abort = "exit" THEN Target ELSE Depth - 1
      n      == IF wanted < Depth THEN wanted ELSE Depth
      slot   == IF n < Depth THEN frames[n + 1].base ELSE Top.base
  IN
  /\ status = "run" /\ abort # "no" /\ Anchored
  /\ \E k \in 0..Len(handlers) :
        /\ IsTrim(handlers, n, k)
        /\ LET fs == SubSeq(frames, 1, n)
               hs == SubSeq(handlers, 1, k)
           IN IF abort = "exit" \/ n = Target
              THEN EndLoop("ok", fs, hs, slot + 1)
              ELSE StayInLoop(fs, hs, slot + 1)
  /\ abort' = "no"
  /\ UNCHANGED <<coro, conts>>

-----------------------------------------------------------------------------
(* A native is called: it keeps q values of its own on the stack while it  *)
(* calls closures.  Where a push of a native finds the stack full, here    *)
(* and in the calls below, slp_vm_push drops the value and asks for an     *)
(* abort, and the native goes on without it: the model stops there.        *)
CallNative(k, q, g) ==
  /\ Running
  /\ sp >= Floor + k + 1
  /\ sp + q <= StackMax
  /\ Len(natives) < MaxNatives
  /\ natives' = Append(natives, [base |-> sp - (k + 1), sp |-> sp + q,
                                 caller |-> frames, hs |-> handlers,
                                 guarded |-> g])
  /\ sp' = sp + q
  /\ status' = "native"
  /\ UNCHANGED <<frames, handlers, coro, conts, targets, abort>>

(* It returns: with a warning that aborts, after exit(), or plainly.       *)
NativeReturns(a) ==
  /\ InNative
  /\ sp' = Last(natives).base + 1
  /\ natives' = AllButLast(natives)
  /\ abort' = a
  /\ status' = "run"
  /\ UNCHANGED <<frames, handlers, coro, conts, targets>>

(* slp_vm_call from a native: the new loop's target is computed from the   *)
(* frame count after the call.  A callcc that is resumed at a full stack   *)
(* asks for an abort before the loop starts, and the loop tests for it     *)
(* after one instruction of the callee: the model stops there as well.     *)
NativeCalls(c, k) ==
  /\ InNative
  /\ sp + k + 1 <= StackMax
  /\ CanEnter(frames, handlers, coro, c, sp)
  /\ Enter(frames, handlers, coro, c, sp)
  /\ abort' = "no"
  /\ targets' = Append(targets, Len(frames') - 1)
  /\ status' = "run"
  /\ UNCHANGED <<conts, natives>>

(* The same when call_closure rejects a named argument: it pushes null,    *)
(* makes no frame and reports success.                                     *)
NativeCallsToNull(k) ==
  /\ InNative
  /\ k > 0
  /\ sp + k + 1 <= StackMax
  /\ sp' = sp + 1
  /\ targets' = Append(targets, Depth - 1)
  /\ status' = "run"
  /\ UNCHANGED <<frames, handlers, coro, conts, natives, abort>>

(* The same when the VM is at a limit: the native gets an error.  slp_vm_  *)
(* call_value has looked for room on the stack before it pushes.           *)
NativeCallFails(c, k) ==
  /\ InNative
  /\ IF sp + k + 1 <= StackMax THEN ~CanEnter(frames, handlers, coro, c, sp)
     ELSE Last(natives).guarded
  /\ sp' = IF Last(natives).guarded THEN Last(natives).sp
           ELSE FailHeight(frames, coro, c, sp, sp + k + 1)
  /\ UNCHANGED <<frames, handlers, coro, conts, natives, targets, abort, status>>

-----------------------------------------------------------------------------
Callable == Closures \ {Main}

Next ==
  \/ Interpret
  \/ \E c \in Callable, k \in Args : Call(c, k)
  \/ \E k \in Args : CallToNull(k)
  \/ \E i \in 1..Len(conts), k \in Args : CallContinuation(i, k)
  \/ PushOperand \/ PopOperand
  \/ EnterTry \/ LeaveTry \/ Catch \/ ThrowUncaught
  \/ \E r \in Finished : Stop(r)
  \/ AssertFails
  \/ Return \/ InlineReturn \/ Yield
  \/ \E hd \in Callable \cup {None} : CallCC(hd)
  \/ Unwind
  \/ \E k \in Args, q \in Roots, g \in BOOLEAN : CallNative(k, q, g)
  \/ \E a \in {"no", "frame", "exit"} : NativeReturns(a)
  \/ \E c \in Callable, k \in Args : NativeCalls(c, k)
  \/ \E k \in Args : NativeCallsToNull(k)
  \/ \E c \in Callable, k \in Args : NativeCallFails(c, k)

Spec == Init /\ [][Next]_vars

-----------------------------------------------------------------------------
(***************************************************************************)
(* While the frames are anchored, activations do not overlap on the stack: *)
(* no call, return, resumption, catch or abort leaves the stack top or a   *)
(* frame's slots inside another activation's slots or operands.            *)
(***************************************************************************)
StackDiscipline == Anchored => FramesStacked(frames, sp)

(***************************************************************************)
(* Every recorded handler belongs to a try its frame is inside of, at the  *)
(* height that try was entered: a throw never unwinds to a frame that is   *)
(* gone or to a height of another activation.  The code rebases handlers   *)
(* when a coroutine is saved and resumed in another place.                 *)
(***************************************************************************)
HandlerDiscipline == Anchored => HandlersNested(frames, handlers)

(***************************************************************************)
(* A saved coroutine is one ordinary activation (its closure's, or the     *)
(* outermost frame) with inline ones above it, well formed from height 0;  *)
(* a continuation is a well formed context whose resumed frame exists.     *)
(***************************************************************************)
CoroutinesSound ==
  \A c \in Closures : coro[c] # None => SavedSound(c, coro[c])

ContinuationsSound ==
  \A i \in 1..Len(conts) :
    /\ conts[i].resume \in 0..Len(conts[i].frames)
    /\ WellFormed(conts[i].frames, conts[i].sp, conts[i].handlers)

(***************************************************************************)
(* Every try a live frame is inside of has its handler: a throw in its     *)
(* body cannot pass it by.  (OP_PUSH_HANDLER drops the handler when the    *)
(* array is full: checked where it never is.)                              *)
(***************************************************************************)
EveryTryHasHandler ==
  Anchored => \A i \in 1..Depth : \A l \in 1..Len(frames[i].tries) :
    \E h \in 1..Len(handlers) :
      handlers[h].fc = i /\ handlers[h].level = l - 1

(***************************************************************************)
(* A native that goes on after a callback finds what it left: its operands *)
(* below the slots of the closures it called, and the handlers as they     *)
(* were when it was entered (no caller's used up, no callee's left).  A    *)
(* continuation replaces the context of natives it knows nothing about:    *)
(* this is said until callcc is used.                                      *)
(***************************************************************************)
NativesUndisturbed ==
  conts = <<>> => \A i \in 1..Len(natives) :
    LET nt == natives[i] IN
    /\ Anchored /\ Depth > Len(nt.caller) =>
         frames[Len(nt.caller) + 1].base >= nt.sp
    /\ Anchored /\ i = Len(natives) /\ status = "native" =>
         handlers = nt.hs

(***************************************************************************)
(* A caught throw lands in the innermost try of the innermost activation   *)
(* that is inside of one, with the operands that were there when the try   *)
(* was entered and the exception on top: what OP_THROW reads from the      *)
(* handler array is what the nesting of the source text says.              *)
(***************************************************************************)
ThrowReachesInnermostTry ==
  [][Catch => \E i \in 1..Depth :
       /\ frames[i].tries # <<>>
       /\ \A j \in i+1..Depth : frames[j].tries = <<>>
       /\ Len(frames') = i
       /\ frames'[i].tries = AllButLast(frames[i].tries)
       /\ sp' = frames[i].base + Last(frames[i].tries) + 1]_vars

-----------------------------------------------------------------------------
(***************************************************************************)
(* The inductive invariant the proofs use (VmControlProofs).               *)
(***************************************************************************)
ContextSound == Anchored => WellFormed(frames, sp, handlers)

(* A native was called from code above its result's slot, and in between   *)
(* its calls it has its caller's whole context below its own operands.     *)
NativesSound ==
  \A i \in 1..Len(natives) :
    LET nt == natives[i] IN
    /\ nt.caller # <<>>
    /\ FloorOf(nt.caller) <= nt.base
    /\ nt.base < nt.sp
    /\ WellFormed(nt.caller, nt.sp, nt.hs)

(* One dispatch loop for the host's call and one for each native that      *)
(* waits for a closure.                                                    *)
LoopsMatch ==
  /\ targets # <<>> => targets[1] = 0
  /\ status = "run" => Len(targets) = Len(natives) + 1
  /\ status = "native" => natives # <<>> /\ Len(targets) = Len(natives)
  /\ status \in Finished => natives = <<>>

(* Frames return to continuations that were made.                          *)
RetsMade(fs) == \A i \in 1..Len(fs) : fs[i].ret <= Len(conts)

RetsExist ==
  /\ RetsMade(frames)
  /\ \A c \in Closures : coro[c] # None => RetsMade(coro[c].frames)
  /\ \A i \in 1..Len(conts) : RetsMade(conts[i].frames)

IInv ==
  /\ TypeOK
  /\ ContextSound
  /\ CoroutinesSound
  /\ ContinuationsSound
  /\ NativesSound
  /\ LoopsMatch
  /\ RetsExist

=============================================================================
