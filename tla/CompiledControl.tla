--------------------------- MODULE CompiledControl ---------------------------
(***************************************************************************)
(* Compilation of control statements (src/src/slp_compiler.c): if, while   *)
(* (also in its assignment form), for, foreach, try/catch, break,          *)
(* continue, throw and return become one flat array of instructions with   *)
(* jumps that are emitted first and patched later.  The instructions are   *)
(* then executed as the dispatch loop does, side by side with the          *)
(* statements themselves: todo is what the source text says is left to do. *)
(*                                                                         *)
(* Expressions are abstract: an "act" statement is any expression, a test  *)
(* any condition, known by the identity of the statement it belongs to.    *)
(***************************************************************************)
EXTENDS Naturals, Sequences

CONSTANTS
  Programs,     \* the programs explored: sequences of statements
  JumpMax,      \* size of break_jumps and of continue_jumps (256)
  StackMax      \* operands an activation has room for

ASSUME CompiledAssumption == JumpMax \in Nat /\ StackMax \in Nat

VARIABLES
  code,         \* the chunk
  pc,           \* the instruction pointer
  stack,        \* the operands of the activation
  handlers,     \* the try handlers of the activation
  todo,         \* statements left to execute, as the source text says
  status        \* "run", or how the execution ended

vars == <<code, pc, stack, handlers, todo, status>>

-----------------------------------------------------------------------------
(* Statements.                                                             *)
Act(i)             == [k |-> "act", id |-> i]
Break              == [k |-> "break"]
Continue           == [k |-> "continue"]
Return             == [k |-> "return"]
Throw(i)           == [k |-> "throw", id |-> i]
If(i, b, c)        == [k |-> "if", id |-> i, body |-> b, else |-> c]
While(i, b)        == [k |-> "while", id |-> i, body |-> b]
For(i, cond, b)    == [k |-> "for", id |-> i, cond |-> cond, body |-> b]
Foreach(i, b)      == [k |-> "foreach", id |-> i, body |-> b]
Try(b, c)          == [k |-> "try", body |-> b, catch |-> c]

-----------------------------------------------------------------------------
(***************************************************************************)
(* The compiler's state: the chunk, the two arrays of jumps to patch with  *)
(* their counts, try_depth, loop_try_depth and whether loop_start is set.  *)
(* An instruction's jump target is 0 until it is patched.                  *)
(***************************************************************************)
Start ==
  LET none == [j \in 1..JumpMax |-> 0] IN
  [code |-> <<>>, breaks |-> none, nbreaks |-> 0,
   continues |-> none, ncontinues |-> 0,
   tries |-> 0, looptries |-> 0, inloop |-> FALSE]

(* emit_jump, patch_jump, emit_loop.                                       *)
Emit(cs, op, id) ==
  [cs EXCEPT !.code = Append(@, [op |-> op, id |-> id, to |-> 0])]
Here(cs) == Len(cs.code) + 1
PatchTo(cs, p, t) == [cs EXCEPT !.code[p].to = t]

Patch(cs, p) == PatchTo(cs, p, Here(cs))
EmitLoop(cs, t, id) == PatchTo(Emit(cs, "loop", id), Here(cs), t)

(* All jumps in the first n places of an array get target t.               *)
PatchAll(cs, jumps, n, t) ==
  [cs EXCEPT !.code =
     [p \in DOMAIN cs.code |->
        IF \E j \in 1..n : jumps[j] = p
        THEN [cs.code[p] EXCEPT !.to = t] ELSE cs.code[p]]]

(* A loop begins: the counts restart, the arrays are the same.             *)
OpenLoop(cs) ==
  [cs EXCEPT !.nbreaks = 0, !.ncontinues = 0,
             !.looptries = cs.tries, !.inloop = TRUE]

(* ... and ends: the outer loop's counts are restored.                     *)
CloseLoop(cs, outer) ==
  [cs EXCEPT !.nbreaks = outer.nbreaks, !.ncontinues = outer.ncontinues,
             !.looptries = outer.looptries, !.inloop = outer.inloop]

PatchBreaks(cs) == PatchAll(cs, cs.breaks, cs.nbreaks, Here(cs))

(* A variant that makes `continue' do what `break' does.                   *)
ContinuesExit(cs, t) == PatchAll(cs, cs.continues, cs.ncontinues, Here(cs))

PatchContinues(cs, t) == PatchAll(cs, cs.continues, cs.ncontinues, t)

(* Handlers of the tries between here and the loop are popped on the way;  *)
(* a variant leaves them.                                                  *)
KeepTries(cs, n) == cs

RECURSIVE PopTries(_, _)
PopTries(cs, n) == IF n = 0 THEN cs ELSE PopTries(Emit(cs, "unhandler", 0), n - 1)

CompileBreak(cs) ==
  IF ~cs.inloop THEN cs
  ELSE LET c == PopTries(cs, cs.tries - cs.looptries)
           j == Emit(c, "jump", 0)
       IN IF c.nbreaks < JumpMax
          THEN [j EXCEPT !.nbreaks = @ + 1, !.breaks[c.nbreaks + 1] = Here(c)]
          ELSE j

CompileContinue(cs) ==
  IF ~cs.inloop THEN cs
  ELSE LET c == PopTries(cs, cs.tries - cs.looptries)
           j == Emit(c, "jump", 0)
       IN IF c.ncontinues < JumpMax
          THEN [j EXCEPT !.ncontinues = @ + 1,
                         !.continues[c.ncontinues + 1] = Here(c)]
          ELSE j

RECURSIVE CompileBlock(_, _)

CompileIf(s, cs) ==
  LET test == Emit(cs, "test", s.id)
      then == CompileBlock(s.body, Emit(Emit(test, "jfalse", s.id), "pop", s.id))
      over == Patch(Emit(then, "jump", s.id), Here(test))
      else == CompileBlock(s.else, Emit(over, "pop", s.id))
  IN Patch(else, Here(then))

(* `continue' and `break' both go to the end of a while loop.              *)
CompileWhile(s, cs) ==
  LET test == Emit(OpenLoop(cs), "test", s.id)
      body == CompileBlock(s.body, Emit(Emit(test, "jfalse", s.id), "pop", s.id))
      back == EmitLoop(body, Here(cs), s.id)
      exit == PatchBreaks(Emit(Patch(back, Here(test)), "pop", s.id))
  IN CloseLoop(PatchContinues(exit, Here(exit)), cs)

(* A for loop without a condition has no exit but `break'.                 *)
CompileFor(s, cs) ==
  LET open == OpenLoop(cs)
      test == Emit(open, "test", s.id)
      top  == IF s.cond THEN Emit(Emit(test, "jfalse", s.id), "pop", s.id)
              ELSE open
      body == CompileBlock(s.body, top)
      back == EmitLoop(Emit(body, "act", s.id), Here(cs), s.id)
      exit == IF s.cond THEN Emit(Patch(back, Here(test)), "pop", s.id) ELSE back
  IN CloseLoop(PatchBreaks(PatchContinues(exit, Here(body))), cs)

(* A variant whose `break' skips the pops at the end of a foreach loop.    *)
ForeachBreaksLate(s, cs) ==
  LET gen  == Emit(cs, "gen", s.id)
      next == Emit(OpenLoop(gen), "next", s.id)
      body == CompileBlock(s.body, next)
      back == EmitLoop(PatchContinues(body, Here(body)), Here(gen), s.id)
      exit == Emit(Emit(Patch(back, Here(gen)), "pop", s.id), "pop", s.id)
  IN CloseLoop(PatchBreaks(exit), gen)

(* The collection and the iterator stay on the stack during the loop.      *)
CompileForeach(s, cs) ==
  LET gen  == Emit(cs, "gen", s.id)
      next == Emit(OpenLoop(gen), "next", s.id)
      body == CompileBlock(s.body, next)
      back == EmitLoop(PatchContinues(body, Here(body)), Here(gen), s.id)
      exit == PatchBreaks(Patch(back, Here(gen)))
  IN CloseLoop(Emit(Emit(exit, "pop", s.id), "pop", s.id), gen)

CompileTry(s, cs) ==
  LET open  == [Emit(cs, "handler", 0) EXCEPT !.tries = @ + 1]
      body  == [CompileBlock(s.body, open) EXCEPT !.tries = @ - 1]
      end   == Emit(body, "unhandler", 0)
      catch == CompileBlock(s.catch, Patch(Emit(end, "jump", 0), Here(cs)))
  IN Patch(catch, Here(end))

CompileStatement(s, cs) ==
  CASE s.k = "act"      -> Emit(cs, "act", s.id)
    [] s.k = "throw"    -> Emit(cs, "throw", s.id)
    [] s.k = "return"   -> Emit(cs, "return", 0)
    [] s.k = "break"    -> CompileBreak(cs)
    [] s.k = "continue" -> CompileContinue(cs)
    [] s.k = "if"       -> CompileIf(s, cs)
    [] s.k = "while"    -> CompileWhile(s, cs)
    [] s.k = "for"      -> CompileFor(s, cs)
    [] s.k = "foreach"  -> CompileForeach(s, cs)
    [] s.k = "try"      -> CompileTry(s, cs)

CompileBlock(ss, cs) ==
  IF ss = <<>> THEN cs ELSE CompileBlock(Tail(ss), CompileStatement(Head(ss), cs))

Compile(p) == Emit(CompileBlock(p, Start), "return", 0).code

-----------------------------------------------------------------------------
(***************************************************************************)
(* What the source text says is left to do: statements, and marks for the  *)
(* loops and tries they are inside of.  "again" is a loop about to test    *)
(* its condition, "step" a for loop about to increment, "endtry" the end   *)
(* of a try's body.                                                        *)
(***************************************************************************)
Again(s)  == [k |-> "again", id |-> s.id, loop |-> s]
Step(s)   == [k |-> "step", id |-> s.id, loop |-> s]
EndTry(s) == [k |-> "endtry", catch |-> s.catch]

LoopMarks == {"again", "step"}
TryMarks == {"endtry"}

(* The rest of t from the first mark on: the innermost loop or try.        *)
RECURSIVE From(_, _)
From(t, marks) ==
  IF t = <<>> \/ Head(t).k \in marks THEN t ELSE From(Tail(t), marks)

(* t with its first statement one that does something visible.             *)
RECURSIVE Visible(_)
Visible(t) ==
  IF t = <<>> THEN t
  ELSE LET s == Head(t)
           r == Tail(t)
       IN CASE s.k = "break"    -> Visible(Tail(From(r, LoopMarks)))
            [] s.k = "continue" -> Visible(From(r, LoopMarks))
            [] s.k = "return"   -> <<>>
            [] s.k = "while"    -> <<Again(s)>> \o r
            [] s.k = "for"      -> Visible(<<Again(s)>> \o r)
            [] s.k = "again" /\ s.loop.k = "for" /\ ~s.loop.cond
                                -> Visible(s.loop.body \o <<Step(s.loop)>> \o r)
            [] s.k = "try"      -> Visible(s.body \o <<EndTry(s)>> \o r)
            [] s.k = "endtry"   -> Visible(r)
            [] OTHER            -> t

(* What is left after the first one, a test with outcome o.                *)
After(t, o) ==
  LET s == Head(t)
      r == Tail(t)
      c == From(r, TryMarks)
  IN Visible(
       CASE s.k = "act"     -> r
         [] s.k = "step"    -> <<Again(s.loop)>> \o r
         [] s.k = "foreach" -> <<Again(s)>> \o r
         [] s.k = "throw"   -> IF c = <<>> THEN <<>>
                               ELSE Head(c).catch \o Tail(c)
         [] s.k = "if"      -> (IF o THEN s.body ELSE s.else) \o r
         [] s.k = "again" /\ ~o -> r
         [] s.k = "again" /\ o /\ s.loop.k = "for"
                            -> s.loop.body \o <<Step(s.loop)>> \o r
         [] s.k = "again" /\ o /\ s.loop.k # "for"
                            -> s.loop.body \o <<s>> \o r)

(* The instruction that does visible statement s.                          *)
OpOf(s) ==
  CASE s.k = "act" \/ s.k = "step" -> "act"
    [] s.k = "throw"   -> "throw"
    [] s.k = "if"      -> "test"
    [] s.k = "foreach" -> "gen"
    [] s.k = "again"   -> IF s.loop.k = "foreach" THEN "next" ELSE "test"

-----------------------------------------------------------------------------
(***************************************************************************)
(* The dispatch loop.  An operand is a kind: "coll" and "iter" of a        *)
(* foreach loop with the loop's identity, a condition's value, or a        *)
(* caught exception.  A jump that was never patched leads nowhere: 0.      *)
(***************************************************************************)
Operand(kind, id) == [kind |-> kind, id |-> id]

Init ==
  \E p \in Programs :
    /\ code = Compile(p)
    /\ todo = Visible(p)
    /\ pc = 1
    /\ stack = <<>>
    /\ handlers = <<>>
    /\ status = "run"

At(op) == status = "run" /\ pc \in DOMAIN code /\ code[pc].op = op
Fits(s) == Len(s) <= StackMax

(* The statement is done; todo goes on when it is the one expected.        *)
Goes(to, o) ==
  /\ pc' = to
  /\ todo' = IF todo = <<>> THEN todo ELSE After(todo, o)

DoAct ==
  /\ At("act")
  /\ Goes(pc + 1, TRUE)
  /\ UNCHANGED <<code, stack, handlers, status>>

(* A push beyond the stack's end aborts the activation (slp_vm_push).      *)
Overflow ==
  /\ At("test") \/ At("gen") \/ At("throw")
  /\ Len(stack) + (IF At("gen") THEN 2 ELSE 1) > StackMax
  /\ status' = "aborted"
  /\ UNCHANGED <<code, pc, stack, handlers, todo>>

DoTest ==
  /\ At("test")
  /\ \E o \in BOOLEAN :
       /\ stack' = Append(stack, Operand(IF o THEN "true" ELSE "false", 0))
       /\ Goes(pc + 1, o)
  /\ Fits(stack')
  /\ UNCHANGED <<code, handlers, status>>

(* OP_JUMP_IF_FALSE and OP_JUMP_IF_NULL look at the value, OP_POP drops it *)
(* (a variant forgets to).                                                 *)
DoJumpIfFalse ==
  /\ At("jfalse")
  /\ pc' = IF stack[Len(stack)].kind = "false" THEN code[pc].to ELSE pc + 1
  /\ UNCHANGED <<code, stack, handlers, todo, status>>

DoPop ==
  /\ At("pop")
  /\ stack' = SubSeq(stack, 1, Len(stack) - 1)
  /\ pc' = pc + 1
  /\ UNCHANGED <<code, handlers, todo, status>>

DoJump ==
  /\ At("jump") \/ At("loop")
  /\ pc' = code[pc].to
  /\ UNCHANGED <<code, stack, handlers, todo, status>>

(* The collection and the number 0 it is iterated with.                    *)
DoGenerate ==
  /\ At("gen")
  /\ stack' = stack \o <<Operand("coll", code[pc].id), Operand("iter", code[pc].id)>>
  /\ Fits(stack')
  /\ Goes(pc + 1, TRUE)
  /\ UNCHANGED <<code, handlers, status>>

(* OP_FOREACH_NEXT peeks at the two: if the lower one is not a collection  *)
(* the iteration is over.                                                  *)
DoNext ==
  /\ At("next")
  /\ \E o \in BOOLEAN :
       /\ o => Len(stack) > 1 /\ stack[Len(stack) - 1].kind = "coll"
       /\ Goes(IF o THEN pc + 1 ELSE code[pc].to, o)
  /\ UNCHANGED <<code, stack, handlers, status>>

(* OP_PUSH_HANDLER, OP_POP_HANDLER.                                        *)
DoHandler ==
  /\ At("handler")
  /\ handlers' = Append(handlers, [to |-> code[pc].to, height |-> Len(stack)])
  /\ pc' = pc + 1
  /\ UNCHANGED <<code, stack, todo, status>>

DoUnhandler ==
  /\ At("unhandler")
  /\ handlers' = IF handlers = <<>> THEN handlers
                 ELSE SubSeq(handlers, 1, Len(handlers) - 1)
  /\ pc' = pc + 1
  /\ UNCHANGED <<code, stack, todo, status>>

(* OP_THROW: the stack is cut to the height of the try, then the exception *)
(* is pushed; OP_STORE_CATCH assigns it to the variable and leaves it.     *)
DoThrow ==
  /\ At("throw")
  /\ handlers # <<>>
  /\ LET h == handlers[Len(handlers)] IN
     /\ stack' = Append(SubSeq(stack, 1, h.height), Operand("exception", 0))
     /\ Goes(h.to, TRUE)
  /\ Len(stack) < StackMax
  /\ handlers' = SubSeq(handlers, 1, Len(handlers) - 1)
  /\ UNCHANGED <<code, status>>

DoThrowUncaught ==
  /\ At("throw")
  /\ handlers = <<>>
  /\ Len(stack) < StackMax
  /\ status' = "error"
  /\ Goes(pc, TRUE)
  /\ UNCHANGED <<code, stack, handlers>>

DoReturn ==
  /\ At("return")
  /\ status' = "done"
  /\ UNCHANGED <<code, pc, stack, handlers, todo>>

Next ==
  \/ DoAct \/ DoTest \/ DoJumpIfFalse \/ DoPop \/ DoJump
  \/ DoGenerate \/ DoNext \/ DoHandler \/ DoUnhandler
  \/ DoThrow \/ DoThrowUncaught \/ DoReturn \/ Overflow

Spec == Init /\ [][Next]_vars

-----------------------------------------------------------------------------
VisibleOps == {"act", "test", "gen", "next", "throw", "return"}
AtVisible == status = "run" /\ pc \in DOMAIN code /\ code[pc].op \in VisibleOps

(***************************************************************************)
(* The next visible thing the compiled code does is the one the source     *)
(* text says comes next, whatever conditions, collections and exceptions   *)
(* do; no jump leads out of the chunk.                                     *)
(***************************************************************************)
FollowsSource ==
  /\ pc # 0
  /\ AtVisible =>
       IF code[pc].op = "return" THEN todo = <<>>
       ELSE /\ todo # <<>>
            /\ code[pc].op = OpOf(Head(todo))
            /\ code[pc].id = Head(todo).id

(***************************************************************************)
(* Where a statement starts there is one handler for each try around it,   *)
(* however it was reached: past the end of a try, by break or continue     *)
(* out of it, or from a throw.                                             *)
(***************************************************************************)
IsEndTry(m) == m.k \in TryMarks

HandlersMatchTries ==
  AtVisible /\ code[pc].op # "return" =>
    Len(handlers) = Len(SelectSeq(todo, IsEndTry))

(***************************************************************************)
(* ... and the operands are the collections and iterators of the foreach   *)
(* loops around it, but for exceptions that were caught; OP_FOREACH_NEXT   *)
(* finds the iterator of its own loop on top, nothing was left above it.   *)
(***************************************************************************)
IsForeachMark(m) == m.k \in LoopMarks /\ m.loop.k = "foreach"
NotException(v) == v.kind # "exception"

OperandsMatchLoops ==
  /\ AtVisible /\ code[pc].op # "return" =>
    LET operands == SelectSeq(stack, NotException)
        loops    == SelectSeq(todo, IsForeachMark)
        n        == Len(loops)
    IN /\ Len(operands) = 2 * n
       /\ \A i \in 1..n :
            /\ operands[2 * i - 1] = Operand("coll", loops[n + 1 - i].id)
            /\ operands[2 * i] = Operand("iter", loops[n + 1 - i].id)
  /\ At("next") =>
       /\ Len(stack) > 1
       /\ stack[Len(stack)] = Operand("iter", code[pc].id)
       /\ stack[Len(stack) - 1] = Operand("coll", code[pc].id)
=============================================================================
