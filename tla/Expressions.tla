----------------------------- MODULE Expressions -----------------------------
(***************************************************************************)
(* Expressions: compile_node (src/src/slp_compiler.c) turns an expression  *)
(* tree into stack code, the dispatch loop of slp_vm_call runs the code.   *)
(* Eval is the meaning of the same tree, written as a recursive evaluator: *)
(* it is computed when an execution starts and compared with what the      *)
(* stack machine has done when it stops.                                   *)
(*                                                                         *)
(* The program is the body of a function: the slots of its activation, the *)
(* function itself and its arguments, are the bottom of the stack.  Other  *)
(* functions are natives that only count, assign and record.  Jumps count  *)
(* instructions; module Bytecode turns them into bytes.                    *)
(***************************************************************************)
EXTENDS Numbers, FiniteSets

B == INSTANCE Bytecode

CONSTANTS
  Programs,    \* the function bodies explored: sequences of statements
  Arguments,   \* what the slots of the arguments hold at the start
  Locals,      \* the names of the slots above the function's own: $0 .. @_
  FastSlots    \* slots that have opcodes of their own (8)

VARIABLES
  program,     \* the statements
  code,        \* what they are compiled to
  pc,          \* the next instruction
  stack,       \* the activation: slots and operands
  mem,         \* variables, objects, and the calls made of natives
  status,      \* "run", or how the execution ended
  expected     \* what Eval says of the program

vars == <<program, code, pc, stack, mem, status, expected>>

-----------------------------------------------------------------------------
(* Trees.  "plain" is the assignment operator =; a target or argument name *)
(* that is not there is Nothing.                                           *)
Nothing             == [k |-> "nothing"]
Const(v)            == [k |-> "const", v |-> v]
Var(x)              == [k |-> "var", x |-> x]
Ident(f)            == [k |-> "ident", f |-> f]
Bin(op, l, r)       == [k |-> "binop", op |-> op, l |-> l, r |-> r]
Both(op, l, r)      == [k |-> "both", op |-> op, l |-> l, r |-> r]
Pred(p, neg, l, r)  == [k |-> "pred", p |-> p, neg |-> neg, l |-> l, r |-> r]
Un(op, e)           == [k |-> "unop", op |-> op, e |-> e]
Is(p, e)            == [k |-> "is", p |-> p, e |-> e]
Count(by, e)        == [k |-> "count", by |-> by, e |-> e]
Assign(op, t, e)    == [k |-> "assign", op |-> op, t |-> t, e |-> e]
Index(c, i)         == [k |-> "index", c |-> c, i |-> i]
Tuple(es)           == [k |-> "tuple", es |-> es]
Call(t, args)       == [k |-> "call", t |-> t, args |-> args]
ObjExpr(t, m, args) == [k |-> "obj", t |-> t, m |-> m, args |-> args]
Arg(x, e)           == [k |-> "arg", x |-> x, e |-> e]
AlignTo(w, e)       == [k |-> "align", w |-> w, e |-> e]
Address(f)          == [k |-> "address", f |-> f]
Assertion(e, m)     == [k |-> "assert", e |-> e, m |-> m]
Return(e)           == [k |-> "return", e |-> e]
Sub(keyword, f)     == [k |-> "bridge", keyword |-> keyword, f |-> f]
Nop                 == [k |-> "nop"]

(* A variable is a string that starts with its sigil.                      *)
Sigil(x) == SubSeq(x, 1, 1)

-----------------------------------------------------------------------------
(***************************************************************************)
(* compile_node.  An instruction is an opcode and its operands: a byte, a  *)
(* jump, or a constant (in the chunk's pool).                              *)
(***************************************************************************)
Op(op)      == <<[op |-> op, arg |-> <<>>]>>
OpByte(op, n)  == <<[op |-> op, arg |-> <<[t |-> "byte", v |-> n]>>]>>
OpConst(op, v) == <<[op |-> op, arg |-> <<[t |-> "const", v |-> v]>>]>>
OpJump(op, n)  == <<[op |-> op, arg |-> <<[t |-> "jump", v |-> n]>>]>>

(* The operand is part of the opcode: OP_LOAD_LOCAL_0 and so on.           *)
OpIs(op, n)    == <<[op |-> op, arg |-> <<[t |-> "none", v |-> n]>>]>>

(* The code to jump over, after its jump.                                  *)
Over(op, c) == OpJump(op, Len(c)) \o c

(* resolve_local: the slot of x, 0 if there is none (slot 0 has no name).  *)
Slot(x) == IF \E i \in 1..Len(Locals) : Locals[i] = x
           THEN CHOOSE i \in 1..Len(Locals) : Locals[i] = x ELSE 0

(* named_variable and reference_variable.                                  *)
NamedVariable(x, set) ==
  LET i == Slot(x)
      verb == IF set THEN "STORE_" ELSE "LOAD_"
  IN CASE i = 0 -> OpConst(verb \o "GLOBAL", Str(x))
       [] i # 0 /\ i < FastSlots -> OpIs(verb \o "FAST", i)
       [] OTHER -> OpByte(verb \o "LOCAL", i)
ReferenceVariable(x) ==
  IF Slot(x) = 0 THEN OpConst("REFERENCE_GLOBAL", Str(x))
  ELSE OpByte("REFERENCE_LOCAL", Slot(x))

RECURSIVE Expr(_)

CompileConst(v) ==
  CASE v = Null -> Op("PUSH_NULL")
    [] v.k = "bool" -> Op(IF v.b THEN "PUSH_TRUE" ELSE "PUSH_FALSE")
    [] OTHER -> OpConst("PUSH_CONST", v)

(* SLP_TOKEN_LAND, SLP_TOKEN_LOR.                                          *)
CompileBoth(n) == Expr(n.l) \o Over(n.op, Expr(n.r))

(* Predicates evaluate left to right, ordinary operators right to left.    *)
CompilePred(n) ==
  Expr(n.l) \o Expr(n.r)
    \o OpConst(IF n.neg THEN "NEGATED_BINARY_PREDICATE" ELSE "BINARY_PREDICATE", Str(n.p))
CompileBinop(n) == Expr(n.r) \o Expr(n.l) \o Op("SWAP") \o Op(n.op)

(* ++ and --.  The compiler takes the operand for a variable when the word *)
(* that would be its name is not zero, whatever kind of node it is; the    *)
(* constant 0 is an operand where that word is zero and no name is read    *)
(* out of a number or of another node.                                     *)
CompileCount(n) ==
  LET step == Op(IF n.by = 1 THEN "INCREMENT" ELSE "DECREMENT") IN
  IF n.e.k = "var"
  THEN NamedVariable(n.e.x, FALSE) \o step \o NamedVariable(n.e.x, TRUE)
  ELSE Expr(n.e) \o step

(* Assignment to a variable.                                               *)
CompileSet(n) ==
  (IF n.op = "plain" THEN Expr(n.e)
   ELSE NamedVariable(n.t.x, FALSE) \o Expr(n.e) \o Op(n.op))
    \o NamedVariable(n.t.x, TRUE)

(* index_autovivify_kind, compile_assignment_container: containers on the  *)
(* way to the element are made when they are not there.                    *)
RECURSIVE Root(_)
Root(n) == IF n.k = "index" THEN Root(n.c) ELSE n
RootKind(n) ==
  LET r == Root(n) IN
  CASE r.k # "var" -> 0
    [] r.k = "var" /\ Sigil(r.x) = "@" -> 1
    [] r.k = "var" /\ Sigil(r.x) = "%" -> 2
    [] OTHER -> 0
RECURSIVE Container(_, _)
Container(n, kind) ==
  IF n.k # "index" THEN Expr(n)
  ELSE Container(n.c, kind) \o Expr(n.i) \o OpByte("INDEX_ENSURE", kind)

CompileSetIndex(n) ==
  Container(n.t.c, RootKind(n.t)) \o Expr(n.t.i)
    \o (IF n.op = "plain" THEN <<>> ELSE Op("DUP2") \o Op("INDEX_GET"))
    \o Expr(n.e)
    \o (IF n.op = "plain" THEN <<>> ELSE Op(n.op))
    \o Op("INDEX_SET")

(* Assignment to a tuple: elements that are not variables are passed over. *)
RECURSIVE Elements(_, _, _)
Elements(es, i, op) ==
  IF i > Len(es) THEN <<>>
  ELSE (IF es[i].k # "var" THEN <<>>
        ELSE Op("DUP")
               \o (IF op # "plain" /\ Len(es) = 1
                   THEN NamedVariable(es[i].x, FALSE)
                          \o <<[op |-> "TUPLE_COMPOUND",
                                arg |-> <<[t |-> "opcode", v |-> op]>>]>>
                   ELSE OpConst("PUSH_CONST", IntVal(i - 1)) \o Op("TUPLE_GET")
                          \o (IF op = "plain" THEN <<>>
                              ELSE NamedVariable(es[i].x, FALSE) \o Op("SWAP") \o Op(op)))
               \o NamedVariable(es[i].x, TRUE) \o Op("POP"))
       \o Elements(es, i + 1, op)
CompileSetTuple(n) == Expr(n.e) \o Elements(n.t.es, 1, n.op)

(* Any other target compiles to nothing.                                   *)
CompileAssign(n) ==
  CASE n.t.k = "var"   -> CompileSet(n)
    [] n.t.k = "index" -> CompileSetIndex(n)
    [] n.t.k = "tuple" -> CompileSetTuple(n)
    [] OTHER           -> <<>>

(* Arguments are evaluated last to first, then put in order again.         *)
RECURSIVE LastToFirst(_)
LastToFirst(args) ==
  IF args = <<>> THEN <<>> ELSE LastToFirst(Tail(args)) \o Expr(Head(args))
InOrder(args) ==
  LastToFirst(args) \o (IF Len(args) > 1 THEN OpByte("REVERSE", Len(args)) ELSE <<>>)

(* iff(condition, then, else) is no call: compile_iff_call.  An argument   *)
(* is wrapped in an "arg" node.                                            *)
ArithmeticTest(e) == e.k = "binop" /\ e.op \notin {"==", "!=", "<", ">", "<=", ">="}
CompileIff(n) ==
  LET argument(i, d) == IF Len(n.args) >= i THEN Expr(n.args[i].e) ELSE d
      cond == IF ArithmeticTest(n.args[1].e) THEN Op("PUSH_FALSE") ELSE Expr(n.args[1].e)
      else == Op("POP") \o argument(3, Op("PUSH_NULL"))
      then == Op("POP") \o argument(2, OpConst("PUSH_CONST", IntVal(1)))
                \o OpJump("JUMP", Len(else))
  IN IF n.args = <<>> THEN Op("PUSH_NULL")
     ELSE cond \o Over("JUMP_IF_FALSE", then) \o else

CompileCall(n) ==
  LET named == n.t.k = "ident"
      count == [t |-> "byte", v |-> Len(n.args)]
  IN IF named /\ n.t.f = "iff" THEN CompileIff(n)
     ELSE (IF named THEN NamedVariable(n.t.f, FALSE) ELSE Expr(n.t)) \o InOrder(n.args)
            \o (IF named
                THEN <<[op |-> "CALL_NAMED",
                        arg |-> <<count, [t |-> "const", v |-> Str(n.t.f)]>>]>>
                ELSE <<[op |-> "CALL", arg |-> <<count>>]>>)

(* [target message: arguments] and [target arguments].                     *)
CompileObjExpr(n) ==
  (IF n.t.k = "ident" THEN NamedVariable(n.t.f, FALSE) ELSE Expr(n.t))
    \o (CASE n.m = Nothing   -> <<>>
          [] n.m.k = "ident" -> OpConst("PUSH_CONST", Str(n.m.f))
          [] OTHER           -> Expr(n.m))
    \o InOrder(n.args)
    \o OpByte(IF n.m = Nothing THEN "CALL" ELSE "OBJ_EXPR", Len(n.args))

(* An argument: \$x passes $x by name, a variable is passed by reference.  *)
CompileArg(n) ==
  LET value == IF n.e.k = "var" THEN ReferenceVariable(n.e.x) ELSE Expr(n.e) IN
  CASE n.x = Nothing /\ n.e.k = "address" /\ Sigil(n.e.f) \in {"$", "@", "%"} ->
         OpConst("PUSH_CONST", Str(n.e.f)) \o ReferenceVariable(n.e.f)
           \o Op("BUILD_KEY_VALUE")
    [] n.x = Nothing /\ ~(n.e.k = "address" /\ Sigil(n.e.f) \in {"$", "@", "%"}) -> value
    [] OTHER ->
         (CASE n.x.k = "var"   -> OpConst("PUSH_CONST", Str(n.x.x))
            [] n.x.k = "ident" -> OpConst("PUSH_CONST", Str(n.x.f))
            [] OTHER           -> Expr(n.x)) \o value \o Op("BUILD_KEY_VALUE")

(* A condition that is not a predicate is tested with -istrue; one that is *)
(* arithmetic counts as false.                                             *)
Predicate(e) ==
  \/ e.k \in {"both", "pred", "is"}
  \/ e.k = "binop" /\ ~ArithmeticTest(e)
CompileAssert(n) ==
  LET test == IF ArithmeticTest(n.e) THEN Op("PUSH_FALSE")
              ELSE Expr(n.e) \o (IF Predicate(n.e) THEN <<>>
                                 ELSE OpConst("UNARY_PREDICATE", Str("-istrue")))
      message == IF n.m = Nothing THEN OpConst("PUSH_CONST", Str("assertion failed"))
                 ELSE Expr(n.m)
      fail == Op("POP") \o message \o Op("ASSERT") \o OpJump("JUMP", 1)
  IN test \o Over("JUMP_IF_TRUE", fail) \o Op("POP")

(* A function inside: the closure is made, and registered if it is named.  *)
CompileBridge(n) ==
  OpConst("CLOSURE", [k |-> "function", f |-> n.f])
    \o (IF n.f = "" THEN <<>>
        ELSE <<[op |-> "BRIDGE_REGISTER",
                arg |-> <<[t |-> "const", v |-> Str(n.keyword)],
                          [t |-> "const", v |-> Str(n.f)]>>]>>)

Expr(n) ==
  CASE n.k = "const"   -> CompileConst(n.v)
    [] n.k = "var"     -> NamedVariable(n.x, FALSE)
    [] n.k = "binop"   -> CompileBinop(n)
    [] n.k = "both"    -> CompileBoth(n)
    [] n.k = "pred"    -> CompilePred(n)
    [] n.k = "unop"    -> Expr(n.e) \o Op(n.op)
    [] n.k = "is"      -> Expr(n.e) \o OpConst("UNARY_PREDICATE", Str(n.p))
    [] n.k = "count"   -> CompileCount(n)
    [] n.k = "assign"  -> CompileAssign(n)
    [] n.k = "index"   -> Expr(n.c) \o Expr(n.i) \o Op("INDEX_GET")
    [] n.k = "call"    -> CompileCall(n)
    [] n.k = "obj"     -> CompileObjExpr(n)
    [] n.k = "arg"     -> CompileArg(n)
    [] n.k = "align"   -> Expr(n.w) \o Expr(n.e) \o Op("ALIGN")
    [] n.k = "address" -> OpConst("ADDRESS", Str(n.f))
    [] n.k = "assert"  -> CompileAssert(n)
    [] n.k = "return"  -> Expr(n.e) \o Op("RETURN")
    [] n.k = "bridge"  -> CompileBridge(n)
    [] n.k = "nop"     -> Op("NOP")

(* A variant that forgets the functions inside.                            *)
NoValueButFunctions == {"assert", "return", "nop"}
(* Statements that leave no value to pop.                                  *)
NoValue == {"bridge", "assert", "return", "nop"}
RECURSIVE Block(_)
Block(ss) ==
  IF ss = <<>> THEN <<>>
  ELSE Expr(Head(ss))
         \o (IF Head(ss).k \in NoValue THEN <<>> ELSE Op("POP")) \o Block(Tail(ss))

Compile(ss) == Block(ss) \o Op("PUSH_NULL") \o Op("RETURN")

-----------------------------------------------------------------------------
(***************************************************************************)
(* What the machine and the evaluator share: variables, containers,        *)
(* functions.  A state e holds the slots, the variables that are set, the  *)
(* containers and the calls made; a reference to a variable is its name.   *)
(***************************************************************************)
Natives == {"next", "set", "note"}   \* functions that exist
Native(f) == [k |-> "native", f |-> f]
Ref(x)    == [k |-> "ref", x |-> x]
Pair(key, v) == [k |-> "kv", key |-> key, v |-> v]
Object(kind, id) == [k |-> kind, id |-> id]

(* new_index_collection: an empty container.                               *)
WithNew(e, kind) == [e EXCEPT !.objs = Append(@, <<>>)]
NewOf(e, kind) == Object(kind, Len(e.objs) + 1)
NestedKind(kind, parent) ==
  IF kind = 1 \/ (kind = 0 /\ parent = "array") THEN "array" ELSE "hash"

(* implicit_variable_value: what a variable is that was never set.         *)
ImplicitKind(x) == CASE Sigil(x) = "@" -> "array" [] Sigil(x) = "%" -> "hash" [] OTHER -> "null"
SetGlobal(e, x, v) == [e EXCEPT !.vars = (x :> v) @@ @]
Declare(e, x) ==
  CASE x \in DOMAIN e.vars -> e
    [] x \notin DOMAIN e.vars /\ ImplicitKind(x) = "null" -> SetGlobal(e, x, Null)
    [] OTHER -> SetGlobal(WithNew(e, ImplicitKind(x)), x, NewOf(e, ImplicitKind(x)))

ReadVar(e, x) == IF Slot(x) = 0 THEN e.vars[x] ELSE e.slots[Slot(x)]
WriteVar(e, x, v) ==
  IF Slot(x) = 0 THEN SetGlobal(e, x, v) ELSE [e EXCEPT !.slots[Slot(x)] = v]
Dereference(e, v) == IF v.k = "ref" THEN ReadVar(e, v.x) ELSE v

(* A call of a native function: it counts, assigns to the variable its     *)
(* first argument refers to, or only records its arguments.                *)
Invoke(e, f, args) ==
  LET seen == [i \in 1..Len(args) |-> Dereference(e, args[i])]
      logged == [e EXCEPT !.log = Append(@, <<f, seen>>)]
  IN CASE f = "next" -> [e |-> [logged EXCEPT !.count = @ + 1], v |-> IntVal(e.count + 1)]
       [] f = "set" /\ Len(args) = 2 /\ args[1].k = "ref" ->
            [e |-> WriteVar(logged, args[1].x, seen[2]), v |-> seen[2]]
       [] OTHER -> [e |-> logged, v |-> Null]

(* Elements: an array index counts from the end when negative; a hash is   *)
(* the sequence of its pairs.                                              *)
At(items, i) == IF i < 0 /\ items # <<>> THEN i % Len(items) ELSE i
PairOf(items, key) == {i \in 1..Len(items) : items[i].key = key}

(* canonical_hash_key: the text of the key; a truth value is 1 or nothing. *)
HashKey(v) ==
  IF v.k = "bool" THEN Text(IF v.b THEN <<"1">> ELSE <<>>) ELSE Text(Stringify(v))

(* slp_vm_hash_get, _contains, _set, _delete of a hash without policies.   *)
HashGet(items, i) ==
  IF PairOf(items, HashKey(i)) = {} THEN Null
  ELSE items[CHOOSE j \in PairOf(items, HashKey(i)) : TRUE].v
HashContains(items, i) == PairOf(items, HashKey(i)) # {}
HashSet(items, i, v) ==
  IF HashContains(items, i)
  THEN [j \in 1..Len(items) |->
          IF items[j].key = HashKey(i) THEN Pair(HashKey(i), v) ELSE items[j]]
  ELSE Append(items, Pair(HashKey(i), v))
HashDelete(items, i) == SelectSeq(items, LAMBDA p : p.key # HashKey(i))

GetElement(e, c, i) ==
  CASE c.k = "array" -> LET items == e.objs[c.id]
                            j == At(items, IntOf(i)) + 1
                        IN IF j \in 1..Len(items) THEN items[j] ELSE Null
    [] c.k = "hash" -> HashGet(e.objs[c.id], i)
    [] OTHER -> Null

SetElement(e, c, i, v) ==
  CASE c.k = "array" ->
         LET items == e.objs[c.id]
             j == At(items, IntOf(i)) + 1
             size == IF j > Len(items) THEN j ELSE Len(items)
         IN [e EXCEPT !.objs[c.id] = [n \in 1..size |->
              IF n = j THEN v ELSE IF n <= Len(items) THEN items[n] ELSE Null]]
    [] c.k = "hash" ->
         [e EXCEPT !.objs[c.id] = IF v = Null THEN HashDelete(@, i) ELSE HashSet(@, i, v)]
    [] OTHER -> e

(* slp_value_identity_equals: of numbers also their kind counts.           *)
Identical(a, b) == a.k = b.k /\ a = b

(* get_string_repr: unlike Stringify, an object is its address.            *)
Repr(v) == IF v.k \in {"array", "hash"} THEN <<"<object>", ToString(v.id)>> ELSE Stringify(v)

(* strstr of the C library, on atoms.                                      *)
Within(needle, haystack) ==
  \E i \in 0..(Len(haystack) - Len(needle)) :
    SubSeq(haystack, i + 1, i + Len(needle)) = needle

(* OP_UNARY_PREDICATE: the tests of types; one that is not known fails.    *)
Tests == {"-isarray", "-ishash", "-isnull", "-isstring", "-isfunction", "-isboolean", "-islong"}
OfKind(p, v) ==
  v.k = CASE p = "-isarray" -> "array"   [] p = "-ishash" -> "hash"
          [] p = "-isnull" -> "null"     [] p = "-isstring" -> "string"
          [] p = "-isfunction" -> "function"
          [] p = "-isboolean" -> "bool"  [] p = "-islong" -> "long"
Test(p, v) ==
  \/ p = "-istrue" /\ ~Falsy(v)
  \/ p = "-isnumber" /\ v.k \in {"int", "long", "double", "nonfinite"}
  \/ p \in Tests /\ OfKind(p, v)

(* OP_BINARY_PREDICATE.                                                    *)
In(e, a, b) ==
  \/ b.k = "array" /\ \E i \in 1..Len(e.objs[b.id]) : Equals(e.objs[b.id][i], a)
  \/ b.k = "hash" /\ HashContains(e.objs[b.id], a)
  \/ b.k = "string" /\ a.k = "string" /\ Within(a.s, b.s)
Related(e, p, a, b) ==
  CASE p = "is"   -> Identical(a, b)
    [] p = "eq"   -> Repr(a) = Repr(b)
    [] p = "ne"   -> Repr(a) # Repr(b)
    [] p = "isin" -> Within(Repr(a), Repr(b))
    [] p = "in"   -> In(e, a, b)
    [] OTHER      -> FALSE

Element(e, source, i) ==
  IF source.k = "array" THEN GetElement(e, source, IntVal(i)) ELSE source

Unary(op, v) ==
  CASE op = "negate" -> Negate(v)
    [] op = "not"    -> BoolVal(Falsy(v))
    [] op = "bitnot" -> BitNot(v)

-----------------------------------------------------------------------------
(***************************************************************************)
(* The dispatch loop.                                                      *)
(***************************************************************************)
Depth     == Len(Locals)
Instr     == code[pc]
Operand   == Instr.arg[1].v
Top(i)    == stack[Len(stack) - i]
Under(n)  == SubSeq(stack, 1, Len(stack) - n)
Slots     == SubSeq(stack, 1, Depth)
Env       == [mem EXCEPT !.slots = Slots]
Running(ops) == status = "run" /\ Instr.op \in ops

(* The instruction is done: the stack and the state after it.              *)
Done(s, e) ==
  /\ stack' = s
  /\ mem' = [e EXCEPT !.slots = <<>>]
  /\ pc' = pc + 1
  /\ UNCHANGED <<program, code, status, expected>>
Yields(n, v) == Done(Append(Under(n), v), mem)
Stop(how) ==
  /\ status' = how
  /\ UNCHANGED <<program, code, pc, stack, mem, expected>>
Ends(n, v) ==
  CASE v = Error -> Stop("error")
    [] v = Trap  -> Stop("trap")
    [] OTHER     -> Yields(n, v)
Jump(taken, s) ==
  /\ pc' = pc + 1 + (IF taken THEN Operand ELSE 0)
  /\ stack' = s
  /\ UNCHANGED <<program, code, mem, status, expected>>

PushNull  == Running({"PUSH_NULL"}) /\ Yields(0, Null)
PushBool  == Running({"PUSH_TRUE", "PUSH_FALSE"})
               /\ Yields(0, BoolVal(Instr.op = "PUSH_TRUE"))
PushConst == Running({"PUSH_CONST"}) /\ Yields(0, Operand)

(* OP_LOAD_LOCAL_n and OP_LOAD_LOCAL, OP_STORE_LOCAL_n and OP_STORE_LOCAL. *)
LoadLocal == Running({"LOAD_FAST", "LOAD_LOCAL"}) /\ Yields(0, stack[Operand])
StoreLocal ==
  /\ Running({"STORE_FAST", "STORE_LOCAL"})
  /\ Done([stack EXCEPT ![Operand] = Top(0)], mem)
ReferenceLocal == Running({"REFERENCE_LOCAL"}) /\ Yields(0, Ref(Locals[Operand]))

(* A global that was never set gets its implicit value when it is read.    *)
Name == Head(Operand.s)
LoadGlobal ==
  /\ Running({"LOAD_GLOBAL"})
  /\ LET e == Declare(mem, Name) IN Done(Append(stack, e.vars[Name]), e)
StoreGlobal == Running({"STORE_GLOBAL"}) /\ Done(stack, SetGlobal(mem, Name, Top(0)))
ReferenceGlobal ==
  Running({"REFERENCE_GLOBAL"}) /\ Done(Append(stack, Ref(Name)), Declare(mem, Name))
(* OP_ADDRESS asks the table itself.                                       *)
AddressOf ==
  /\ Running({"ADDRESS"})
  /\ Yields(0, IF Name \in DOMAIN mem.vars THEN mem.vars[Name] ELSE Null)

BinaryOps == Sums \cup {"div", "mod", "pow", "concat", "repeat"} \cup BitOps \cup Shifts
               \cup Comparisons
BinaryOp  == Running(BinaryOps) /\ Ends(2, Binary(Instr.op, Top(1), Top(0)))
UnaryOp   == Running({"negate", "not", "bitnot"}) /\ Yields(1, Unary(Instr.op, Top(0)))
StepOp    == Running({"INCREMENT", "DECREMENT"})
               /\ Yields(1, Step(Top(0), IF Instr.op = "INCREMENT" THEN 1 ELSE -1))
AlignOp   == Running({"ALIGN"}) /\ Yields(2, Align(Top(1), Top(0)))

(* OP_AND and OP_OR keep the left value when it decides.                   *)
ShortCircuit ==
  /\ Running({"AND", "OR"})
  /\ LET decided == Falsy(Top(0)) = (Instr.op = "AND") IN
     Jump(decided, IF decided THEN stack ELSE Under(1))
JumpAlways == Running({"JUMP"}) /\ Jump(TRUE, stack)
JumpIf ==
  /\ Running({"JUMP_IF_FALSE", "JUMP_IF_TRUE"})
  /\ Jump(Falsy(Top(0)) = (Instr.op = "JUMP_IF_FALSE"), stack)

Pop     == Running({"POP"}) /\ Done(Under(1), mem)
Dup     == Running({"DUP"}) /\ Yields(0, Top(0))
Dup2    == Running({"DUP2"}) /\ Done(stack \o <<Top(1), Top(0)>>, mem)
Swap    == Running({"SWAP"}) /\ Done(Under(2) \o <<Top(0), Top(1)>>, mem)
Reverse ==
  /\ Running({"REVERSE"})
  /\ Done(Under(Operand) \o [i \in 1..Operand |-> Top(i - 1)], mem)
NoOp    == Running({"NOP"}) /\ Done(stack, mem)

(* call_value of n values above the function; what is none yields $null.   *)
CallValue(n) ==
  LET f == Top(n)
      args == [i \in 1..n |-> Top(n - i)]
      r == Invoke(Env, f.f, args)
  IN IF f.k # "native" THEN Yields(n + 1, Null)
     ELSE Done(r.e.slots \o SubSeq(Append(Under(n + 1), r.v), Depth + 1,
                                   Len(stack) - n), r.e)
CallOp      == Running({"CALL", "CALL_NAMED"}) /\ CallValue(Operand)
ObjExprOp   == Running({"OBJ_EXPR"}) /\ CallValue(Operand + 1)
KeyValue    == Running({"BUILD_KEY_VALUE"}) /\ Yields(2, Pair(Top(1), Top(0)))

IndexGet == Running({"INDEX_GET"}) /\ Yields(2, GetElement(mem, Top(1), Top(0)))
IndexEnsure ==
  /\ Running({"INDEX_ENSURE"})
  /\ LET c == Top(1)
         kind == NestedKind(Operand, c.k)
         made == WithNew(mem, kind)
         found == GetElement(mem, c, Top(0))
     IN IF c.k \notin {"array", "hash"} \/ found # Null THEN Yields(2, found)
        ELSE Done(Append(Under(2), NewOf(mem, kind)),
                  SetElement(made, c, Top(0), NewOf(mem, kind)))
IndexSet ==
  /\ Running({"INDEX_SET"})
  /\ Done(Append(Under(3), Top(0)), SetElement(mem, Top(2), Top(1), Top(0)))

TupleGet == Running({"TUPLE_GET"}) /\ Yields(2, Element(mem, Top(1), Top(0).n))
(* OP_TUPLE_COMPOUND, of a variable that does not hold an array.           *)
TupleCompound ==
  /\ Running({"TUPLE_COMPOUND"})
  /\ Ends(2, TupleBinary(Operand, Top(0), Element(mem, Top(1), 0)))

UnaryPredicate == Running({"UNARY_PREDICATE"}) /\ Yields(1, BoolVal(Test(Name, Top(0))))
BinaryPredicate ==
  /\ Running({"BINARY_PREDICATE", "NEGATED_BINARY_PREDICATE"})
  /\ Yields(2, BoolVal(Related(mem, Name, Top(1), Top(0)) = (Instr.op = "BINARY_PREDICATE")))

(* OP_ASSERT aborts the script; nothing after it runs.                     *)
AssertOp == Running({"ASSERT"}) /\ Stop("exit")

MakeClosure == Running({"CLOSURE"}) /\ Yields(0, Operand)
BridgeRegister ==
  /\ Running({"BRIDGE_REGISTER"})
  /\ Done(Under(1), SetGlobal(mem, Head(Instr.arg[2].v.s), Top(0)))

ReturnOp == Running({"RETURN"}) /\ Stop("return")

-----------------------------------------------------------------------------
(***************************************************************************)
(* What a program means.  A result is the state, the value, and how the    *)
(* evaluation ended early, if it did.                                      *)
(***************************************************************************)
Result(e, v) == [e |-> e, v |-> v, end |-> ""]
Early(e, v, end) == [e |-> e, v |-> v, end |-> end]
Only(S) == CHOOSE x \in S : TRUE
Then(first, F(_)) == Only({IF r.end # "" THEN r ELSE F(r) : r \in {first}})

(* The remainder of the least number by -1 ends the process.               *)
MeantBinary(op, a, b) ==
  LET kind == IF op \in Shifts THEN Kind(a) ELSE Widest(a, b) IN
  IF op \in Sums \cup {"div", "mod"} /\ kind # "double"
  THEN IF op = "mod" /\ Whole(kind, b) = -1 /\ Whole(kind, a) = RangeLeast(kind) THEN Trap
       ELSE IF op \in {"div", "mod"} /\ Whole(kind, b) = 0 THEN Error
       ELSE CHOOSE v \in {[k |-> kind, n |-> n] : n \in RangeOf(kind)} : IsMeant(op, a, b, v)
  ELSE Binary(op, a, b)
Apply(op, l, r, e) ==
  LET v == MeantBinary(op, l, r) IN
  CASE v = Error -> Early(e, Null, "error")
    [] v = Trap  -> Early(e, Null, "trap")
    [] OTHER     -> Result(e, v)

RECURSIVE Eval(_, _)
(* Arguments, last to first: the value of the result is their sequence.    *)
RECURSIVE EvalArgs(_, _)
EvalArgs(args, e) ==
  IF args = <<>> THEN Result(e, <<>>)
  ELSE Then(EvalArgs(Tail(args), e), LAMBDA rest :
       Then(Eval(Head(args), rest.e), LAMBDA first :
       Result(first.e, <<first.v>> \o rest.v)))

Fetch(x, e) ==
  IF Slot(x) # 0 THEN Result(e, ReadVar(e, x))
  ELSE Only({Result(d, d.vars[x]) : d \in {Declare(e, x)}})
Refer(x, e) == Result(IF Slot(x) # 0 THEN e ELSE Declare(e, x), Ref(x))
FunctionOf(t, e) == IF t.k = "ident" THEN Fetch(t.f, e) ELSE Eval(t, e)
InvokeMeant(f, args, e) ==
  IF f.k # "native" THEN Result(e, Null)
  ELSE Only({Result(r.e, r.v) : r \in {Invoke(e, f.f, args)}})

(* The container of an element, made on the way if it is not there.        *)
RECURSIVE Vivify(_, _, _)
Vivify(n, kind, e) ==
  IF n.k # "index" THEN Eval(n, e)
  ELSE Then(Vivify(n.c, kind, e), LAMBDA c :
       Then(Eval(n.i, c.e), LAMBDA i :
         LET found == GetElement(i.e, c.v, i.v)
             parent == c.v.k
             new == NewOf(i.e, NestedKind(kind, parent))
         IN IF parent \notin {"array", "hash"} \/ found # Null THEN Result(i.e, found)
            ELSE Result(SetElement(WithNew(i.e, ""), c.v, i.v, new), new)))

(* target op= value: the old value is read before the value is evaluated.  *)
Updated(op, old, v, e) == IF op = "plain" THEN Result(e, v) ELSE Apply(op, old, v, e)
EvalSet(n, e) ==
  Then(IF n.op = "plain" THEN Result(e, Null) ELSE Fetch(n.t.x, e), LAMBDA old :
  Then(Eval(n.e, old.e), LAMBDA r :
  Then(Updated(n.op, old.v, r.v, r.e), LAMBDA u : Result(WriteVar(u.e, n.t.x, u.v), u.v))))
EvalSetIndex(n, e) ==
  Then(Vivify(n.t.c, RootKind(n.t), e), LAMBDA c :
  Then(Eval(n.t.i, c.e), LAMBDA i :
  LET old == GetElement(i.e, c.v, i.v) IN
  Then(Eval(n.e, i.e), LAMBDA r :
  Then(Updated(n.op, old, r.v, r.e), LAMBDA u :
  Result(SetElement(u.e, c.v, i.v, u.v), u.v)))))
RECURSIVE EvalElements(_, _, _, _)
EvalElements(n, i, source, e) ==
  IF i > Len(n.t.es) THEN Result(e, source)
  ELSE Then(IF n.op = "plain" THEN Result(e, Null) ELSE Fetch(n.t.es[i].x, e), LAMBDA old :
       Then(Updated(n.op, old.v, Element(old.e, source, i - 1), old.e), LAMBDA u :
       EvalElements(n, i + 1, source, WriteVar(u.e, n.t.es[i].x, u.v))))
EvalAssign(n, e) ==
  CASE n.t.k = "var"   -> EvalSet(n, e)
    [] n.t.k = "index" -> EvalSetIndex(n, e)
    [] n.t.k = "tuple" -> Then(Eval(n.e, e), LAMBDA r : EvalElements(n, 1, r.v, r.e))

(* iff(c, a, b): only the branch taken is evaluated.                       *)
EvalIff(n, e) ==
  LET argument(i, d, x) == IF Len(n.args) >= i THEN Eval(n.args[i].e, x) ELSE Result(x, d) IN
  IF n.args = <<>> THEN Result(e, Null)
  ELSE Then(IF ArithmeticTest(n.args[1].e) THEN Result(e, BoolVal(FALSE))
            ELSE Eval(n.args[1].e, e), LAMBDA c :
       IF Falsy(c.v) THEN argument(3, Null, c.e) ELSE argument(2, IntVal(1), c.e))

EvalCall(n, e) ==
  IF n.t.k = "ident" /\ n.t.f = "iff" THEN EvalIff(n, e)
  ELSE Then(FunctionOf(n.t, e), LAMBDA f :
       Then(EvalArgs(n.args, f.e), LAMBDA as : InvokeMeant(f.v, as.v, as.e)))
EvalObjExpr(n, e) ==
  Then(FunctionOf(n.t, e), LAMBDA f :
  Then(CASE n.m = Nothing -> Result(f.e, Null)
         [] n.m.k = "ident" -> Result(f.e, Str(n.m.f))
         [] OTHER -> Eval(n.m, f.e), LAMBDA m :
  Then(EvalArgs(n.args, m.e), LAMBDA as :
  InvokeMeant(f.v, (IF n.m = Nothing THEN <<>> ELSE <<m.v>>) \o as.v, as.e))))

EvalArg(n, e) ==
  LET value(x) == IF n.e.k = "var" THEN Refer(n.e.x, x) ELSE Eval(n.e, x)
      byName == n.e.k = "address" /\ Sigil(n.e.f) \in {"$", "@", "%"}
  IN
  CASE n.x = Nothing /\ byName ->
         Then(Refer(n.e.f, e), LAMBDA r : Result(r.e, Pair(Str(n.e.f), r.v)))
    [] n.x = Nothing /\ ~byName -> value(e)
    [] OTHER ->
         Then(CASE n.x.k = "var"   -> Result(e, Str(n.x.x))
                [] n.x.k = "ident" -> Result(e, Str(n.x.f))
                [] OTHER           -> Eval(n.x, e), LAMBDA key :
         Then(value(key.e), LAMBDA v : Result(v.e, Pair(key.v, v.v))))

EvalAssert(n, e) ==
  Then(IF ArithmeticTest(n.e) THEN Result(e, BoolVal(FALSE)) ELSE Eval(n.e, e), LAMBDA c :
  IF ~Falsy(c.v) THEN Result(c.e, Null)
  ELSE Then(IF n.m = Nothing THEN Result(c.e, Null) ELSE Eval(n.m, c.e), LAMBDA m :
       Early(m.e, Null, "exit")))

EvalCount(n, e) ==
  Then(Eval(n.e, e), LAMBDA r :
    LET v == Step(r.v, n.by) IN
    Result(IF n.e.k = "var" THEN WriteVar(r.e, n.e.x, v) ELSE r.e, v))

Eval(n, e) ==
  CASE n.k = "const"   -> Result(e, n.v)
    [] n.k = "var"     -> Fetch(n.x, e)
    [] n.k = "binop"   -> Then(Eval(n.r, e), LAMBDA r : Then(Eval(n.l, r.e), LAMBDA l :
                            Apply(n.op, l.v, r.v, l.e)))
    [] n.k = "both"    -> Then(Eval(n.l, e), LAMBDA l :
                            IF Falsy(l.v) = (n.op = "AND") THEN l ELSE Eval(n.r, l.e))
    [] n.k = "pred"    -> Then(Eval(n.l, e), LAMBDA l : Then(Eval(n.r, l.e), LAMBDA r :
                            Result(r.e, BoolVal(Related(r.e, n.p, l.v, r.v) # n.neg))))
    [] n.k = "unop"    -> Then(Eval(n.e, e), LAMBDA r : Result(r.e, Unary(n.op, r.v)))
    [] n.k = "is"      -> Then(Eval(n.e, e), LAMBDA r : Result(r.e, BoolVal(Test(n.p, r.v))))
    [] n.k = "count"   -> EvalCount(n, e)
    [] n.k = "assign"  -> EvalAssign(n, e)
    [] n.k = "index"   -> Then(Eval(n.c, e), LAMBDA c : Then(Eval(n.i, c.e), LAMBDA i :
                            Result(i.e, GetElement(i.e, c.v, i.v))))
    [] n.k = "call"    -> EvalCall(n, e)
    [] n.k = "obj"     -> EvalObjExpr(n, e)
    [] n.k = "arg"     -> EvalArg(n, e)
    [] n.k = "align"   -> Then(Eval(n.w, e), LAMBDA w : Then(Eval(n.e, w.e), LAMBDA r :
                            Result(r.e, Align(w.v, r.v))))
    [] n.k = "address" -> Result(e, IF n.f \in DOMAIN e.vars THEN e.vars[n.f] ELSE Null)
    [] n.k = "assert"  -> EvalAssert(n, e)
    [] n.k = "return"  -> Then(Eval(n.e, e), LAMBDA r : Early(r.e, r.v, "return"))
    [] n.k = "bridge"  -> Result(SetGlobal(e, n.f, [k |-> "function", f |-> n.f]), Null)
    [] n.k = "nop"     -> Result(e, Null)

RECURSIVE EvalBlock(_, _)
EvalBlock(ss, e) ==
  IF ss = <<>> THEN Early(e, Null, "return")
  ELSE Then(Eval(Head(ss), e), LAMBDA r : EvalBlock(Tail(ss), r.e))

-----------------------------------------------------------------------------
StartMem ==
  [vars |-> [f \in Natives |-> Native(f)], objs |-> <<>>, log |-> <<>>, count |-> 0,
   slots |-> <<>>]

Init ==
  /\ program \in Programs
  /\ code = Compile(program)
  /\ pc = 1
  /\ stack = Arguments
  /\ mem = StartMem
  /\ status = "run"
  /\ expected = EvalBlock(program, [StartMem EXCEPT !.slots = Arguments])

Next ==
  \/ PushNull \/ PushBool \/ PushConst
  \/ LoadLocal \/ StoreLocal \/ ReferenceLocal
  \/ LoadGlobal \/ StoreGlobal \/ ReferenceGlobal \/ AddressOf
  \/ BinaryOp \/ UnaryOp \/ StepOp \/ AlignOp
  \/ ShortCircuit \/ JumpAlways \/ JumpIf
  \/ Pop \/ Dup \/ Dup2 \/ Swap \/ Reverse \/ NoOp
  \/ CallOp \/ ObjExprOp \/ KeyValue
  \/ IndexGet \/ IndexEnsure \/ IndexSet \/ TupleGet \/ TupleCompound
  \/ UnaryPredicate \/ BinaryPredicate
  \/ AssertOp \/ MakeClosure \/ BridgeRegister \/ ReturnOp

Spec == Init /\ [][Next]_vars

-----------------------------------------------------------------------------
(* Compiled code does what the tree means: the same calls in the same      *)
(* order with the same values, the same variables and containers in the    *)
(* end, the same result, and it stops early where the tree does            *)
(* (compile_node of slp_compiler.c against the dispatch loop).             *)
FollowsMeaning ==
  status # "run" =>
    /\ status = expected.end
    /\ Env = expected.e
    /\ status = "return" => Top(0) = expected.v

(* Every statement leaves the operand stack as it found it: nothing is     *)
(* left above the slots, and no pop reaches into them (the pops compile_   *)
(* node adds after a statement, slp_compiler.c:389).                       *)
StatementStarts == {Len(Block(SubSeq(program, 1, i))) + 1 : i \in 0..Len(program)}
Balanced ==
  /\ Len(stack) >= Depth
  /\ status = "run" /\ pc \in StatementStarts => Len(stack) = Depth

(* A function written to a file is loaded as it was, constants of every    *)
(* kind at the indices the code uses (slp_bytecode.c:169 and 225, which    *)
(* puts every constant through the search for an equal one again).         *)
LoadsBack ==
  pc = 1 => \A chunk \in {B!Chunk(code)} :
    (\A i \in 1..Len(chunk.constants) : B!Serializable(chunk.constants[i])) =>
      B!Deserialize(B!Serialize(chunk)) = chunk

(* The disassembler lists the instructions of a function, each at the byte *)
(* where it starts and nothing else: "reading a short here would desync    *)
(* the entire disassembly stream" (slp_disasm.c:235).                      *)
ListingFollowsCode ==
  pc = 1 => B!DisasmChunk(B!Chunk(code)) = [i \in 1..Len(code) |-> B!Start(code, i)]

(* It does not where one of these is among them: they have operands that   *)
(* slp_disasm_instruction steps into (slp_disasm.c:243, 299).  In all      *)
(* other programs it does.                                                 *)
Misread == {"UNARY_PREDICATE", "BINARY_PREDICATE", "NEGATED_BINARY_PREDICATE", "ADDRESS",
            "BRIDGE_REGISTER"}
Disassembles ==
  {code[i].op : i \in 1..Len(code)} \cap Misread = {} => ListingFollowsCode
=============================================================================
