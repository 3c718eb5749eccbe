------------------------------- MODULE Bytecode -------------------------------
(***************************************************************************)
(* A compiled function as bytes: the chunk (src/src/slp_chunk.c) that the  *)
(* compiler writes, the file it is saved to and loaded from (src/src/slp_  *)
(* bytecode.c), and the disassembler's walk over it (src/src/slp_disasm.c).*)
(*                                                                         *)
(* An instruction is [op, arg], an operand nothing (its value is part of   *)
(* the opcode), a byte, a jump that counts the instructions it passes, or  *)
(* a constant.  A chunk is bytes; a character of a file is a cell too, and *)
(* the eight bytes of a number are those of a small integer.               *)
(***************************************************************************)
EXTENDS Integers, Sequences, SequencesExt

(* SlpOpcode, in its order, by the names that Expressions has for them.    *)
Opcodes ==
  <<"PUSH_NULL", "PUSH_TRUE", "PUSH_FALSE", "PUSH_CONST">>
    \o [n \in 1..8 |-> "LOAD_FAST"] \o [n \in 1..8 |-> "STORE_FAST"] \o
  <<"LOAD_LOCAL", "STORE_LOCAL", "LOAD_GLOBAL", "STORE_GLOBAL", "STORE_CATCH",
    "LOAD_UPVALUE", "STORE_UPVALUE", "REFERENCE_LOCAL", "REFERENCE_GLOBAL",
    "REFERENCE_UPVALUE", "add", "sub", "mul", "div", "mod", "pow", "negate",
    "concat", "ALIGN", "repeat", "==", "!=", "<", ">", "<=", ">=", "<=>",
    "MATCH", "NOT_MATCH", "not", "AND", "OR", "and", "or", "xor", "bitnot",
    "lshift", "rshift", "INCREMENT", "DECREMENT", "UNARY_PREDICATE",
    "BINARY_PREDICATE", "NEGATED_BINARY_PREDICATE", "POP", "DUP", "DUP2",
    "SWAP", "REVERSE", "JUMP", "JUMP_IF_FALSE", "JUMP_IF_TRUE", "JUMP_IF_NULL",
    "LOOP", "CALL", "CALL_NAMED", "RETURN", "INLINE_RETURN", "CLOSURE",
    "CLOSE_UPVALUE", "FOREACH_NEXT", "FOREACH_NEXT_VALUE", "BUILD_ARRAY",
    "BUILD_HASH", "BUILD_KEY_VALUE", "INDEX_GET", "INDEX_ENSURE", "INDEX_SET",
    "TUPLE_GET", "TUPLE_COMPOUND", "OBJ_EXPR", "PUSH_HANDLER", "POP_HANDLER",
    "THROW", "ASSERT", "HALT", "DONE", "YIELD", "CALLCC", "RESUME",
    "BRIDGE_REGISTER", "IMPORT", "BACKTICK", "CLASS_LITERAL", "ADDRESS",
    "LOCAL", "THIS", "UNPACK_TUPLE", "BREAK", "CONTINUE", "NOP", "END">>

(* The byte of an opcode; an opcode that is one of eight holds a slot.     *)
OpcodeByte == [op \in Range(Opcodes) |-> SelectInSeq(Opcodes, LAMBDA o : o = op) - 1]
ByteOf(instr) ==
  OpcodeByte[instr.op] + (IF instr.op \in {"LOAD_FAST", "STORE_FAST"} THEN instr.arg[1].v ELSE 0)

Byte == 256
Short(n) == <<n \div Byte, n % Byte>>
LongWord(n) == <<0, 0>> \o Short(n)                         \* write_u32
Number(n) == [i \in 1..8 |-> IF i = 8 THEN n % Byte ELSE IF n < 0 THEN Byte - 1 ELSE 0]

-----------------------------------------------------------------------------
(* The chunk: slp_chunk_add_constant finds an equal constant or appends    *)
(* one; constants_equal keeps 7, 7L and 7.0 apart.                         *)
ConstantsEqual(a, b) == a = b
AddConstant(pool, v) ==
  IF \E i \in 1..Len(pool) : ConstantsEqual(pool[i], v) THEN pool ELSE Append(pool, v)
IndexOfConstant(pool, v) == (CHOOSE i \in 1..Len(pool) : ConstantsEqual(pool[i], v)) - 1

OperandSize(a) == CASE a.t = "none" -> 0 [] a.t \in {"byte", "opcode"} -> 1 [] OTHER -> 2
Size(instr) == FoldLeft(LAMBDA n, a : n + OperandSize(a), 1, instr.arg)

(* The byte at which instruction i starts, counted from 0.                 *)
Start(code, i) == FoldLeft(LAMBDA n, c : n + Size(c), 0, SubSeq(code, 1, i - 1))

Pool(code) ==
  FoldLeft(LAMBDA pool, c :
             FoldLeft(LAMBDA p, a : IF a.t = "const" THEN AddConstant(p, a.v) ELSE p,
                      pool, c.arg),
           <<>>, code)

(* patch_jump: the bytes between the operand and the target.               *)
OperandCells(code, pool, i, a) ==
  CASE a.t = "none" -> <<>>
    [] a.t = "byte" -> <<a.v>>
    [] a.t = "opcode" -> <<OpcodeByte[a.v]>>
    [] a.t = "const" -> Short(IndexOfConstant(pool, a.v))
    [] a.t = "jump"  -> Short(Start(code, i + 1 + a.v) - Start(code, i + 1))
Chunk(code) ==
  LET pool == Pool(code)
      cells(i) == FoldLeft(LAMBDA s, a : s \o OperandCells(code, pool, i, a),
                           <<ByteOf(code[i])>>, code[i].arg)
  IN [code |-> FoldLeft(LAMBDA s, i : s \o cells(i), <<>>, [i \in 1..Len(code) |-> i]),
      constants |-> pool]

ReadShort(cells, at) == cells[at + 1] * Byte + cells[at + 2]     \* at counts from 0

-----------------------------------------------------------------------------
(* slp_bytecode_serialize_chunk: a constant of another kind, a function,   *)
(* cannot be written.                                                      *)
Kinds == <<"null", "bool", "int", "string", "long", "double">>
(* A variant that writes a double as a plain number.                       *)
TagOfNumber(v) ==
  IF v.k = "double" THEN 2 ELSE (CHOOSE i \in 1..Len(Kinds) : Kinds[i] = v.k) - 1
Tag(v) == (CHOOSE i \in 1..Len(Kinds) : Kinds[i] = v.k) - 1
Serializable(v) == \E i \in 1..Len(Kinds) : Kinds[i] = v.k
SerializeValue(v) ==
  <<Tag(v)>> \o
  (CASE v.k = "null"   -> <<>>
     [] v.k = "bool"   -> <<IF v.b THEN 1 ELSE 0>>
     [] v.k = "string" -> LongWord(Len(v.s)) \o v.s
     [] OTHER          -> Number(v.n))
Serialize(chunk) ==
  FoldLeft(LAMBDA s, v : s \o SerializeValue(v),
           LongWord(Len(chunk.code)) \o chunk.code \o LongWord(Len(chunk.constants)),
           chunk.constants)

(* slp_bytecode_reader_read: n cells at a position, if there are as many.  *)
Has(file, at, n) == at + n <= Len(file)
Cells(file, at, n) == SubSeq(file, at + 1, at + n)
LongWordAt(file, at) == ReadShort(file, at + 2)

(* deserialize_value: what cannot be read is the null value.  What was     *)
(* read of it is skipped, so the next value is read from there.            *)
Loaded(v, at) == [v |-> v, at |-> at]
NullValue == [k |-> "null"]
DeserializeValue(file, at) ==
  IF ~Has(file, at, 1) THEN Loaded(NullValue, at)
  ELSE LET kind == Kinds[file[at + 1] + 1]
           body == at + 1
       IN CASE kind = "null" -> Loaded(NullValue, body)
            [] kind = "bool" ->
                 IF Has(file, body, 1) THEN Loaded([k |-> "bool", b |-> file[body + 1] # 0], body + 1)
                 ELSE Loaded(NullValue, body)
            [] kind = "string" ->
                 IF ~Has(file, body, 4) THEN Loaded(NullValue, body)
                 ELSE IF ~Has(file, body + 4, LongWordAt(file, body))
                 THEN Loaded(NullValue, body + 4)
                 ELSE Loaded([k |-> "string", s |-> Cells(file, body + 4, LongWordAt(file, body))],
                             body + 4 + LongWordAt(file, body))
            [] OTHER ->
                 IF ~Has(file, body, 8) THEN Loaded(NullValue, body)
                 ELSE Loaded([k |-> kind, n |-> file[body + 8] - (IF file[body + 1] = 0 THEN 0 ELSE Byte)],
                             body + 8)

(* slp_bytecode_deserialize_chunk; Rejected is its NULL.                   *)
Rejected == [code |-> <<>>, constants |-> <<>>, rejected |-> TRUE]
RECURSIVE Constants(_, _, _, _)
Constants(file, at, n, pool) ==
  IF n = 0 THEN pool
  ELSE LET r == DeserializeValue(file, at) IN
       Constants(file, r.at, n - 1, AddConstant(pool, r.v))
Deserialize(file) ==
  IF ~Has(file, 0, 4) THEN Rejected
  ELSE LET n == LongWordAt(file, 0)
           pool == 4 + n
       IN IF ~Has(file, 4, n) \/ ~Has(file, pool, 4) THEN Rejected
          ELSE [code |-> Cells(file, 4, n),
                constants |-> Constants(file, pool + 4, LongWordAt(file, pool), <<>>)]

-----------------------------------------------------------------------------
(* slp_disasm_instruction: where it takes the next instruction to start.   *)
OpcodeAt(chunk, at) ==
  LET b == chunk.code[at + 1] IN IF b < Len(Opcodes) THEN Opcodes[b + 1] ELSE "unknown"
ShowsConstant == {"PUSH_CONST", "LOAD_GLOBAL", "STORE_GLOBAL", "STORE_CATCH",
                  "REFERENCE_GLOBAL"}
ShowsByte == {"LOAD_LOCAL", "STORE_LOCAL", "LOAD_UPVALUE", "STORE_UPVALUE",
              "REFERENCE_LOCAL", "REFERENCE_UPVALUE", "INDEX_ENSURE", "REVERSE",
              "TUPLE_COMPOUND", "OBJ_EXPR"}
IsShortInstruction ==
  {"PUSH_CONST", "LOAD_LOCAL", "STORE_LOCAL", "LOAD_GLOBAL", "STORE_GLOBAL", "STORE_CATCH",
   "LOAD_UPVALUE", "STORE_UPVALUE", "REFERENCE_GLOBAL", "JUMP", "JUMP_IF_FALSE",
   "JUMP_IF_TRUE", "JUMP_IF_NULL", "LOOP", "AND", "OR", "PUSH_HANDLER", "FOREACH_NEXT",
   "FOREACH_NEXT_VALUE", "BUILD_ARRAY", "BUILD_HASH", "BRIDGE_REGISTER", "IMPORT",
   "BACKTICK", "CLASS_LITERAL"}
(* A variant that takes local variables for two-byte operands.             *)
DisasmShortLocals(chunk, at) ==
  LET op == OpcodeAt(chunk, at) IN
  IF op \in IsShortInstruction THEN at + 3
  ELSE IF op \in ShowsByte \cup {"CALL"} THEN at + 2
  ELSE IF op = "CALL_NAMED" THEN at + 4 ELSE IF op = "CLOSURE" THEN at + 3 ELSE at + 1

(* The code's own.  A function of the pool has no upvalues to list.        *)
DisasmInstruction(chunk, at) ==
  LET op == OpcodeAt(chunk, at) IN
  CASE op \in ShowsConstant -> at + 3
    [] op \in ShowsByte -> at + 2
    [] op \in IsShortInstruction \ (ShowsConstant \cup ShowsByte) -> at + 3
    [] op = "CALL" -> at + 2
    [] op = "CALL_NAMED" -> at + 4
    [] op = "CLOSURE" -> at + 3
    [] OTHER -> at + 1

(* slp_disasm_chunk: the bytes it lists an instruction at, each where the  *)
(* instruction before it ended in its reading.                             *)
RECURSIVE ListedFrom(_, _)
ListedFrom(chunk, at) ==
  IF at >= Len(chunk.code) THEN <<>>
  ELSE <<at>> \o ListedFrom(chunk, DisasmInstruction(chunk, at))
DisasmChunk(chunk) == ListedFrom(chunk, 0)
===============================================================================
