------------------------------- MODULE Numbers -------------------------------
(***************************************************************************)
(* The operators of expressions on numbers and strings (src/src/slp_vm.c): *)
(* the dispatch loop's OP_ADD ... OP_DECREMENT, and a second copy of the   *)
(* binary ones, evaluate_assignment_operator, that compound assignment to  *)
(* a one-element tuple uses.  Ints and longs have a fixed width and wrap;  *)
(* the width of the wider operand decides.  A double is a whole number of  *)
(* halves; a string is a sequence of atoms, and of a string only the       *)
(* number its text starts with matters to arithmetic.                      *)
(*                                                                         *)
(* Meant says the same independently: the result is the one value of the   *)
(* right width that satisfies the arithmetic law.                          *)
(***************************************************************************)
EXTENDS Integers, Sequences, Bitwise, TLC

CONSTANTS
  IntBits, LongBits,  \* widths of an int and of a long (32 and 64)
  LeadingNumber(_)    \* the number a text starts with, 0 if it starts with none

ASSUME NumbersAssumption ==
  IntBits \in Nat \ {0} /\ LongBits \in Nat /\ LongBits > IntBits

Null      == [k |-> "null"]
BoolVal(b)   == [k |-> "bool", b |-> b]
IntVal(n)    == [k |-> "int", n |-> n]
LongVal(n)   == [k |-> "long", n |-> n]
DoubleVal(h) == [k |-> "double", n |-> h]
Text(s)   == [k |-> "string", s |-> s]
Str(atom) == Text(<<atom>>)

(* Outcomes of an operator that are not values: a runtime error, and the   *)
(* processor's division trap that ends the process.                        *)
Error == [k |-> "error"]
Trap  == [k |-> "trap"]

(* slp_value_is_falsy: no string is.                                       *)
Falsy(v) ==
  \/ v = Null \/ v = BoolVal(FALSE)
  \/ v.k \in {"int", "long", "double"} /\ v.n = 0

-----------------------------------------------------------------------------
(* numeric_kind and widest_numeric_kind.                                   *)
Kind(v) == IF v.k \in {"double", "long"} THEN v.k ELSE "int"
Widest(a, b) ==
  LET kinds == {Kind(a), Kind(b)} IN
  IF "double" \in kinds THEN "double" ELSE IF "long" \in kinds THEN "long" ELSE "int"

(* slp_value_as_number, in halves.                                         *)
AsNumber(v) ==
  CASE v.k = "double" -> v.n
    [] v.k \in {"int", "long"} -> 2 * v.n
    [] v = BoolVal(TRUE) -> 2
    [] v.k = "string" -> IF v.s = <<>> THEN 0 ELSE 2 * LeadingNumber(Head(v.s))
    [] OTHER -> 0

Power2(bits) == 2 ^ bits
Least(bits) == -Power2(bits - 1)
Wrap(n, bits) == ((n - Least(bits)) % Power2(bits)) + Least(bits)
Toward0(n, d) ==
  IF (n < 0) = (d < 0) THEN (IF n < 0 THEN -n ELSE n) \div (IF d < 0 THEN -d ELSE d)
  ELSE -((IF n < 0 THEN -n ELSE n) \div (IF d < 0 THEN -d ELSE d))

(* numeric_int_value, numeric_long_value: the fraction is cut off.         *)
IntOf(v) == Toward0(AsNumber(v), 2)
LongOf(v) == IF v.k = "long" THEN v.n ELSE Toward0(AsNumber(v), 2)

Integral(kind, n) ==
  IF kind = "long" THEN LongVal(Wrap(n, LongBits)) ELSE IntVal(Wrap(n, IntBits))
Whole(kind, v) == IF kind = "long" THEN LongOf(v) ELSE IntOf(v)

-----------------------------------------------------------------------------
(* Sum, difference, product of two numbers; of halves, rounded to halves.  *)
Exact(op, x, y) ==
  CASE op = "add" -> x + y [] op = "sub" -> x - y [] op = "mul" -> x * y
ExactHalves(op, x, y) == IF op = "mul" THEN Toward0(x * y, 2) ELSE Exact(op, x, y)

(* A variant that takes the width of the left operand.                     *)
ArithmeticLeftWidth(op, a, b) ==
  IF Kind(a) = "double" THEN DoubleVal(ExactHalves(op, AsNumber(a), AsNumber(b)))
  ELSE Integral(Kind(a), Exact(op, Whole(Kind(a), a), Whole(Kind(a), b)))

(* OP_ADD, OP_SUBTRACT, OP_MULTIPLY.                                       *)
Arithmetic(op, a, b) ==
  LET kind == Widest(a, b) IN
  IF kind = "double" THEN DoubleVal(ExactHalves(op, AsNumber(a), AsNumber(b)))
  ELSE Integral(kind, Exact(op, Whole(kind, a), Whole(kind, b)))

(* OP_DIVIDE: the least number by -1 is tested for.                        *)
Divide(a, b) ==
  LET kind == Widest(a, b)
      d == Whole(kind, b)
  IN IF kind = "double"
     THEN IF AsNumber(b) = 0 THEN [k |-> "nonfinite"]
          ELSE DoubleVal(Toward0(2 * AsNumber(a), AsNumber(b)))
     ELSE IF d = 0 THEN Error
     ELSE Integral(kind, Toward0(Whole(kind, a), d))

(* OP_MODULO: the least number by -1 is not; the processor's division      *)
(* that yields the remainder traps on it.                                  *)
Modulo(a, b) ==
  LET kind == Widest(a, b)
      bits == IF kind = "long" THEN LongBits ELSE IntBits
      x == IF kind = "double" THEN AsNumber(a) ELSE Whole(kind, a)
      d == IF kind = "double" THEN AsNumber(b) ELSE Whole(kind, b)
  IN CASE d = 0 -> Error
       [] d # 0 /\ kind = "double" -> DoubleVal(x - d * Toward0(x, d))
       [] kind # "double" /\ d = -1 /\ x = Least(bits) -> Trap
       [] OTHER -> Integral(kind, x - d * Toward0(x, d))

(* OP_POWER always yields a double; exponents are small naturals here.     *)
Power(a, b) == DoubleVal(2 * (Toward0(AsNumber(a), 2) ^ Toward0(AsNumber(b), 2)))

(* OP_NEGATE, OP_INCREMENT, OP_DECREMENT.                                  *)
Negate(v) ==
  IF Kind(v) = "double" THEN DoubleVal(-AsNumber(v))
  ELSE Integral(Kind(v), -Whole(Kind(v), v))
Step(v, by) ==
  IF Kind(v) = "double" THEN DoubleVal(AsNumber(v) + 2 * by)
  ELSE Integral(Kind(v), Whole(Kind(v), v) + by)

(* OP_BIT_AND, OP_BIT_OR, OP_BIT_XOR: a double counts as an int.           *)
BitKind(a, b) == IF Widest(a, b) = "long" THEN "long" ELSE "int"
Bits(op, a, b) ==
  LET kind == BitKind(a, b)
      x == Whole(kind, a) % Power2(LongBits)
      y == Whole(kind, b) % Power2(LongBits)
  IN Integral(kind, CASE op = "and" -> x & y
                      [] op = "or"  -> x | y
                      [] op = "xor" -> x ^^ y)

(* OP_BIT_NOT.                                                             *)
BitNot(v) == Integral(BitKind(v, v), -Whole(BitKind(v, v), v) - 1)

(* OP_LSHIFT, OP_RSHIFT: the left operand decides the width.               *)
Shift(op, a, b) ==
  LET kind == IF Kind(a) = "long" THEN "long" ELSE "int"
      by == IntOf(b) % (IF kind = "long" THEN LongBits ELSE IntBits)
  IN Integral(kind, IF op = "lshift" THEN Whole(kind, a) * Power2(by)
                    ELSE Whole(kind, a) \div Power2(by))

(* slp_vm_stringify: a number is one atom, an object is its kind.          *)
Stringify(v) ==
  CASE v.k = "string" -> v.s
    [] v.k = "null" -> <<>>
    [] v.k = "bool" -> <<IF v.b THEN "true" ELSE "false">>
    [] v.k \in {"int", "long"} -> <<ToString(v.n)>>
    [] v.k = "double" -> <<ToString(v.n \div 2), IF v.n % 2 = 0 THEN ".0" ELSE ".5">>
    [] OTHER -> <<v.k>>

(* OP_CONCAT, OP_REPEAT, OP_ALIGN.                                         *)
Concat(a, b) == Text(Stringify(a) \o Stringify(b))
RECURSIVE Times(_, _)
Times(s, n) == IF n <= 0 THEN <<>> ELSE s \o Times(s, n - 1)
Repeat(a, b) == Text(Times(Stringify(a), IntOf(b)))
Align(width, v) ==
  LET s == Stringify(v)
      w == IntOf(width)
      pad == Times(<<" ">>, (IF w < 0 THEN -w ELSE w) - Len(s))
  IN Text(IF w < 0 THEN pad \o s ELSE s \o pad)

(* slp_value_equals: numbers by value, whatever their kind.                *)
Equals(a, b) ==
  IF {a.k, b.k} \subseteq {"int", "long", "double"} THEN AsNumber(a) = AsNumber(b)
  ELSE a = b

(* OP_EQUAL ... OP_GREATER_EQUAL, OP_SPACESHIP.                            *)
Compare(op, a, b) ==
  LET x == AsNumber(a)
      y == AsNumber(b)
  IN CASE op = "==" -> BoolVal(Equals(a, b)) [] op = "!=" -> BoolVal(~Equals(a, b))
       [] op = "<" -> BoolVal(x < y)   [] op = ">" -> BoolVal(x > y)
       [] op = "<=" -> BoolVal(x <= y) [] op = ">=" -> BoolVal(x >= y)
       [] op = "<=>" -> IntVal(IF x < y THEN -1 ELSE IF x > y THEN 1 ELSE 0)

Sums == {"add", "sub", "mul"}
BitOps == {"and", "or", "xor"}
Shifts == {"lshift", "rshift"}
Comparisons == {"==", "!=", "<", ">", "<=", ">=", "<=>"}

Binary(op, a, b) ==
  CASE op \in Sums -> Arithmetic(op, a, b)
    [] op = "div" -> Divide(a, b)
    [] op = "mod" -> Modulo(a, b)
    [] op = "pow" -> Power(a, b)
    [] op = "concat" -> Concat(a, b)
    [] op = "repeat" -> Repeat(a, b)
    [] op \in BitOps -> Bits(op, a, b)
    [] op \in Shifts -> Shift(op, a, b)
    [] op \in Comparisons -> Compare(op, a, b)

-----------------------------------------------------------------------------
(***************************************************************************)
(* evaluate_assignment_operator: the copy the tuple assignments use.       *)
(***************************************************************************)
TupleArithmetic(op, a, b) ==
  CASE Widest(a, b) = "double" -> DoubleVal(ExactHalves(op, AsNumber(a), AsNumber(b)))
    [] Widest(a, b) = "long" -> LongVal(Wrap(Exact(op, LongOf(a), LongOf(b)), LongBits))
    [] OTHER -> IntVal(Wrap(Exact(op, IntOf(a), IntOf(b)), IntBits))

TupleDivide(a, b) ==
  CASE Widest(a, b) = "double" /\ AsNumber(b) = 0 -> [k |-> "nonfinite"]
    [] Widest(a, b) = "double" /\ AsNumber(b) # 0 ->
         DoubleVal(Toward0(2 * AsNumber(a), AsNumber(b)))
    [] Widest(a, b) = "long" -> IF LongOf(b) = 0 THEN Error
                                ELSE LongVal(Wrap(Toward0(LongOf(a), LongOf(b)), LongBits))
    [] OTHER -> IF IntOf(b) = 0 THEN Error
                ELSE IntVal(Wrap(Toward0(IntOf(a), IntOf(b)), IntBits))

TuplePower(a, b) == DoubleVal(2 * (Toward0(AsNumber(a), 2) ^ Toward0(AsNumber(b), 2)))
TupleConcat(a, b) == Text(Stringify(a) \o Stringify(b))

TupleBits(op, a, b) == Bits(op, a, b)
TupleShift(op, a, b) ==
  IF Kind(a) = "long"
  THEN LET by == IntOf(b) % LongBits IN
       LongVal(Wrap(IF op = "lshift" THEN LongOf(a) * Power2(by)
                 ELSE LongOf(a) \div Power2(by), LongBits))
  ELSE LET by == IntOf(b) % IntBits IN
       IntVal(Wrap(IF op = "lshift" THEN IntOf(a) * Power2(by)
                ELSE IntOf(a) \div Power2(by), IntBits))

TupleBinary(op, a, b) ==
  CASE op \in Sums -> TupleArithmetic(op, a, b)
    [] op = "div" -> TupleDivide(a, b)
    [] op = "pow" -> TuplePower(a, b)
    [] op = "concat" -> TupleConcat(a, b)
    [] op \in BitOps -> TupleBits(op, a, b)
    [] op \in Shifts -> TupleShift(op, a, b)

-----------------------------------------------------------------------------
(***************************************************************************)
(* What an operator is meant to yield, for the integral kinds: the number  *)
(* of that width congruent to the exact result; the quotient q and the     *)
(* remainder r with a = q * b + r, r smaller than b and of a's sign.       *)
(***************************************************************************)
RangeLeast(kind) == Least(IF kind = "long" THEN LongBits ELSE IntBits)
RangeOf(kind) == RangeLeast(kind)..(-RangeLeast(kind) - 1)
Same(kind, n, exact) ==
  (n - exact) % Power2(IF kind = "long" THEN LongBits ELSE IntBits) = 0
Magnitude(n) == IF n < 0 THEN -n ELSE n

MeantQuotient(kind, x, d, v) ==
  \E q \in -Magnitude(x)..Magnitude(x) :
    /\ Same(kind, v, q)
    /\ Magnitude(q * d) <= Magnitude(x) /\ Magnitude(x - q * d) < Magnitude(d)
MeantRemainder(x, d, r) ==
  /\ r \in (-Magnitude(d) + 1)..(Magnitude(d) - 1)
  /\ r # 0 => (r < 0) = (x < 0)
  /\ (x - r) % Magnitude(d) = 0

(* v is what operator op of integral operands a and b is meant to yield.   *)
IsMeant(op, a, b, v) ==
  LET kind == IF op \in Shifts THEN Kind(a) ELSE Widest(a, b)
      x == Whole(kind, a)
      y == Whole(kind, b)
  IN IF op \in {"div", "mod"} /\ y = 0 THEN v = Error
     ELSE /\ v.k = kind /\ v.n \in RangeOf(kind)
          /\ CASE op \in Sums -> Same(kind, v.n, Exact(op, x, y))
               [] op = "div" -> MeantQuotient(kind, x, y, v.n)
               [] op = "mod" -> MeantRemainder(x, y, v.n)
=============================================================================
