----------------------------- MODULE HostValues ------------------------------
(***************************************************************************)
(* How a native of the host reads the arguments it is called with          *)
(* (src/src/slp_embed.c): one by one through a cursor, slp_args_next_int   *)
(* and so on, or all at once by a format, slp_args_unpack.  An argument    *)
(* may be a variable passed by reference or a tainted value.  A getter is  *)
(* the set of what it yields: empty when the value is of another type.     *)
(***************************************************************************)
EXTENDS Expressions

CONSTANTS
  Formats,   \* the formats natives unpack by: sequences of codes
  TypeLists  \* the orders in which natives try the typed reads

Tainted(v) == [k |-> "tainted", v |-> v]

(* embedding_value: what is inside any number of cells and taints.         *)
RECURSIVE EmbeddingValue(_, _)
EmbeddingValue(e, v) ==
  CASE v.k = "ref"     -> EmbeddingValue(e, ReadVar(e, v.x))
    [] v.k = "tainted" -> EmbeddingValue(e, v.v)
    [] OTHER           -> v

-----------------------------------------------------------------------------
(* slp_value_is_number and its like.                                       *)
IsNumber(u)   == u.k \in {"int", "long", "double", "nonfinite"}
IsCallable(u) == u.k \in {"native", "function"}
ValueIs(kind, u) ==
  CASE kind = "number" -> IsNumber(u) [] kind = "callable" -> IsCallable(u)
    [] OTHER -> u.k = kind

(* slp_value_get_number, _int, _long, _bool, _string, _array, _hash, of    *)
(* what embedding_value has taken out.                                     *)
InRange(h, bits) == 2 * Least(bits) <= h /\ h < -2 * Least(bits)
GetNumber(u) == IF IsNumber(u) THEN {u} ELSE {}
(* The largest int is compared with the number before its fraction is cut. *)
GetInt(u) ==
  {Toward0(AsNumber(x), 2) : x \in {y \in GetNumber(u) :
     y.k # "nonfinite" /\ InRange(AsNumber(y), IntBits)
       /\ AsNumber(y) <= 2 * (-Least(IntBits) - 1)}}
GetLong(u) ==
  IF u.k = "long" THEN {u.n}
  ELSE {Toward0(AsNumber(x), 2) : x \in {y \in GetNumber(u) :
          y.k # "nonfinite" /\ InRange(AsNumber(y), LongBits)}}
GetBool(u)   == IF u.k = "bool" THEN {u.b} ELSE {}
GetString(u) == IF u.k = "string" THEN {u.s} ELSE {}
GetArray(u)  == IF u.k = "array" THEN {u} ELSE {}
GetHash(u)   == IF u.k = "hash" THEN {u} ELSE {}
(* slp_callable_acquire: the handle holds the function.                    *)
GetCallable(u) == IF ValueIs("callable", u) THEN {u} ELSE {}

-----------------------------------------------------------------------------
(* The cursor: slp_args_init, slp_args_remaining, slp_args_peek.           *)
ArgsInit(e, args) == [e |-> e, values |-> args, index |-> 0]
Remaining(reader) == Len(reader.values) - reader.index
Peek(reader) == IF Remaining(reader) = 0 THEN {} ELSE {reader.values[reader.index + 1]}
Advance(reader) == [reader EXCEPT !.index = @ + 1]

(* A variant that moves on although the value is of another type.          *)
YieldSkips(reader, got) ==
  IF Remaining(reader) = 0 THEN [ok |-> FALSE, reader |-> reader, out |-> <<>>]
  ELSE [ok |-> got # {}, reader |-> Advance(reader),
        out |-> IF got = {} THEN <<>> ELSE <<Only(got)>>]

(* The end of every read: the cursor moves when a value was had.           *)
Yield(reader, got) ==
  IF got = {} THEN [ok |-> FALSE, reader |-> reader, out |-> <<>>]
  ELSE [ok |-> TRUE, reader |-> Advance(reader), out |-> <<Only(got)>>]

(* slp_args_next_int, _long, _number, _bool, _array, _hash.                *)
TypedNext(reader, Get(_)) ==
  Yield(reader, UNION {Get(EmbeddingValue(reader.e, v)) : v \in Peek(reader)})

NextValue(reader)    == Yield(reader, Peek(reader))
NextString(reader)   == TypedNext(reader, GetString)
NextTruthy(reader)   == TypedNext(reader, LAMBDA u : {~Falsy(u)})
NextCallable(reader) == TypedNext(reader, GetCallable)

NextOf(type, reader) ==
  CASE type = "int"    -> TypedNext(reader, GetInt)
    [] type = "long"   -> TypedNext(reader, GetLong)
    [] type = "number" -> TypedNext(reader, GetNumber)
    [] type = "bool"   -> TypedNext(reader, GetBool)
    [] type = "array"  -> TypedNext(reader, GetArray)
    [] type = "hash"   -> TypedNext(reader, GetHash)
    [] type = "string" -> NextString(reader)
    [] type = "truthy" -> NextTruthy(reader)
    [] type = "callable" -> NextCallable(reader)
    [] type = "value"  -> NextValue(reader)

-----------------------------------------------------------------------------
(* unpack_nullable_string: $null is no string and no failure.              *)
NextNullable(reader, length) ==
  LET size(s) == IF length THEN <<s, Len(s)>> ELSE <<s>> IN
  TypedNext(reader, LAMBDA u :
    IF ValueIs("null", u) THEN {<<Null>> \o (IF length THEN <<0>> ELSE <<>>)}
    ELSE {size(s) : s \in GetString(u)})

(* Code i converts what is no number, as the operators do.                 *)
Coerced(u) ==
  IF u.k # "nonfinite" /\ InRange(AsNumber(u), IntBits)
     /\ AsNumber(u) <= 2 * (-Least(IntBits) - 1)
  THEN {Toward0(AsNumber(u), 2)} ELSE {}

UnpackOne(letter, reader) ==
  CASE letter = "s"  -> NextNullable(reader, FALSE)
    [] letter = "s#" -> NextNullable(reader, TRUE)
    [] letter = "i"  -> TypedNext(reader, Coerced)
    [] letter = "l"  -> NextOf("long", reader)
    [] letter = "d"  -> NextOf("number", reader)
    [] letter = "b"  -> NextOf("truthy", reader)
    [] letter = "O"  -> TypedNext(reader, LAMBDA u : {u})
    [] letter = "O!array" -> NextOf("array", reader)
    [] letter = "O!hash"  -> NextOf("hash", reader)

(* slp_args_unpack: outputs are written as far as it gets.                 *)
RECURSIVE UnpackFrom(_, _, _, _)
UnpackFrom(format, reader, optional, out) ==
  CASE format = <<>> -> [ok |-> TRUE, out |-> out]
    [] format # <<>> /\ Head(format) = "|" -> UnpackFrom(Tail(format), reader, TRUE, out)
    [] format # <<>> /\ Head(format) # "|" /\ Remaining(reader) = 0 ->
         [ok |-> optional, out |-> out]
    [] OTHER ->
         LET r == UnpackOne(Head(format), reader) IN
         IF r.ok THEN UnpackFrom(Tail(format), r.reader, optional, out \o r.out)
         ELSE [ok |-> FALSE, out |-> out]
Unpack(e, format, args) == UnpackFrom(format, ArgsInit(e, args), FALSE, <<>>)

(* A native that takes each argument by the first typed read that succeeds.*)
RECURSIVE ReadAll(_, _, _)
ReadAll(types, i, reader) ==
  IF Remaining(reader) = 0 \/ i > Len(types) THEN <<>>
  ELSE LET r == NextOf(types[i], reader) IN
       IF r.ok THEN <<[type |-> types[i], v |-> r.out[1]]>> \o ReadAll(types, 1, r.reader)
       ELSE ReadAll(types, i + 1, r.reader)

-----------------------------------------------------------------------------
(***************************************************************************)
(* What the reads mean, argument by argument.                              *)
(***************************************************************************)
(* The whole number n is h halves with the fraction cut off.               *)
CutTo(h, n) == Magnitude(2 * n) <= Magnitude(h) /\ Magnitude(h - 2 * n) < 2
Between(h, least, most) == 2 * least <= h /\ h <= 2 * most

Wants(letter, u) ==
  CASE letter \in {"s", "s#"}   -> u = Null \/ u.k = "string"
    [] letter = "i"             -> Between(AsNumber(u), Least(IntBits), -Least(IntBits) - 1)
    [] letter \in {"l", "d"}    -> u.k \in {"int", "long", "double"}
    [] letter = "O!array"       -> u.k = "array"
    [] letter = "O!hash"        -> u.k = "hash"
    [] OTHER                  -> TRUE
Means(letter, u, o) ==
  CASE letter = "s"        -> o = IF u = Null THEN <<Null>> ELSE <<u.s>>
    [] letter = "s#"       -> o = IF u = Null THEN <<Null, 0>> ELSE <<u.s, Len(u.s)>>
    [] letter \in {"i", "l"} -> CutTo(AsNumber(u), o)
    [] letter = "b"        -> o = (~Falsy(u))
    [] OTHER             -> o = u

(* The outputs are those of the codes before the first that does not fit   *)
(* its argument; unpacking succeeds when all fit and what is missing is    *)
(* optional.                                                               *)
Unpacks(e, format, args) ==
  LET bars == {i \in 1..Len(format) : format[i] = "|"}
      codes == SelectSeq(format, LAMBDA c : c # "|")
      required == IF bars = {} THEN Len(codes)
                  ELSE (CHOOSE i \in bars : \A j \in bars : i <= j) - 1
      given == {i \in 1..Len(codes) : i <= Len(args)}
      inside(i) == EmbeddingValue(e, args[i])
      fits(i) == \A j \in 1..i : Wants(codes[j], inside(j))
      r == Unpack(e, format, args)
  IN /\ r.ok <=> required <= Len(args) /\ \A i \in given : fits(i)
     /\ Len(r.out) = Cardinality({i \in given : fits(i)})
     /\ \A i \in 1..Len(r.out) : Means(codes[i], inside(i), r.out[i])

(* Trying one type after the other takes every argument once, in order, by *)
(* the first type in the list that it is of.                               *)
OfType(type, u) ==
  CASE type = "value"  -> TRUE
    [] type = "int"    -> Wants("l", u) /\ Wants("i", u)
    [] type \in {"long", "number"} -> Wants("d", u)
    [] OTHER           -> ValueIs(type, u)
ReadsEach(e, types, args) ==
  LET r == ReadAll(types, 1, ArgsInit(e, args))
      first(u) == CHOOSE i \in 1..Len(types) :
                    OfType(types[i], u) /\ \A j \in 1..(i - 1) : ~OfType(types[j], u)
  IN /\ Len(r) = Len(args)
     /\ \A i \in 1..Len(args) : r[i].type = types[first(EmbeddingValue(e, args[i]))]

(* The arguments as they are, and all of them tainted.                     *)
ArgumentsOf(n) ==
  LET args == [i \in 1..n |-> Top(n - i)] IN
  {args, [i \in 1..n |-> Tainted(args[i])]}

(***************************************************************************)
(* Whatever a script passes to a native -- too few values, values by       *)
(* reference, tainted, of other types -- the host's reads take them in     *)
(* turn: a read that fails consumes nothing, a code that consumes none or  *)
(* two shifts no later output, and numbers out of range are refused, not   *)
(* cut (slp_args_unpack and the typed reads).                             *)
(***************************************************************************)
HostReadsInTurn ==
  Running({"CALL", "CALL_NAMED"}) /\ Top(Operand).k = "native" =>
    \A args \in ArgumentsOf(Operand) :
      /\ \A format \in Formats : Unpacks(Env, format, args)
      /\ \A types \in TypeLists : ReadsEach(Env, types, args)
=============================================================================
