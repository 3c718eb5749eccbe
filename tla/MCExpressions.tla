---------------------------- MODULE MCExpressions ----------------------------
(***************************************************************************)
(* An instance of Expressions: ints of 4 and longs of 8 bits.  Operators   *)
(* on every pair of boundary values, alone and as compound assignments;    *)
(* every kind of expression around every other, with operands that count,  *)
(* so that the order they are evaluated in shows in their values.          *)
(***************************************************************************)
EXTENDS HostValues

MCLeadingNumber(atom) == CASE atom = "3" -> 3 [] atom = "-2" -> -2 [] OTHER -> 0

(* $0 is the name of the function, $1 and $2 are its arguments.            *)
MCLocals    == <<"$0", "$1", "$2", "@_">>
MCArguments == <<Str("f"), IntVal(3), Null, Null>>

MCValues ==
  {IntVal(n) : n \in {-8, -1, 0, 3, 7}} \cup {LongVal(n) : n \in {-128, -1, 0, 5, 127}}
    \cup {DoubleVal(-3), DoubleVal(4), Str("3"), Null, BoolVal(TRUE)}
Small(op) == op \in {"repeat"} \cup Shifts
Powers == {IntVal(0), IntVal(2), LongVal(3), DoubleVal(3)}

MCNext == Call(Ident("next"), <<>>)
MCArg(e) == Arg(Nothing, e)
MCNote(args) == Call(Ident("note"), args)
Key(s) == Const(Str(s))

Operators == BinaryOps \ (Comparisons \ {"==", "<", "<=>"})
OnValues ==
  {<<Return(Bin(op, Const(a), Const(b)))>> :
     op \in {o \in Operators : ~Small(o) /\ o # "pow"}, a \in MCValues, b \in MCValues}
    \cup {<<Return(Bin(op, Const(a), Const(b)))>> :
     op \in {o \in Operators : Small(o)}, a \in MCValues \ {DoubleVal(-3)}, b \in Powers}
    \cup {<<Return(Bin("pow", Const(a), Const(b)))>> :
     a \in MCValues, b \in Powers \ {IntVal(0)}}
Compound == {"add", "sub", "mul", "div", "concat"} \cup BitOps \cup {"lshift"}
OnTuples ==
  {<<Assign("plain", Var("$a"), Const(a)),
     Assign(op, Tuple(<<Var("$a")>>), Const(b)), Return(Var("$a"))>> :
     op \in Compound \ {"lshift"}, a \in MCValues, b \in MCValues}
    \cup {<<Assign("plain", Var("$a"), Const(a)),
     Assign(op, Tuple(<<Var("$a")>>), Const(b)), Return(Var("$a"))>> :
     op \in Shifts \cup {"pow"}, a \in MCValues, b \in Powers \ {IntVal(0)}}

(* Expressions that matter as operands.                                    *)
Inner ==
  { MCNext, Var("$1"), Var("$a"), Const(LongVal(-1)),
    Count(1, Var("$1")), Count(-1, Var("@_")), Count(1, Const(IntVal(0))),
    Bin("sub", MCNext, MCNext),
    Both("AND", MCNext, Const(IntVal(0))), Both("OR", MCNext, MCNext),
    Assign("add", Var("$1"), MCNext),
    Assign("mul", Index(Var("@l"), Const(IntVal(-1))), MCNext),
    Assign("plain", Index(Index(Var("%h"), Key("k")), MCNext), MCNext),
    MCNote(<<MCArg(MCNext), MCArg(Var("$1")), MCArg(MCNext)>>),
    Call(Ident("set"), <<MCArg(Var("$1")), MCArg(MCNext)>>) }

(* Expressions around one and around two operands.                         *)
Around(x) ==
  { Un("negate", x), Un("not", x), Un("bitnot", x), Is("-istrue", x), Is("-isnull", x), Is("-islong", x),
    Pred("in", FALSE, x, Var("%h")),
    AlignTo(Const(IntVal(-3)), x),
    Assign("plain", Tuple(<<Var("$a"), Var("$1")>>), x),
    Assign("add", Tuple(<<Var("$1"), Var("$2")>>), x),
    Call(Const(Null), <<MCArg(x)>>), Call(Ident("missing"), <<MCArg(x)>>),
    ObjExpr(Ident("note"), Ident("m"), <<MCArg(x)>>),
    MCNote(<<Arg(Ident("key"), x), Arg(Var("$k"), Var("$1")), Arg(MCNext, x)>>),
    MCNote(<<MCArg(Address("$a")), MCArg(x), MCArg(Address("next"))>>) }
Among(x, y) ==
  { Bin("sub", x, y), Bin("concat", x, y), Bin("mod", x, y), Bin("<", x, y),
    Both("AND", x, y), Both("OR", x, y),
    Pred("is", FALSE, x, y), Pred("eq", TRUE, x, y), Pred("isin", FALSE, y, x), Pred("in", TRUE, x, y),
    Assign("plain", Index(Var("@l"), x), y),
    Assign("concat", Index(Index(Var("%h"), x), Key("j")), y),
    Index(x, y), Index(Var("%h"), y),
    MCNote(<<MCArg(x), MCArg(y), MCArg(x)>>),
    ObjExpr(Ident("note"), Nothing, <<MCArg(x), MCArg(y)>>),
    ObjExpr(Ident("note"), x, <<MCArg(y)>>),
    Call(Ident("iff"), <<MCArg(x), MCArg(y)>>),
    Call(Ident("iff"), <<MCArg(Un("not", x)), MCArg(y), MCArg(MCNext)>>) }

Statements(e) ==
  { <<e, Return(Var("$1"))>>, <<Assign("plain", Var("$a"), e), Return(Var("$a"))>> }
Nested ==
  UNION {Statements(e) : e \in UNION {Around(x) : x \in Inner}
                          \cup UNION {Among(x, y) : x \in Inner, y \in Inner}}

Whole3 ==
  { <<>>, <<Call(Ident("iff"), <<>>)>>, <<Nop, Sub("sub", "f"), Return(Address("f"))>>,
    <<Assertion(Var("$1"), Nothing), Assertion(Is("-isnull", Var("$1")), Key("no")), MCNext>>,
    <<Assertion(Bin("add", MCNext, MCNext), MCNext), MCNext>>,
    <<Assertion(Both("OR", Var("$2"), MCNext), Nothing), Return(Const(BoolVal(TRUE)))>> }

(* Calls of a native with values of every type, numbers at the bounds.     *)
HostArguments ==
  { Const(v) : v \in {IntVal(7), LongVal(127), DoubleVal(15), DoubleVal(-17), DoubleVal(255),
                      Str("3"), Null, BoolVal(TRUE)} }
    \cup { Var("@l"), Var("%h"), Var("$1"), Address("next") }
Few == { Const(Str("3")), Const(LongVal(127)), Var("@l"), Var("$1") }
HostCalls ==
  { <<Call(Ident("note"), <<>>)>> }
    \cup { <<MCNote(<<MCArg(a)>>)>> : a \in HostArguments }
    \cup { <<MCNote(<<MCArg(a), MCArg(b)>>)>> : a \in HostArguments, b \in HostArguments }
    \cup { <<MCNote(<<MCArg(a), MCArg(b), MCArg(c)>>)>> :
              a \in Few, b \in HostArguments, c \in Few }

(* Formats natives unpack by, and orders in which they try the types.      *)
MCFormats ==
  { <<"i", "l", "d">>, <<"l", "i">>, <<"s", "|", "s#", "b">>, <<"s#", "O", "O">>,
    <<"|", "O!array", "i">>, <<"O!hash", "|", "O!array">>, <<"b", "O!array", "i">>,
    <<"d", "|", "s#", "i">> }
MCTypeLists ==
  { <<"int", "string", "array", "value">>, <<"bool", "hash", "callable", "number", "value">>,
    <<"long", "int", "value">> }

MCPrograms == OnValues \cup OnTuples \cup Nested \cup Whole3 \cup HostCalls
=============================================================================
