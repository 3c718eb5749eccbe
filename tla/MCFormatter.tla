----------------------------- MODULE MCFormatter -----------------------------
(* Files for TLC: trees of expressions written with every parenthesis, rows *)
(* of operators without any, and statements, alone and line by line.        *)
EXTENDS Formatter

W(ss) == [i \in DOMAIN ss |-> Token(ss[i])]
a == Node("scalar", "$a", <<>>)
b == Node("array", "@b", <<>>)
f == Node("identifier", "f", <<>>)
s == Node("string", "", <<Text("$s")>>)
Leaves == {a, b, f, s}

RECURSIVE Full(_), FullList(_), Inner(_)
FullList(ns) ==
  CASE ns = <<>> -> <<>>
    [] Len(ns) = 1 -> Full(ns[1])
    [] OTHER -> Full(ns[1]) \o Ts(",") \o FullList(Tail(ns))
Inner(n) == Parens(n.k \in {"binop", "negated", "assign", "prefix", "postfix", "align"},
                   Full(n))
Full(n) ==
  CASE n.k \in {"binop", "assign"} -> Inner(n.c[1]) \o Ts(n.op) \o Inner(n.c[2])
    [] n.k = "negated" -> Inner(n.c[1]) \o W(<<"!", n.op>>) \o Inner(n.c[2])
    [] n.k = "prefix" -> Ts(n.op) \o Inner(n.c[1])
    [] n.k = "postfix" -> Inner(n.c[1]) \o Ts(n.op)
    [] n.k = "index" -> Inner(n.c[1]) \o Ts("[") \o Full(n.c[2]) \o Ts("]")
    [] n.k = "call" -> Inner(n.c[1]) \o Parens(TRUE, FullList(Tail(n.c)))
    [] n.k = "object" -> Ts("[") \o Inner(n.c[1]) \o Inner(n.c[2]) \o Ts(":")
                         \o FullList(SubSeq(n.c, 3, Len(n.c))) \o Ts("]")
    [] n.k = "arg" -> Full(n.c[2])
    [] OTHER -> LeafPieces(n)

Arg(n) == Node("arg", "", <<None, n>>)
BinaryOps == {"+", "*", "**", ".", "<", "<=", "==", "is", "x"}
Over(es) ==
  {Binop(o, x, y) : o \in BinaryOps, x \in es, y \in {a}} \cup
  {Binop(o, x, y) : o \in BinaryOps, x \in {a}, y \in es} \cup
  UNION {{Node("prefix", "-", <<x>>), Node("prefix", "!", <<x>>), Node("prefix", "--", <<x>>),
          Node("prefix", "-isarray", <<x>>), Node("postfix", "++", <<x>>),
          Negated("is", x, a), Negated("==", a, x), Node("index", "", <<x, a>>),
          Node("index", "", <<a, x>>), Node("call", "", <<x>>),
          Node("call", "", <<f, Arg(x), Arg(a)>>), Node("assign", "=", <<a, x>>),
          Node("assign", "+=", <<x, a>>), Node("align", "$a", <<x>>),
          Node("object", "", <<a, f, Arg(x)>>)} : x \in es}
Trees == Over(Over(Leaves \ {b}))
Files == {Full(n) \o Ts(";") : n \in Trees}

RowOps == {"=", "||", "==", "<", ".", "-", "*", "**"}
Rows ==
  {W(<<"$a", o, "$b", p, "$c", q, "$d">>) : o, p, q \in RowOps} \cup
  {W(<<"$a", o, "-", "$b", p, "$c", q, "!", "$d">>) : o, p, q \in RowOps \ {"="}}

Body == <<"{", "f", "(", ")", ";", "}">>
Statements ==
  {W(x) : x \in {
    <<"$a">>, <<"f", "(", "$a", ")">>, <<"return">>, <<"return", "$a">>, <<"yield", "$a">>,
    <<"throw", "$a">>, <<"break">>, <<"break", "$a">>, <<"callcc", "&f">>,
    <<"assert", "$a", ":", "$b">>, <<"(", "$a", ",", "$b", ")", "=", "@c">>,
    <<"(", "$a", ")", "=", "@c">>, <<"$a", "++">>, <<"$a", "-isarray">>,
    <<"import", "f", ".", "g", ".", "*">>, <<"import", "f", "from", ":">>,
    <<"[", "f", ".", "g", "return", ":", "$a", "]">>, <<"%", "(", "f", "=>", "$a", ")">>,
    <<"%h">>, <<"@", "(", "$a", ",", ")">>, <<"inline", "(", "$a", ")">>,
    <<"if", "(", "$a", ")", "$b">>, <<"if", "(", "$a", ")", ";">>,
    <<"-", "f", "(", ")">>, <<"$a", "x", "(", "-", "$b", ")">>, <<"{", "}">>, <<";">>,
    <<"for", "(", "$a", ",", ";", ";", ")", "$b">>}
    \cup {<<"sub", "f">> \o Body, <<"f", "g">> \o Body, <<"inline", "f">> \o Body,
          <<"$a", "=", "lambda", "(">> \o Body \o <<")">>, <<"while", "(", "$a", ")">> \o Body,
          <<"while", "$a", "(", "$b", ")">> \o Body, <<"foreach", "$a", "(", "@b", ")">> \o Body,
          <<"foreach", "$a", "=>", "%h", "(", "@b", ")">> \o Body,
          <<"foreach", "(", "@b", ")">> \o Body,
          <<"for", "(", "$a", "=", "1", ";", "$a", "<", "2", ";", "$a", "++", ")">> \o Body,
          <<"try">> \o Body, <<"try">> \o Body \o <<"catch", "$e">> \o Body,
          <<"if", "(", "$a", ")">> \o Body,
          <<"if", "(", "$a", ")">> \o Body \o <<"else">> \o Body,
          <<"if", "(", "$a", ")">> \o Body \o <<"else", "if", "(", "$b", ")">> \o Body}}
  \cup {Ts("f") \o <<Quoted(<<Text("$s")>>)>> \o W(Body),
        <<Quoted(<<Text("s"), [k |-> "var", op |-> "$a", w |-> <<>>], Text(" t")>>)>>,
        <<Quoted(<<[k |-> "var", op |-> "$a.", w |-> <<>>]>>)>>,
        <<Quoted(<<Text("s")>>), [Quoted(<<Text("t")>>) EXCEPT !.s = "LITERAL"]>>,
        Ts("local") \o Parens(TRUE, <<Quoted(<<Text("$a")>>)>>),
        Ts("f") \o Parens(TRUE, W(<<"$a", "=>", "inline", "f">>) \o W(Body)),
        W(<<"import", "f", "from", ":">>) \o <<Quoted(<<Text("s")>>)>>}

(* Two statements, the second on a line of its own.                         *)
OnLine(ts) == [ts EXCEPT ![1].nl = TRUE]
Nested(ts, n) == [i \in 1..n |-> Token("(")] \o ts \o [i \in 1..n |-> Token(")")]
MCSources ==
  Files \cup Rows \cup Statements
  \cup {x \o OnLine(y) : x, y \in Statements}
  \cup {Nested(Ts("$a"), n) : n \in {MaxDepth - 2, MaxDepth - 1}}

(* A comparison or a sum inside another operator.                           *)
FormatSources ==
  {Full(Binop(o, Binop(p, a, a), a)) \o Ts(";") : o, p \in {"+", "*", "<=", "=="}}
=============================================================================
