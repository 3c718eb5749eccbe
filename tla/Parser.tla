------------------------------- MODULE Parser -------------------------------
(***************************************************************************)
(* The recursive descent parser of src/src/slp_parser.c, over the tokens   *)
(* of src/src/slp_lexer.c.  A token is the text the lexer cut out; what    *)
(* kind it is follows from its characters, as in slp_lexer_scan_token.     *)
(*                                                                         *)
(* A token is [s, v, nl]: its text, whether its line is below that of the  *)
(* token before, and for the two kinds of string literal ("STRING" and     *)
(* "LITERAL") the segments v between the quotes.  The lexer gives a token  *)
(* the line it ends in; strings of several lines are not here, so that is  *)
(* the line it begins in.  A segment is [k, op, w]: a text, a variable or  *)
(* an aligned variable with the tokens w of its width.                     *)
(*                                                                         *)
(* A node is [k, op, c]: its kind, the name or operator it holds and its   *)
(* children; None stands for a child that is absent.  A parse returns      *)
(* [ok, t, p]: the node and the number of tokens consumed; after an error  *)
(* (had_error) the callers discard the tree, and it is not kept here.      *)
(***************************************************************************)
EXTENDS Integers, SequencesExt

CONSTANT MaxDepth   \* SLP_PARSER_MAX_DEPTH

ASSUME ParserAssumption == MaxDepth \in Nat \ {0}

Node(k, op, c) == [k |-> k, op |-> op, c |-> c]
None == Node("none", "", <<>>)
Token(s) == [s |-> s, v |-> <<>>, nl |-> FALSE]
Raw(tok) == Node("raw", tok.s, tok.v)
Quoted(v) == [s |-> "STRING", v |-> v, nl |-> FALSE]

-----------------------------------------------------------------------------
(* Kinds of tokens.                                                        *)
Letters == {SubSeq("abcdefghijklmnopqrstuvwxyzABCDEFGHIJKLMNOPQRSTUVWXYZ_", i, i) :
              i \in 1..53}
Digits == {SubSeq("0123456789", i, i) : i \in 1..10}
First(s) == SubSeq(s, 1, 1)
Second(s) == IF Len(s) > 1 THEN SubSeq(s, 2, 2) ELSE ""
IsWord(s) == First(s) \in Letters

BinaryPredicates ==
  {"cmp", "eq", "ge", "gt", "hasmatch", "is", "isa", "isin", "ismatch", "iswm",
   "in", "le", "lt", "ne"}
Commands ==
  {"return", "throw", "yield", "assert", "callcc", "halt", "done", "break",
   "continue"}
Functions == {"copy", "addAll", "removeAll", "retainAll"}
Keywords ==
  BinaryPredicates \cup Commands \cup Functions \cup
  {"if", "else", "while", "for", "foreach", "try", "catch", "sub", "import",
   "from", "true", "false", "x", "STRING", "LITERAL", "BACKTICK", "EOF"}
IsId(s) == IsWord(s) /\ s \notin Keywords
IsUnaryPredicate(s) == First(s) = "-" /\ Second(s) \in Letters
IsString(s) == s \in {"STRING", "LITERAL"}

(* The tokens that are a whole operand, with the kind of their node.       *)
SigilKind(s) ==
  CASE s = "BACKTICK" -> "backtick"
    [] First(s) = "^" /\ Second(s) \in Letters -> "class"
    [] First(s) \in {"&", "\\"} /\ Second(s) \in Letters \cup {"&", "$", "@", "%"}
         /\ s # "&&" -> "address"
    [] OTHER -> "none"

LeafKind(s) ==
  CASE s = "$null" -> "null"
    [] s \in {"true", "false"} -> "boolean"
    [] IsId(s) \/ s \in Functions -> "identifier"
    [] First(s) \in Digits -> "number"
    [] First(s) = "$" /\ s # "$null" -> "scalar"
    [] First(s) = "@" /\ Len(s) > 1 -> "array"
    [] First(s) = "%" /\ Len(s) > 1 -> "hash"
    [] OTHER -> SigilKind(s)

AssignmentOps ==
  {"=", "+=", "-=", "*=", "/=", ".=", "<<=", ">>=", "&=", "|=", "^=", "**="}
PrefixOps == {"-", "+", "!", "++", "--"}

(***************************************************************************)
(* The rules table: the precedence of a token behind an operand, 0 if it   *)
(* ends the expression.  Any token that starts with % is SLP_TOKEN_PERCENT.*)
(***************************************************************************)
ASSIGNMENT == 1
LOR == 2
LAND == 3
BIT_OR == 4
BIT_XOR == 5
BIT_AND == 6
EQUALITY == 7
COMPARISON == 8
SHIFT == 9
CONCAT == 10
TERM == 11
FACTOR == 12
UNARY == 13
INCDEC == 14
EXP == 15
CALL == 16
PRIMARY == 17

Precedence(s) ==
  CASE s \in AssignmentOps -> ASSIGNMENT
    [] s = "||" -> LOR
    [] s = "&&" -> LAND
    [] s = "|" -> BIT_OR
    [] s = "^" -> BIT_XOR
    [] s = "&" -> BIT_AND
    [] s \in {"==", "!=", "=~", "!=~", "<=>"} \cup BinaryPredicates -> EQUALITY
    [] s \in {"<", "<=", ">", ">="} -> COMPARISON
    [] s \in {"<<", ">>"} -> SHIFT
    [] s = "." -> CONCAT
    [] s \in {"+", "-"} -> TERM
    [] s \in {"*", "/", "x"} \/ First(s) = "%" -> FACTOR
    [] s = "!" \/ IsUnaryPredicate(s) -> UNARY
    [] s \in {"++", "--"} -> INCDEC
    [] s = "**" -> EXP
    [] s \in {"(", "["} -> CALL
    [] OTHER -> 0

-----------------------------------------------------------------------------
Only(S) == CHOOSE x \in S : TRUE

(* Results, and the token in hand (parser->current) after p tokens.        *)
Ok(t, p) == [ok |-> TRUE, t |-> t, p |-> p]
Fail == [ok |-> FALSE, t |-> None, p |-> 0]
(* F of a result, if it is one.  The bound variable has TLC evaluate r once. *)
Then(r, F(_)) == Only({IF x.ok THEN F(x) ELSE Fail : x \in {r}})

At(ts, p) == IF p < Len(ts) THEN ts[p+1].s ELSE "EOF"
\* parser->current.line > parser->previous.line.
OnNewLine(ts, p) == p < Len(ts) /\ ts[p+1].nl
Expect(ts, r, s) ==
  Then(r, LAMBDA x : IF At(ts, x.p) = s THEN Ok(x.t, x.p + 1) ELSE Fail)
Optional(ts, r, s) ==
  Then(r, LAMBDA x : IF At(ts, x.p) = s THEN Ok(x.t, x.p + 1) ELSE x)
Wrapped(r, F(_)) == Then(r, LAMBDA x : Ok(F(x.t), x.p))

Text(s) == [k |-> "text", op |-> s, w |-> <<>>]
Binop(op, l, r) == Node("binop", op, <<l, r>>)
Negated(op, l, r) == Node("negated", op, <<l, r>>)
Chain(ns) == FoldLeft(LAMBDA l, r : Binop(".", l, r), Head(ns), Tail(ns))

(* What a string literal is when the next one follows it: its lexeme, with *)
(* the quotes.                                                             *)
Lexeme(tok) ==
  LET q == IF tok.s = "STRING" THEN "\"" ELSE "'"
  IN  Text(q \o FoldLeft(LAMBDA l, g : l \o g.op, "", tok.v) \o q)

RECURSIVE Juxtaposed(_, _)
Juxtaposed(ts, r) ==
  IF r.t.k = "string" /\ IsString(At(ts, r.p))
  THEN Juxtaposed(ts, Ok(Node("string", "", Append(r.t.c, Lexeme(ts[r.p + 1]))),
                         r.p + 1))
  ELSE r

RECURSIVE Expression(_, _, _, _), Prefix(_, _, _), Infix(_, _, _, _),
          Args(_, _, _, _, _), Elements(_, _, _, _, _), Block(_, _, _), Items(_, _, _, _),
          StringParts(_, _), Statement(_, _, _), Declaration(_, _, _)

(***************************************************************************)
(* parse_double_quoted_string: texts, variables and aligned variables are  *)
(* joined with the operator . ; the width of an aligned one is parsed by a *)
(* parser of its own and must be the whole text between the brackets.      *)
(***************************************************************************)
Width(w) ==
  Then(Expression(w, 0, ASSIGNMENT, 0), LAMBDA r : IF r.p = Len(w) THEN r ELSE Fail)

StringParts(v, ns) ==
  IF v = <<>> THEN Ok(ns, 0)
  ELSE LET g == Head(v)
           n == IF ns = <<>> THEN None ELSE Last(ns) IN
       CASE g.k = "text" /\ n.k = "string" ->
              StringParts(Tail(v), Append(Front(ns), Node("string", "", Append(n.c, g))))
         [] g.k = "text" /\ n.k # "string" ->
              StringParts(Tail(v), Append(ns, Node("string", "", <<g>>)))
         [] g.k = "var" -> StringParts(Tail(v), Append(ns, Node("scalar", g.op, <<>>)))
         [] g.k = "align" ->
              Then(Width(g.w), LAMBDA r :
                StringParts(Tail(v), Append(ns, Node("align", g.op, <<r.t>>))))

StringValue(ts, q) ==
  IF ts[q].s = "LITERAL" \/ ts[q].v = <<>>
  THEN Ok(Node("string", "", ts[q].v), q)
  ELSE Then(StringParts(ts[q].v, <<>>), LAMBDA r : Ok(Chain(r.t), q))

(***************************************************************************)
(* parse_args, up to the closing token; a comma may come before it.        *)
(***************************************************************************)
Args(ts, p, close, d, as) ==
  IF At(ts, p) = close THEN Ok(as, p)
  ELSE Then(Expression(ts, p, ASSIGNMENT, d), LAMBDA e :
       Then(IF At(ts, e.p) = "=>"
            THEN Wrapped(Expression(ts, e.p + 1, ASSIGNMENT, d),
                         LAMBDA v : Node("arg", "", <<e.t, v>>))
            ELSE Ok(Node("arg", "", <<None, e.t>>), e.p), LAMBDA a :
         CASE At(ts, a.p) = close -> Ok(Append(as, a.t), a.p)
           [] At(ts, a.p) = "," -> Args(ts, a.p + 1, close, d, Append(as, a.t))
           [] OTHER -> Fail))

(* Expressions with commas between them, at least one; in a for statement  *)
(* a comma may come before the closing token.                              *)
Elements(ts, p, close, d, es) ==
  Then(Expression(ts, p, ASSIGNMENT, d), LAMBDA e :
    IF At(ts, e.p) # "," THEN Ok(Append(es, e.t), e.p)
    ELSE IF At(ts, e.p + 1) = close THEN Ok(Append(es, e.t), e.p + 1)
    ELSE Elements(ts, e.p + 1, close, d, Append(es, e.t)))

(* call, with the target that is in front of the parenthesis.              *)
Call(ts, target, p, d) ==
  Wrapped(Expect(ts, Args(ts, p, ")", d, <<>>), ")"),
          LAMBDA as : Node("call", "", <<target>> \o as))

(* grouping: (a, b) is a tuple, and so is (a) if it is assigned to.        *)
Grouping(ts, q, d) ==
  Then(Elements(ts, q, "", d, <<>>), LAMBDA es :
  Then(Expect(ts, es, ")"), LAMBDA r :
    IF \/ Len(es.t) > 1
       \/ /\ At(ts, r.p) \in AssignmentOps
          /\ es.t[1].k \in {"scalar", "array", "hash", "identifier"}
    THEN Ok(Node("tuple", "", es.t), r.p)
    ELSE Ok(es.t[1], r.p)))

(***************************************************************************)
(* obj_expr, behind [: a target, which is a class if it is a name and a    *)
(* dot follows; a message, for which the command words are names; and      *)
(* arguments behind a colon, at least one.                                 *)
(***************************************************************************)
RECURSIVE Qualified(_, _, _)
Qualified(ts, p, name) ==
  IF ~IsId(At(ts, p)) THEN Fail
  ELSE LET full == name \o At(ts, p) IN
       IF At(ts, p + 1) = "." THEN Qualified(ts, p + 2, full \o ".")
       ELSE Ok(Node("class", full, <<>>), p + 1)

Message(ts, p, d) ==
  CASE At(ts, p) \in {":", "]"} -> Ok(None, p)
    [] At(ts, p) \in Commands -> Ok(Node("identifier", At(ts, p), <<>>), p + 1)
    [] OTHER -> Expression(ts, p, ASSIGNMENT, d)

ObjectExpression(ts, q, d) ==
  Then(IF IsId(At(ts, q)) /\ At(ts, q + 1) = "." THEN Qualified(ts, q, "^")
       ELSE Expression(ts, q, ASSIGNMENT, d), LAMBDA target :
  Then(Message(ts, target.p, d), LAMBDA m :
  Then(IF At(ts, m.p) # ":" THEN Ok(<<>>, m.p)
       ELSE Then(Args(ts, m.p + 1, "]", d, <<>>),
                 LAMBDA as : IF as.t = <<>> THEN Fail ELSE as), LAMBDA as :
    Expect(ts, Ok(Node("object", "", <<target.t, m.t>> \o as.t), as.p), "]"))))

(***************************************************************************)
(* command: return, throw, yield and the others.  The value is left out in *)
(* front of a terminator, and for return and yield at the end of the line. *)
(***************************************************************************)
NoValue(ts, p) == At(ts, p) \in {";", "EOF", ")", "}"}

CommandAnywhere(ts, q, d) ==
  IF NoValue(ts, q) THEN Ok(Node("command", ts[q].s, <<None, None>>), q)
  ELSE Wrapped(Expression(ts, q, ASSIGNMENT, d),
               LAMBDA v : Node("command", ts[q].s, <<v, None>>))

Command(ts, q, d) ==
  LET s == ts[q].s IN
  IF NoValue(ts, q) \/ (s \in {"return", "yield"} /\ OnNewLine(ts, q))
  THEN Ok(Node("command", s, <<None, None>>), q)
  ELSE Then(Expression(ts, q, ASSIGNMENT, d), LAMBDA v :
         IF s = "assert" /\ At(ts, v.p) = ":" /\ At(ts, v.p + 1) \notin {";", "EOF"}
         THEN Wrapped(Expression(ts, v.p + 1, ASSIGNMENT, d),
                      LAMBDA m : Node("command", s, <<v.t, m>>))
         ELSE Ok(Node("command", s, <<v.t, None>>),
                 IF s = "assert" /\ At(ts, v.p) = ":" THEN v.p + 1 ELSE v.p))

(***************************************************************************)
(* bridge: a keyword, then each if it is there a name, a string (kept as   *)
(* written) and a block.                                                   *)
(***************************************************************************)
Bridge(ts, q, d) ==
  LET name == IF IsId(At(ts, q)) THEN Node("identifier", At(ts, q), <<>>) ELSE None
      p1 == IF name = None THEN q ELSE q + 1
      str == IF IsString(At(ts, p1)) THEN Raw(ts[p1 + 1]) ELSE None
      p2 == IF str = None THEN p1 ELSE p1 + 1
  IN  Wrapped(IF At(ts, p2) = "{" THEN Block(ts, p2, d) ELSE Ok(None, p2),
              LAMBDA b : Node("bridge", ts[q].s, <<name, str, b>>))

(* The literals @(...) and %(...).                                         *)
Literal(ts, q, d) ==
  IF At(ts, q) # "(" THEN Fail
  ELSE Call(ts, Node("literal", ts[q].s, <<>>), q + 1, d)

Unary(ts, q, d) ==
  Wrapped(Expression(ts, q, UNARY, d), LAMBDA e : Node("prefix", ts[q].s, <<e>>))

(* A block in an expression is a function without a name.                  *)
BlockExpression(ts, q, d) ==
  Wrapped(Expect(ts, Items(ts, q, d, <<>>), "}"), LAMBDA b :
          Node("bridge", "", <<None, None, Node("block", "", b)>>))

(* The prefix rule of token q, which is consumed.                          *)
Prefix(ts, q, d) ==
  IF q > Len(ts) THEN Fail
  ELSE LET s == ts[q].s IN
  CASE IsString(s) -> StringValue(ts, q)
    [] LeafKind(s) # "none" -> Ok(Node(LeafKind(s), s, <<>>), q)
    [] s \in PrefixOps \/ IsUnaryPredicate(s) -> Unary(ts, q, d)
    [] s = "(" -> Grouping(ts, q, d)
    [] s \in {"@", "%"} -> Literal(ts, q, d)
    [] s = "[" -> ObjectExpression(ts, q, d)
    [] s = "{" -> BlockExpression(ts, q, d)
    [] s \in Commands -> Command(ts, q, d)
    [] s = "sub" -> Bridge(ts, q, d)
    [] OTHER -> Fail

(***************************************************************************)
(* The infix rules, for the operand l and the tokens from p on.  The ! of  *)
(* a negated operator takes whatever token follows for the operator.  A    *)
(* unary predicate has a precedence and no rule: it is consumed and        *)
(* nothing is made of it.                                                  *)
(***************************************************************************)
BinaryFromTheRight(ts, s, l, p, d) ==
  Wrapped(Expression(ts, p, Precedence(s), d), LAMBDA e : Binop(s, l, e))
Binary(ts, s, l, p, d) ==
  Wrapped(Expression(ts, p, Precedence(s) + 1, d), LAMBDA e : Binop(s, l, e))
Assignment(ts, s, l, p, d) ==
  Wrapped(Expression(ts, p, ASSIGNMENT, d), LAMBDA e : Node("assign", s, <<l, e>>))
NegatedBinary(ts, l, p, d) ==
  IF p >= Len(ts) THEN Fail
  ELSE Wrapped(Expression(ts, p + 1, EQUALITY, d), LAMBDA e : Negated(ts[p + 1].s, l, e))
Postfix(s, l, p) == Ok(Node("postfix", s, <<l>>), p)
Index(ts, l, p, d) ==
  Wrapped(Expect(ts, Expression(ts, p, ASSIGNMENT, d), "]"),
          LAMBDA e : Node("index", "", <<l, e>>))

(* One turn of the loop of parse_precedence_inner.                         *)
InfixRule(ts, r, d) ==
  LET s == At(ts, r.p)
      q == r.p + 1 IN
  CASE s = "(" -> Call(ts, r.t, q, d)
    [] s = "[" -> Index(ts, r.t, q, d)
    [] s = "!" -> NegatedBinary(ts, r.t, q, d)
    [] s \in {"++", "--"} -> Postfix(s, r.t, q)
    [] s \in AssignmentOps -> Assignment(ts, s, r.t, q, d)
    [] IsUnaryPredicate(s) -> Ok(r.t, q)
    [] OTHER -> Binary(ts, s, r.t, q, d)

Infix(ts, r, prec, d) ==
  Then(r, LAMBDA x : IF prec > Precedence(At(ts, x.p)) THEN x
                     ELSE Infix(ts, InfixRule(ts, x, d), prec, d))

(* parse_precedence: operators of at least this precedence, d levels deep. *)
Expression(ts, p, prec, d) ==
  IF d >= MaxDepth THEN Fail
  ELSE Then(Prefix(ts, p + 1, d + 1), LAMBDA x :
         Infix(ts, Juxtaposed(ts, x), prec, d + 1))

-----------------------------------------------------------------------------
(* Statements.  A block runs to its brace, each item a declaration.        *)
Items(ts, p, d, ns) ==
  IF At(ts, p) \in {"}", "EOF"} THEN Ok(ns, p)
  ELSE Then(Declaration(ts, p, d), LAMBDA r : Items(ts, r.p, d, Append(ns, r.t)))

Block(ts, p, d) ==
  IF At(ts, p) # "{" THEN Fail
  ELSE Wrapped(Expect(ts, Items(ts, p + 1, d, <<>>), "}"),
               LAMBDA ns : Node("block", "", ns))

(* An expression ends at a semicolon, a brace or the end of its line.      *)
ExpressionStatement(ts, p, d) ==
  Then(Expression(ts, p, ASSIGNMENT, d), LAMBDA r :
    CASE At(ts, r.p) = ";" -> Ok(r.t, r.p + 1)
      [] At(ts, r.p) # ";" /\ (At(ts, r.p) \in {"}", "EOF"} \/ OnNewLine(ts, r.p)) -> r
      [] OTHER -> Fail)

InParens(ts, p, d) ==
  IF At(ts, p) # "(" THEN Fail
  ELSE Expect(ts, Expression(ts, p + 1, ASSIGNMENT, d), ")")

IfStatement(ts, p, d) ==
  Then(InParens(ts, p, d), LAMBDA cond :
  Then(Statement(ts, cond.p, d), LAMBDA yes :
    IF At(ts, yes.p) = "else"
    THEN Wrapped(Statement(ts, yes.p + 1, d),
                 LAMBDA no : Node("if", "", <<cond.t, yes.t, no>>))
    ELSE Ok(Node("if", "", <<cond.t, yes.t, None>>), yes.p)))

(* while (c) and while $x (g); the second assigns $x from a generator.     *)
WhileStatement(ts, p, d) ==
  LET named == LeafKind(At(ts, p)) = "scalar" IN
  Then(InParens(ts, IF named THEN p + 1 ELSE p, d), LAMBDA cond :
    Wrapped(Block(ts, cond.p, d), LAMBDA b :
      Node(IF named THEN "assignloop" ELSE "while",
           IF named THEN At(ts, p) ELSE "", <<cond.t, b>>)))

(* for: lists of expressions, a condition that may be missing, and a body  *)
(* that is any statement.                                                  *)
List(ts, p, close, d) ==
  IF At(ts, p) = close THEN Ok(Node("list", "", <<>>), p)
  ELSE Wrapped(Elements(ts, p, close, d, <<>>), LAMBDA es : Node("list", "", es))

ForStatement(ts, p, d) ==
  IF At(ts, p) # "(" THEN Fail ELSE
  Then(Expect(ts, List(ts, p + 1, ";", d), ";"), LAMBDA init :
  Then(Expect(ts, IF At(ts, init.p) = ";" THEN Ok(None, init.p)
                  ELSE Expression(ts, init.p, ASSIGNMENT, d), ";"), LAMBDA cond :
  Then(Expect(ts, List(ts, cond.p, ")", d), ")"), LAMBDA inc :
    Wrapped(Statement(ts, inc.p, d),
            LAMBDA b : Node("for", "", <<init.t, cond.t, inc.t, b>>)))))

(* foreach: the variables lose their sigil, whatever it is.                *)
IsVariable(s) == LeafKind(s) = "scalar" \/ First(s) \in {"%", "@"}
Loop(s) == Node("scalar", "$" \o Tail(s), <<>>)

ForeachStatement(ts, p, d) ==
  LET one == IsVariable(At(ts, p))
      two == one /\ At(ts, p + 1) = "=>" IN
  IF two /\ ~IsVariable(At(ts, p + 2)) THEN Fail ELSE
  Then(InParens(ts, CASE two -> p + 3 [] one /\ ~two -> p + 1 [] OTHER -> p, d),
       LAMBDA g : Wrapped(Block(ts, g.p, d), LAMBDA b :
         Node("foreach", "", <<IF two THEN Loop(At(ts, p)) ELSE None,
                               CASE two -> Loop(At(ts, p + 2))
                                 [] one /\ ~two -> Loop(At(ts, p))
                                 [] OTHER -> Node("scalar", "$stub_var", <<>>),
                               g.t, b>>)))

(* try: whatever token follows catch is taken for the variable.            *)
TryStatement(ts, p, d) ==
  Then(Block(ts, p, d), LAMBDA body :
    IF At(ts, body.p) = "catch"
    THEN Wrapped(Block(ts, body.p + 2, d), LAMBDA h :
           Node("try", "", <<body.t, Loop(At(ts, body.p + 1)), h>>))
    ELSE Ok(Node("try", "", <<body.t, None, None>>), body.p))

Statement(ts, p, d) ==
  IF d >= MaxDepth THEN Fail
  ELSE LET s == At(ts, p) IN
       CASE s = ";" -> Ok(Node("nop", "", <<>>), p + 1)
         [] s = "if" -> IfStatement(ts, p + 1, d + 1)
         [] s = "while" -> WhileStatement(ts, p + 1, d + 1)
         [] s = "for" -> ForStatement(ts, p + 1, d + 1)
         [] s = "foreach" -> ForeachStatement(ts, p + 1, d + 1)
         [] s = "try" -> TryStatement(ts, p + 1, d + 1)
         [] s = "{" -> Block(ts, p, d + 1)
         [] OTHER -> ExpressionStatement(ts, p, d + 1)

(* import a.b.c from : path, and the optional semicolon.  A part that is   *)
(* missing behind a dot is left out.                                       *)
Part(tok) == IF tok.s = "STRING" THEN Raw(tok) ELSE Node("name", tok.s, <<>>)

RECURSIVE Dotted(_, _, _)
Dotted(ts, p, names) ==
  IF At(ts, p) # "." THEN Ok(names, p)
  ELSE IF IsId(At(ts, p + 1)) \/ At(ts, p + 1) \in {"STRING", "*"}
       THEN Dotted(ts, p + 2, Append(names, Part(ts[p + 2])))
       ELSE Dotted(ts, p + 1, Append(names, None))

Import(ts, names, p) ==
  LET import(from) == Node("import", "", <<from>> \o names) IN
  IF At(ts, p) # "from" THEN Ok(import(None), p)
  ELSE Then(Expect(ts, Ok(None, p + 1), ":"), LAMBDA f :
         IF IsString(At(ts, f.p))
         THEN Ok(import(Raw(ts[f.p + 1])), f.p + 1)
         ELSE Ok(import(None), f.p))

ImportStatement(ts, p) ==
  Then(IF IsId(At(ts, p)) \/ At(ts, p) = "STRING"
       THEN Dotted(ts, p + 1, <<Part(ts[p + 1])>>) ELSE Ok(<<>>, p), LAMBDA r : Optional(ts, Import(ts, r.t, r.p), ";"))

Declaration(ts, p, d) ==
  LET s == At(ts, p)
      n == At(ts, p + 1) IN
  CASE s = "sub" -> Bridge(ts, p + 1, d)
    [] s = "import" -> ImportStatement(ts, p + 1)
    [] IsId(s) /\ (IsId(n) \/ IsString(n) \/ n = "{") -> Bridge(ts, p + 1, d)
    [] OTHER -> Statement(ts, p, d)

(* slp_parser_parse; a } where a statement should start is an error.       *)
RECURSIVE Script(_, _, _)
Script(ts, p, ns) ==
  IF p = Len(ts) THEN Ok(Node("script", "", ns), p)
  ELSE Then(Declaration(ts, p, 0), LAMBDA r : Script(ts, r.p, Append(ns, r.t)))

Parse(ts) == IF ts = <<>> THEN Fail ELSE Script(ts, 0, <<>>)
=============================================================================
