------------------------------- MODULE Writer -------------------------------
(***************************************************************************)
(* format_node of src/src/slp_ast.c, which writes a tree out as text, and  *)
(* what the lexer reads in that text.                                      *)
(*                                                                         *)
(* The text is a sequence of pieces: a token, " " or a line break.  The    *)
(* lexer may read other tokens than those written, where two pieces touch  *)
(* or a word depends on what follows it.                                   *)
(***************************************************************************)
EXTENDS Parser

-----------------------------------------------------------------------------
(* get_node_precedence.  The levels are those of the parser, the table is  *)
(* not: an operator it does not name is never put in parentheses.          *)
OpLevel(op) ==
  CASE op = "**" -> EXP
    [] op \in {"<<", ">>"} -> SHIFT
    [] op = "." -> CONCAT
    [] op \in {"+", "-"} -> TERM
    [] op \in {"*", "/", "%", "x"} -> FACTOR
    [] op = "&" -> BIT_AND
    [] op = "|" -> BIT_OR
    [] op = "^" -> BIT_XOR
    [] op = "&&" -> LAND
    [] op = "||" -> LOR
    [] op \in {"isin", "is", "eq", "ne", "=~", "!=~", "<=>", "==", "!=",
               "ismatch", "hasmatch", "iswm"} -> EQUALITY
    [] op \in {"in", "gt", "ge", "lt", "le", "isa", "<", ">"} -> COMPARISON
    [] OTHER -> PRIMARY

Level(n) ==
  CASE n.k = "assign" -> ASSIGNMENT
    [] n.k \in {"prefix", "postfix"} -> UNARY
    [] n.k \in {"binop", "negated"} -> OpLevel(n.op)
    [] OTHER -> PRIMARY

-----------------------------------------------------------------------------
(* Pieces.                                                                 *)
Space == Token(" ")
Break == Token("\n")
Ts(s) == <<Token(s)>>
Parens(needed, ps) == IF needed THEN Ts("(") \o ps \o Ts(")") ELSE ps
Spaced(ps) == <<Space>> \o ps

(***************************************************************************)
(* The lexer on two pieces a and b that touch: the tokens it cuts, <<>> if *)
(* they stay apart.  It takes the longest token, a word goes on through    *)
(* ++ and --, and - before a word is a unary predicate.                    *)
(***************************************************************************)
IsName(s) == IsWord(s) /\ s \notin {"STRING", "LITERAL", "BACKTICK"}
Glue(a, b) ==
  CASE a \in {"-", "+"} /\ b = a -> <<a \o a>>
    [] a \in {"-", "+"} /\ b = a \o a -> <<b, a>>
    [] a = "-" /\ IsUnaryPredicate(b) -> <<"--", Tail(b)>>
    [] a = "-" /\ IsName(b) -> <<a \o b>>
    [] a = "!" /\ b \in {"=", "=~"} -> <<a \o b>>
    [] a = "!" /\ b = "==" -> <<"!=", "=">>
    [] IsName(a) /\ b \in {"++", "--"} -> <<a \o b>>
    [] OTHER -> <<>>

(* x is an operator if what comes next can begin an operand, else a name.  *)
BeginsOperand(s) ==
  First(s) \in Letters \cup Digits \cup {"$", "@", "%", "(", "[", "{"}
Word(ts, i) ==
  IF ts[i].s \notin {"x", "x'"} THEN ts[i]
  ELSE [ts[i] EXCEPT !.s = IF i < Len(ts) /\ BeginsOperand(ts[i+1].s)
                           THEN "x" ELSE "x'"]

Lexed(acc, b) ==
  LET last == IF acc.out = <<>> THEN "" ELSE Last(acc.out).s
      cut == IF acc.touch /\ last # "" THEN Glue(last, b.s) ELSE <<>> IN
  CASE b = Space -> [acc EXCEPT !.touch = FALSE]
    [] b = Break -> [acc EXCEPT !.touch = FALSE, !.nl = TRUE]
    [] b \notin {Space, Break} /\ cut = <<>> ->
         [out |-> Append(acc.out, [b EXCEPT !.nl = acc.nl]), touch |-> TRUE, nl |-> FALSE]
    [] b \notin {Space, Break} /\ cut # <<>> ->
         [acc EXCEPT !.out = Front(@) \o <<[Last(@) EXCEPT !.s = cut[1]]>>
                             \o [i \in 1..Len(cut) - 1 |-> Token(cut[i+1])]]

Lex(ps) ==
  LET read(acc, b) == Only({Lexed(x, b) : x \in {acc}})
      ts == FoldLeft(read, [out |-> <<>>, touch |-> FALSE, nl |-> TRUE], ps).out
  IN  Only({[i \in DOMAIN x |-> Word(x, i)] : x \in {ts}})

RECURSIVE Pieces(_), Commas(_), Lines(_, _)
Names(ns) ==
  FoldLeft(LAMBDA ps, m : (IF ps = <<>> THEN <<>> ELSE ps \o Ts(".")) \o Pieces(m), <<>>, ns)
Commas(ns) ==
  CASE ns = <<>> -> <<>>
    [] Len(ns) = 1 -> Pieces(ns[1])
    [] OTHER -> Pieces(Head(ns)) \o <<Token(","), Space>> \o Commas(Tail(ns))

(* Names and literals.  A variable whose name has other characters than    *)
(* letters, digits and _ is written as a string.  A quote inside the width *)
(* of an aligned variable ends the string it is written in; what is left   *)
(* is no token.                                                            *)
IsSimple(s) == \A i \in 2..Len(s) : SubSeq(s, i, i) \in Letters \cup Digits

LeafPieces(n) ==
  CASE n.k = "string" -> <<Quoted(n.c)>>
    [] n.k = "align" ->
         LET w == Lex(Pieces(n.c[1])) IN
         IF \E i \in DOMAIN w : w[i].s = "STRING" THEN Ts("?")
         ELSE <<Quoted(<<[k |-> "align", op |-> n.op, w |-> w]>>)>>
    [] n.k = "scalar" /\ n.op # "$+" /\ ~IsSimple(n.op) ->
         <<Quoted(<<[k |-> "var", op |-> n.op, w |-> <<>>]>>)>>
    [] OTHER -> Ts(n.op)

(* format_node, SLP_AST_BINOP: parentheses on the left for a lower level,  *)
(* on the right for the same one too.                                      *)
BinaryLoose(n) ==
  LET own == Level(n) IN
  Parens(Level(n.c[1]) < own, Pieces(n.c[1])) \o Ts(n.op)
  \o Parens(Level(n.c[2]) < own, Pieces(n.c[2]))
BinaryPieces(n) ==
  LET own == Level(n) IN
     Parens(Level(n.c[1]) < own, Pieces(n.c[1]))
  \o <<Space>> \o (IF n.k = "negated" THEN Ts("!") ELSE <<>>) \o Ts(n.op) \o <<Space>>
  \o Parens(Level(n.c[2]) <= own, Pieces(n.c[2]))

(* SLP_AST_UNARYOP: ++ and -- are written behind the operand, wherever they *)
(* were.                                                                   *)
UnaryPieces(n) ==
  LET arg == Parens(Level(n.c[1]) < UNARY, Pieces(n.c[1])) IN
  CASE n.op \in {"++", "--"} -> arg \o Ts(n.op)
    [] IsUnaryPredicate(n.op) -> Ts(n.op) \o Spaced(arg)
    [] OTHER -> Ts(n.op) \o arg

ObjectPieces(n) ==
  LET as == SubSeq(n.c, 3, Len(n.c)) IN
     Ts("[") \o Pieces(n.c[1])
  \o (IF n.c[2] = None THEN <<>> ELSE Spaced(Pieces(n.c[2])))
  \o (IF as = <<>> THEN <<>> ELSE <<Token(":"), Space>> \o Commas(as))
  \o Ts("]")

(* Statements end with a semicolon unless they are compound.               *)
Compound == {"bridge", "if", "while", "for", "foreach", "assignloop", "try"}
EndedAlways(n) == Pieces(n) \o Ts(";")
Ended(n) == Pieces(n) \o (IF n.k \in Compound THEN <<>> ELSE Ts(";"))
Lines(ns, indent) ==
  IF ns = <<>> THEN <<>>
  ELSE indent \o Ended(Head(ns)) \o <<Break>> \o Lines(Tail(ns), indent)

(* return, yield and callcc leave a missing value out, break, continue,    *)
(* done and halt any value; the others always write a space for one.       *)
CommandPieces(n) ==
  LET value == Spaced(Pieces(n.c[1])) IN
  Ts(n.op) \o
  CASE n.op \in {"break", "continue", "done", "halt"} -> <<>>
    [] n.op \in {"return", "yield", "callcc"} -> IF n.c[1] = None THEN <<>> ELSE value
    [] n.op = "throw" -> value
    [] n.op = "assert" ->
         value \o (IF n.c[2] = None THEN <<>>
                   ELSE <<Space, Token(":"), Space>> \o Pieces(n.c[2]))

StatementPieces(n) ==
  CASE n.k = "if" ->
         Ts("if") \o Spaced(Parens(TRUE, Pieces(n.c[1]))) \o Spaced(Pieces(n.c[2]))
         \o (IF n.c[3] = None THEN <<>> ELSE Spaced(Ts("else")) \o Spaced(Pieces(n.c[3])))
    [] n.k = "while" ->
         Ts("while") \o Spaced(Parens(TRUE, Pieces(n.c[1]))) \o Spaced(Pieces(n.c[2]))
    [] n.k = "assignloop" ->
         Ts("while") \o Spaced(Ts(n.op)) \o Spaced(Parens(TRUE, Pieces(n.c[1])))
         \o Spaced(Pieces(n.c[2]))
    [] n.k = "for" ->
         Ts("for") \o Spaced(Parens(TRUE,
           Commas(n.c[1].c) \o <<Token(";"), Space>> \o Pieces(n.c[2])
           \o <<Token(";"), Space>> \o Commas(n.c[3].c))) \o Spaced(Pieces(n.c[4]))
    [] n.k = "foreach" ->
         Ts("foreach")
         \o (IF n.c[1] = None THEN <<>> ELSE Spaced(Ts(n.c[1].op)) \o Spaced(Ts("=>")))
         \o Spaced(Ts(n.c[2].op)) \o Spaced(Parens(TRUE, Pieces(n.c[3])))
         \o Spaced(Pieces(n.c[4]))
    [] n.k = "try" ->
         Ts("try") \o Spaced(Pieces(n.c[1])) \o Spaced(Ts("catch"))
         \o Spaced(Ts(IF n.c[2] = None THEN "$" ELSE n.c[2].op)) \o Spaced(Pieces(n.c[3]))
    [] n.k = "bridge" ->
         (IF n.op = "" THEN <<>> ELSE Ts(n.op))
         \o FoldLeft(LAMBDA ps, m : IF m = None THEN ps ELSE ps \o Spaced(Pieces(m)),
                     <<>>, n.c)
    [] n.k = "import" ->
         Ts("import") \o Spaced(Names(Tail(n.c)))
         \o (IF n.c[1] = None THEN <<>>
             ELSE <<Space, Token("from"), Space, Token(":"), Space>> \o Pieces(n.c[1]))

(* format_node.                                                            *)
Pieces(n) ==
  CASE n.k = "none" \/ n.k = "nop" -> <<>>
    [] n.k = "script" -> Lines(n.c, <<>>)
    [] n.k = "block" -> <<Token("{"), Break>> \o Lines(n.c, <<Space>>) \o Ts("}")
    [] n.k \in {"binop", "negated"} -> BinaryPieces(n)
    [] n.k \in {"prefix", "postfix"} -> UnaryPieces(n)
    [] n.k = "assign" -> Pieces(n.c[1]) \o Spaced(Ts(n.op)) \o Spaced(Pieces(n.c[2]))
    [] n.k = "tuple" -> Parens(TRUE, Commas(n.c))
    [] n.k = "call" -> Pieces(n.c[1]) \o Parens(TRUE, Commas(Tail(n.c)))
    [] n.k = "index" -> Pieces(n.c[1]) \o Ts("[") \o Pieces(n.c[2]) \o Ts("]")
    [] n.k = "object" -> ObjectPieces(n)
    [] n.k = "arg" -> (IF n.c[1] = None THEN <<>>
                       ELSE Pieces(n.c[1]) \o Spaced(Ts("=>")) \o <<Space>>)
                      \o Pieces(n.c[2])
    [] n.k = "raw" -> <<[s |-> n.op, v |-> n.c, nl |-> FALSE]>>
    [] n.k = "command" -> CommandPieces(n)
    [] n.k \in Compound \cup {"import"} -> StatementPieces(n)
    [] OTHER -> LeafPieces(n)
=============================================================================
