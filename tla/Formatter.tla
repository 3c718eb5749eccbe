------------------------------ MODULE Formatter ------------------------------
(***************************************************************************)
(* slp_fmt: the tool of src/tools/slp_fmt.c, which parses a file, formats  *)
(* it and writes it back, run again and again on its own output.           *)
(***************************************************************************)
EXTENDS Writer

CONSTANTS
  Sources,    \* the files: sequences of tokens
  MaxRounds   \* runs of the tool on a file

ASSUME FormatterAssumption == MaxRounds \in Nat

VARIABLES
  file,    \* the file as it was at first
  text,    \* what is in it now
  tree,    \* the tree parsed last
  was,     \* the tree the text was written from, None at first
  phase,   \* "read", "parsed", "settled" (written unchanged) or "error"
  round    \* runs that have written the file

vars == <<file, text, tree, was, phase, round>>

Init ==
  /\ file \in Sources /\ text = file
  /\ tree = None /\ was = None
  /\ phase = "read" /\ round = 0

(* main: on an error the tool leaves the file as it is.                    *)
Read ==
  /\ phase = "read"
  /\ LET r == Parse(text) IN
     /\ tree' = r.t
     /\ phase' = IF r.ok THEN "parsed" ELSE "error"
  /\ UNCHANGED <<file, text, was, round>>

Write ==
  /\ phase = "parsed" /\ round < MaxRounds
  /\ text' = Lex(Pieces(tree))
  /\ was' = tree /\ round' = round + 1
  /\ phase' = IF text' = text THEN "settled" ELSE "read"
  /\ UNCHANGED <<file, tree>>

Next == Read \/ Write
Spec == Init /\ [][Next]_vars /\ WF_vars(Next)

-----------------------------------------------------------------------------
(***************************************************************************)
(* What the precedences mean, said without them climbing: of a flat row of *)
(* operands and operators, the operator that binds weakest is applied      *)
(* last; among equals the last one, but the first of assignments.  A sign  *)
(* reaches over ** and stops at anything weaker.                           *)
(***************************************************************************)
IsOperand(tok) == LeafKind(tok.s) # "none"
Between(ts) ==
  {i \in DOMAIN ts : i > 1 /\ IsOperand(ts[i-1]) /\ Precedence(ts[i].s) > 0}
IsFlat(ts) ==
  /\ ts # <<>> /\ IsOperand(Last(ts)) /\ Len(ts) \notin Between(ts)
  /\ \A i \in DOMAIN ts :
        \/ IsOperand(ts[i]) /\ First(ts[i].s) # "%" /\ (i = 1 \/ ~IsOperand(ts[i-1]))
        \/ i \in Between(ts) /\ ts[i].s \notin {"!", "(", "[", "++", "--"}
                             /\ ~IsUnaryPredicate(ts[i].s)
        \/ i \notin Between(ts) /\ ts[i].s \in {"-", "+", "!"}

RECURSIVE Grouped(_)
Applied(ts, i) ==
  LET l == Grouped(SubSeq(ts, 1, i - 1))
      r == Grouped(SubSeq(ts, i + 1, Len(ts))) IN
  IF ts[i].s \in AssignmentOps THEN Node("assign", ts[i].s, <<l, r>>)
  ELSE Binop(ts[i].s, l, r)
Grouped(ts) ==
  LET all == Between(ts)
      weak == {i \in all : Precedence(ts[i].s) < UNARY}
      least == {i \in weak : \A j \in weak : Precedence(ts[i].s) <= Precedence(ts[j].s)}
      signs == {i \in DOMAIN ts : i > 1 /\ i \notin all /\ ~IsOperand(ts[i])}
      head == {i \in all : \A j \in signs : i < j} IN
  CASE weak # {} ->
         Applied(ts, IF \E i \in least : ts[i].s \in AssignmentOps
                     THEN Min(least) ELSE Max(least))
    [] weak = {} /\ ~IsOperand(ts[1]) -> Node("prefix", ts[1].s, <<Grouped(Tail(ts))>>)
    [] weak = {} /\ IsOperand(ts[1]) /\ all # {} -> Applied(ts, Max(head))
    [] OTHER -> Node(LeafKind(ts[1].s), ts[1].s, <<>>)

(* The parser groups a row of operators as their precedences say: what     *)
(* parse_precedence_inner, binary, unary and assignment build by climbing. *)
ParsesByPrecedence ==
  (round = 0 /\ phase # "read" /\ IsFlat(file)) =>
    tree = Node("script", "", <<Grouped(file)>>)

(***************************************************************************)
(* A line can stand alone if its last statement does not ask for more and  *)
(* the next line does not begin with what goes on with it: an operator, a  *)
(* bracket, ;, % (always an operator behind an operand), a predicate, else or *)
(* catch, or a string.  A command but return and yield takes its    *)
(* value from the next line.                                               *)
(***************************************************************************)
Continues(s, n) ==
  \/ Precedence(s) > 0 \/ s \in {";", "else", "catch", "{", "?"}
  \/ IsString(s)
  \/ n.k = "command" /\ n.c[1] = None /\ n.op \notin {"return", "yield"}
  \/ n.k = "bridge" /\ n.c[3] = None

(* A newline ends a statement as a semicolon does: what stands on two      *)
(* lines is what the first line says and what the second says.             *)
LinesAreStatements ==
  (round = 0 /\ phase = "parsed") =>
    \A i \in 1..Len(file) - 1 : OnNewLine(file, i) =>
      LET one == Parse(SubSeq(file, 1, i))
          two == Parse(SubSeq(file, i + 1, Len(file))) IN
      (one.ok /\ two.ok /\ ~Continues(file[i+1].s, Last(one.t.c))) =>
        tree.c = one.t.c \o two.t.c

(***************************************************************************)
(* Where the formatter keeps the tree.  Not regular are: an operator whose *)
(* level it does not know or takes for another; a negated operator, which  *)
(* the parser reads at the level of ! and which is written at that of the  *)
(* operator; ++ and -- in front; a sign before a sign or a name; a target  *)
(* of a call or index that is not a primary; a command that is not a       *)
(* statement, or has a value that is dropped; a branch without braces; a   *)
(* try without catch.                                                      *)
(***************************************************************************)
FirstOf(n) == Head(Pieces(n)).s
LastOf(n) == Last(Pieces(n)).s
IsTarget(n) ==
  n.k \in {"scalar", "array", "hash", "identifier", "literal", "class", "call",
           "index", "object", "tuple"}
IsStatement(n) ==
  /\ n.k # "block"
  /\ n.k = "bridge" => n.op # "" /\ n.c[3] # None
  /\ n.k \notin Compound \cup {"nop"} => FirstOf(n) \notin {"{", "sub"}
IsBranch(n) == n = None \/ n.k \in {"block", "if"}

RegularBinary(n) ==
  LET l == n.c[1]
      r == n.c[2] IN
  /\ n.k = "binop" => /\ OpLevel(n.op) = Precedence(n.op)
                      /\ l.k = "negated" => OpLevel(n.op) < EQUALITY
                      /\ n.op = "x" => \/ Level(r) <= FACTOR
                                       \/ BeginsOperand(FirstOf(r))
  /\ n.k = "negated" => /\ OpLevel(n.op) = EQUALITY /\ Glue("!", n.op) = <<>>
                        /\ Level(l) \notin EQUALITY..FACTOR /\ l.k # "prefix"

RegularUnary(n) ==
  LET e == n.c[1] IN
  /\ n.k = "prefix" => /\ n.op \notin {"++", "--"}
                       /\ Level(e) < UNARY \/ Glue(n.op, FirstOf(e)) = <<>>
  /\ n.k = "postfix" => /\ e.k # "prefix"
                        /\ Level(e) < UNARY \/ Glue(LastOf(e), n.op) = <<>>

RegularStatement(n) ==
  CASE n.k = "command" ->
         n.op \in {"break", "continue", "done", "halt"} => n.c[1] = None
    [] n.k = "if" -> n.c[2].k = "block" /\ IsBranch(n.c[3])
    [] n.k = "for" -> n.c[4].k = "block"
    [] n.k = "try" -> n.c[3] # None
    [] OTHER -> TRUE

RECURSIVE Regular(_)
Regular(n) ==
  LET Children == IF n.k \in {"raw", "string"} THEN {} ELSE {n.c[i] : i \in DOMAIN n.c}
  IN
  /\ \A m \in Children : m.k = "command" => n.k \in {"script", "block"}
  /\ \A m \in Children : n.k \in {"script", "block"} => IsStatement(m)
  /\ n.k \in {"binop", "negated"} => RegularBinary(n)
  /\ n.k \in {"prefix", "postfix"} => RegularUnary(n)
  /\ n.k \in {"call", "index"} => IsTarget(n.c[1])
  /\ n.k = "object" => IsTarget(n.c[1]) /\ (n.c[2] = None \/ IsTarget(n.c[2]))
  /\ n.k = "assign" => n.c[1].k # "assign"
  /\ n.k = "align" => FirstOf(n) # "?"
  /\ RegularStatement(n)
  /\ \A m \in Children : Regular(m)

(* What slp_fmt writes for a regular tree parses, and to the same tree.    *)
RoundTrip ==
  (round > 0 /\ phase \in {"parsed", "error"} /\ Regular(was)) => tree = was

(* Run again on what it wrote, slp_fmt comes to a text it does not change, *)
(* or to one it refuses or whose tree is not regular.                      *)
Settles ==
  <>(\/ phase \in {"settled", "error"}
     \/ phase = "parsed" /\ ~Regular(tree))

(* What the test at tests/test_formatter.cpp:107 says of every program:    *)
(* formatted, it still behaves the same.                                   *)
SameProgram ==
  (round > 0 /\ phase \in {"parsed", "error"}) => tree = was
=============================================================================
