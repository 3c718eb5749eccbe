-------------------------- MODULE MCCompiledControl --------------------------
(***************************************************************************)
(* Programs for CompiledControl: a loop, in it a statement that may leave  *)
(* it, then a second loop or a try, then another statement that may leave  *)
(* it; the same inside a try.  Identities are numbers, one per statement.  *)
(***************************************************************************)
EXTENDS CompiledControl

Kinds == {"while", "for", "forever", "foreach"}
Loop(kind, i, b) ==
  CASE kind = "while"   -> While(i, b)
    [] kind = "for"     -> For(i, TRUE, b)
    [] kind = "forever" -> For(i, FALSE, b)
    [] kind = "foreach" -> Foreach(i, b)

Jumps == {Break, Continue, Throw(90), Return}
Branches(i, J) == {Act(i)} \cup {If(i, <<s>>, <<Act(i + 1)>>) : s \in J}
Tries(i, first, J) ==
  {Try(<<s, Act(i + 3)>>, <<t>>) : s \in first, t \in Branches(i + 4, J)}
Guarded(p) == <<Try(p, <<Act(70)>>), Act(71)>>

(* Outer(k), Inner(l), In(k): the jumps allowed in the outer loop of kind  *)
(* k, in an inner loop of kind l after s, and in a try inside of k.        *)
ProgramsOf(Outer(_), Inner(_, _), In(_)) ==
  UNION {UNION {
    LET loops(J) == UNION {{Loop(l, 10, <<t>>) : t \in Branches(11, Inner(l, s) \cap J)}
                           : l \in Kinds}
        tries == Tries(10, Branches(10, In(k)), Outer(k))
                   \cup Tries(20, Tries(10, Branches(10, In(k)), {}), {})
                   \cup Tries(20, loops(In(k) \cup {Continue}), {})
        whole == {<<Loop(k, 50, <<s, t, u>>), Act(60)>> :
                    t \in loops(Jumps) \cup tries, u \in Branches(30, Outer(k))}
    IN whole \cup {Guarded(p) : p \in whole}
    : s \in Branches(1, Outer(k))} : k \in Kinds}

(* Programs that avoid what the compiler gets wrong: continue in a while   *)
(* loop; a jump out of a loop that has another loop, with the same jump,   *)
(* after it; an exception caught inside a foreach loop.                    *)
Plain(k) == IF k = "while" THEN Jumps \ {Continue} ELSE Jumps
JumpsIn(s) == IF s.k = "if" THEN {s.body[1]} \cap {Break, Continue} ELSE {}
PlainInner(l, s) == Plain(l) \ JumpsIn(s)
PlainTry(k) == IF k = "foreach" THEN Plain(k) \ {Throw(90)} ELSE Plain(k)
PlainPrograms == ProgramsOf(Plain, PlainInner, PlainTry)
=============================================================================
