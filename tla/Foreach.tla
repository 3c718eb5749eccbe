------------------------------- MODULE Foreach -------------------------------
(***************************************************************************)
(* foreach and remove() (OP_FOREACH_NEXT and native_remove in              *)
(* src/src/slp_vm.c).  A loop keeps its collection and its iterator, a     *)
(* number, on the operand stack; what remove() needs is in the fields      *)
(* foreach_* of the call frame, one set for all the loops of the frame.    *)
(*                                                                         *)
(* The program is any nesting of loops, calls, operands and changes to the *)
(* collections.  Elements are distinct names: those of an array, or the    *)
(* keys of a hash in its order.  Generators (closures as collections) and  *)
(* coroutines are not here.                                                *)
(***************************************************************************)
EXTENDS Integers, SequencesExt

CONSTANTS
  Arrays, Hashes,   \* the collections
  Elements,
  None,             \* a null pointer
  Starts,           \* contents a collection may start with
  AfterBreak,       \* whether the program calls remove() when a break has
                    \* left a loop and its frame has not reached another
  MaxLoops,         \* loops running at a time
  MaxFrames,
  MaxOperands,      \* operands above those of the loop or call
  MaxChanges        \* changes to collections other than by remove()

Collections == Arrays \cup Hashes

ASSUME ForeachAssumption ==
  /\ Arrays \cap Hashes = {}
  /\ None \notin Collections \cup Elements
  /\ AfterBreak \in BOOLEAN
  /\ \A s \in Starts : s \in Seq(Elements) /\ IsInjective(s)
  /\ {MaxLoops, MaxFrames, MaxOperands, MaxChanges} \subseteq Nat

VARIABLES
  content,   \* the elements of each collection, in order
  nulls,     \* the keys of each hash whose value is $null
  version,   \* mutation_version of each array
  frames,    \* the call frames, the running one last
  stack,     \* the operand stack
  changes    \* changes made so far

vars == <<content, nulls, version, frames, stack, changes>>

(* Items of the stack.                                                     *)
Object(c) == [kind |-> "object", of |-> c, n |-> 0]
Iterator(i) == [kind |-> "iterator", of |-> None, n |-> i]
Operand == [kind |-> "operand", of |-> None, n |-> 0]

(***************************************************************************)
(* A frame.  active: foreach_array or foreach_hash, foreach_index or       *)
(* foreach_key, and foreach_iterator_offset while foreach_active is set,   *)
(* else Idle; array, seen_version, invalidated: foreach_iteration_array,   *)
(* foreach_iteration_version, foreach_invalidated.                         *)
(* base is the height of the stack below its operands; atNext says that    *)
(* OP_FOREACH_NEXT comes next, left that a break was the last to leave a   *)
(* loop.                                                                   *)
(*                                                                         *)
(* loops is history: the loops the program text is in, with the position   *)
(* of the iterator, and, while only its own remove() has changed its       *)
(* collection (clean), the elements visited and those at the start.        *)
(***************************************************************************)
Idle == [source |-> None, index |-> None, offset |-> -1]

NewFrame(b) ==
  [active |-> Idle, array |-> None, seen_version |-> 0,
   invalidated |-> FALSE, base |-> b, atNext |-> FALSE, left |-> FALSE,
   loops |-> << >>]

top == Len(frames)
frame == frames[top]
Innermost(f) == Last(f.loops)

(* Between two statements there is nothing above the innermost iterator.   *)
Floor(f) == IF f.loops = << >> THEN f.base ELSE Innermost(f).at
AtStatement == Len(stack) = Floor(frame) /\ ~frame.atNext

Init ==
  /\ content \in [Collections -> Starts]
  /\ nulls = [h \in Hashes |-> {}]
  /\ version = [a \in Arrays |-> 0]
  /\ frames = <<NewFrame(0)>>
  /\ stack = << >>
  /\ changes = 0

-----------------------------------------------------------------------------
(* Loops over c, other than loop d of frame f, no longer see what they     *)
(* started with.                                                           *)
Disturbed(fs, c, f, d) ==
  [g \in DOMAIN fs |-> [fs[g] EXCEPT !.loops =
     [e \in DOMAIN fs[g].loops |->
        IF fs[g].loops[e].over = c /\ <<g, e>> # <<f, d>>
        THEN [fs[g].loops[e] EXCEPT !.clean = FALSE, !.seen = << >>,
                                     !.orig = << >>]
        ELSE fs[g].loops[e]]]]

(* foreach: the collection and the number 0 are pushed.                    *)
Enter(c) ==
  /\ AtStatement
  /\ FoldLeft(LAMBDA n, f : n + Len(f.loops), 0, frames) < MaxLoops
  /\ stack' = stack \o <<Object(c), Iterator(0)>>
  /\ frames' = [frames EXCEPT
       ![top].atNext = TRUE,
       ![top].loops = Append(@, [over |-> c, at |-> Len(stack) + 2,
                                 seen |-> << >>, orig |-> content[c],
                                 clean |-> TRUE])]
  /\ UNCHANGED <<content, nulls, version, changes>>

(* A variant that leaves what remove() uses.                               *)
ResetKeepsActive(f) == [f EXCEPT !.left = FALSE]

(* What every OP_FOREACH_NEXT clears first.                                *)
Reset(f) == [f EXCEPT !.active = Idle, !.left = FALSE]

(* A loop that ends: its operands are popped, its fields cleared.          *)
Ended(f) == [f EXCEPT
  !.array = None, !.seen_version = 0, !.invalidated = FALSE,
  !.atNext = FALSE, !.loops = Front(@)]

Finish(f) ==
  /\ frames' = [frames EXCEPT ![top] = Ended(f)]
  /\ stack' = SubSeq(stack, 1, Len(stack) - 2)

(* The body runs with element e, the iterator at i.                        *)
Visit(f, e, i) ==
  /\ frames' = [frames EXCEPT ![top] =
       [f EXCEPT !.atNext = FALSE,
                 !.loops[Len(f.loops)].seen =
                   IF Innermost(f).clean THEN Append(@, e) ELSE @]]
  /\ stack' = [stack EXCEPT ![Len(stack)].n = i]

(* What remove() will need.                                                *)
Activated(f, c, x) ==
  [f EXCEPT !.active = [source |-> c, index |-> x, offset |-> Len(stack)]]

(* A variant in which a loop that goes on does not compare versions anew.  *)
SyncedKeepsFlag(f, c, i) ==
  IF i = 0 \/ f.array # c
  THEN [f EXCEPT !.array = c, !.seen_version = version[c]]
  ELSE f

(* A loop that begins, or that is not the one this frame ran last, takes   *)
(* the version of the array as it finds it.                                *)
Synced(f, c, i) ==
  IF i = 0 \/ f.array # c
  THEN [f EXCEPT !.array = c, !.seen_version = version[c],
                 !.invalidated = FALSE]
  ELSE f

(* OP_FOREACH_NEXT over an array.  A change that remove() did not make is  *)
(* warned of: the body runs once more, then the loop ends.                 *)
NextOfArray(c, i) ==
  LET f == Synced(Reset(frame), c, i)
      changed == i > 0 /\ f.seen_version # version[c]
  IN \/ f.invalidated /\ Finish(f)
     \/ /\ ~f.invalidated /\ changed
        /\ frames' = [frames EXCEPT ![top] =
             [f EXCEPT !.invalidated = TRUE, !.atNext = FALSE]]
        /\ stack' = [stack EXCEPT ![Len(stack)].n = i + 1]
     \/ /\ ~f.invalidated /\ ~changed /\ i \in 0..Len(content[c])-1
        /\ Visit(Activated(f, c, i), content[c][i + 1], i + 1)
     \/ /\ ~f.invalidated /\ ~changed /\ i \notin 0..Len(content[c])-1
        /\ Finish(f)

(* OP_FOREACH_NEXT over a hash: keys bound to $null are skipped, but when  *)
(* only such keys are left the last one is visited.                        *)
NextOfHash(c, i) ==
  LET f == Reset(frame)
      keys == content[c]
      left == {j \in i..Len(keys)-1 : keys[j + 1] \notin nulls[c]}
      ordinal == IF left = {} THEN Len(keys) ELSE Min(left)
      key == IF left = {} THEN Last(keys) ELSE keys[ordinal + 1]
  IN IF i \in 0..Len(keys)-1
     THEN Visit(Activated(f, c, key), key, ordinal + 1)
     ELSE Finish(f)

Advance ==
  /\ frame.atNext
  /\ LET c == stack[Len(stack) - 1].of
         i == stack[Len(stack)].n
     IN \/ c \in Arrays /\ NextOfArray(c, i)
        \/ c \in Hashes /\ NextOfHash(c, i)
        \/ c = None /\ Finish(Reset(frame))
  /\ UNCHANGED <<content, nulls, version, changes>>

(* The end of the body, or continue.                                       *)
EndBody ==
  /\ AtStatement /\ frame.loops # << >>
  /\ frames' = [frames EXCEPT ![top].atNext = TRUE]
  /\ UNCHANGED <<content, nulls, version, stack, changes>>

(* break jumps to the two OP_POPs after the loop: the fields stay.         *)
Break ==
  /\ AtStatement /\ frame.loops # << >>
  /\ frames' = [frames EXCEPT ![top].loops = Front(@), ![top].left = TRUE]
  /\ stack' = SubSeq(stack, 1, Len(stack) - 2)
  /\ UNCHANGED <<content, nulls, version, changes>>

Push ==
  /\ ~frame.atNext
  /\ Len(stack) < Floor(frame) + MaxOperands
  /\ stack' = Append(stack, Operand)
  /\ UNCHANGED <<content, nulls, version, frames, changes>>

Pop ==
  /\ ~frame.atNext
  /\ Len(stack) > Floor(frame)
  /\ stack' = Front(stack)
  /\ UNCHANGED <<content, nulls, version, frames, changes>>

(* A call, with the slot of the callee; a return, with its result.         *)
Call ==
  /\ ~frame.atNext
  /\ top < MaxFrames
  /\ Len(stack) < Floor(frame) + MaxOperands
  /\ frames' = Append(frames, NewFrame(Len(stack) + 1))
  /\ stack' = Append(stack, Operand)
  /\ UNCHANGED <<content, nulls, version, changes>>

Return ==
  /\ ~frame.atNext
  /\ top > 1
  /\ frames' = Front(frames)
  /\ stack' = Append(SubSeq(stack, 1, frame.base - 1), Operand)
  /\ UNCHANGED <<content, nulls, version, changes>>

(* The frame remove() acts for: the innermost one with an active loop.     *)
Remover ==
  LET active == {g \in DOMAIN frames : frames[g].active # Idle}
  IN IF active = {} THEN {} ELSE {Max(active)}

Decremented(item) ==
  IF item.kind = "object" THEN [Operand EXCEPT !.n = -1]
  ELSE [item EXCEPT !.n = @ - 1]

(* Variants: the iterator is left where it was; the element can be         *)
(* removed again.                                                          *)
StackKept(f) == stack
RemovableTwice(g) == frames

(* The iterator goes back by one, wherever the frame says it is.           *)
StackAfterRemove(f) ==
  IF f.active.offset \in DOMAIN stack
  THEN [stack EXCEPT ![f.active.offset] = Decremented(@)] ELSE stack

(* The frame forgets the element that was removed.                         *)
Removed(g) == [frames EXCEPT ![g].active = Idle]

(* remove(): without an active loop it only warns.                         *)
RemoveCurrent ==
  /\ ~frame.atNext
  /\ \E g \in Remover :
       /\ AfterBreak \/ ~frames[g].left
       /\ LET f == frames[g]
              x == f.active.index
              c == f.active.source
              after == Disturbed(Removed(g), c, g, Len(f.loops))
          IN /\ stack' = StackAfterRemove(f)
             /\ \/ /\ c \in Arrays
                   /\ content' = [content EXCEPT ![c] =
                        IF x < Len(@) THEN RemoveAt(@, x + 1) ELSE @]
                   /\ version' = [version EXCEPT ![c] =
                        IF x < Len(content[c]) THEN @ + 1 ELSE @]
                   /\ frames' = [after EXCEPT ![g].seen_version = version'[c]]
                \/ /\ c \in Hashes
                   /\ content' = [content EXCEPT ![c] = RemoveFirst(@, x)]
                   /\ frames' = after
                   /\ UNCHANGED version
  /\ UNCHANGED <<nulls, changes>>

(* A change of c made by other means than remove().                        *)
Change(c, s) ==
  /\ ~frame.atNext
  /\ changes < MaxChanges
  /\ changes' = changes + 1
  /\ content' = [content EXCEPT ![c] = s]
  /\ version' = IF c \in Arrays THEN [version EXCEPT ![c] = @ + 1]
                ELSE version
  /\ frames' = Disturbed(frames, c, 0, 0)
  /\ UNCHANGED stack

Add(c, e) == /\ ~Contains(content[c], e)
             /\ Change(c, Append(content[c], e))
             /\ nulls' = IF c \in Hashes THEN [nulls EXCEPT ![c] = @ \ {e}] ELSE nulls
Take(c, e) == /\ Contains(content[c], e)
              /\ Change(c, RemoveFirst(content[c], e))
              /\ UNCHANGED nulls
(* An element is assigned: $null to a hash key, anything to an array's.    *)
Assign(c, e) == /\ Contains(content[c], e)
                /\ Change(c, content[c])
                /\ nulls' = IF c \in Hashes THEN [nulls EXCEPT ![c] = @ \cup {e}]
                             ELSE nulls

Next == \/ \E c \in Collections : \/ Enter(c)
                                  \/ \E e \in Elements : \/ Add(c, e)
                                                         \/ Take(c, e)
                                                         \/ Assign(c, e)
        \/ Advance \/ EndBody \/ Break
        \/ Push \/ Pop \/ Call \/ Return \/ RemoveCurrent

Spec == Init /\ [][Next]_vars
-----------------------------------------------------------------------------
Precedes(s, x, y) == \E i, j \in DOMAIN s : i < j /\ s[i] = x /\ s[j] = y

(* Elements that count occur in s as in t, in the same order and as often: *)
(* not twice, when none precedes itself in t.                              *)
SameElements(c, s, t) ==
  \A x, y \in {e \in Elements : c \in Hashes => e \notin nulls[c]} :
    /\ Contains(s, x) <=> Contains(t, x)
    /\ Precedes(s, x, y) <=> Precedes(t, x, y)

(* While only its own remove() has changed its collection, the elements a  *)
(* loop has visited and those its iterator has yet to reach are, in order, *)
(* those it started with: none is skipped or visited twice, whatever other *)
(* loops, calls and removals do (OP_FOREACH_NEXT, native_remove).  A key   *)
(* bound to $null does not count.                                          *)
EachElementOnce ==
  \A g \in DOMAIN frames : \A d \in DOMAIN frames[g].loops :
    LET l == frames[g].loops[d]
        i == stack[l.at].n
        left == SubSeq(content[l.over], i + 1, Len(content[l.over]))
    IN l.clean => SameElements(l.over, l.seen \o left, l.orig)

(* Such a loop ends only when its collection is used up, never for a       *)
(* change made to an earlier loop's array (foreach_invalidated).           *)
EndsWhenAllSeen ==
  [][\A g \in DOMAIN frames :
       /\ Advance /\ g = top
       /\ g \in DOMAIN frames'
       /\ Len(frames'[g].loops) < Len(frames[g].loops)
       /\ Innermost(frames[g]).clean
       => SameElements(Innermost(frames[g]).over, Innermost(frames[g]).seen,
                       Innermost(frames[g]).orig)]_vars

(* On the stack, every loop finds its collection and its iterator where it *)
(* put them, and no operand of an expression or slot of a call is changed  *)
(* by a remove() further in (foreach_iterator_offset).                     *)
StackIntact ==
  /\ \A i \in DOMAIN stack : stack[i].kind = "operand" => stack[i].n = 0
  /\ \A g \in DOMAIN frames : \A d \in DOMAIN frames[g].loops :
       LET l == frames[g].loops[d] IN
       /\ stack[l.at - 1] = Object(l.over)
       /\ stack[l.at].kind = "iterator" /\ stack[l.at].n >= 0

(* A remove() takes out the element the innermost active loop is at, and   *)
(* that loop goes on with the one after it: what it would remove is the    *)
(* last element visited by a loop that has not ended.                      *)
RemovesCurrentElement ==
  \A g \in DOMAIN frames :
    LET f == frames[g]
        l == Innermost(f)
    IN f.active # Idle /\ ~f.left /\ ~f.atNext =>
         /\ f.loops # << >>
         /\ f.active.source = l.over /\ f.active.offset = l.at
         /\ l.clean =>
              /\ l.seen # << >>
              /\ IF l.over \in Arrays
                 THEN content[l.over][f.active.index + 1] = Last(l.seen)
                 ELSE f.active.index = Last(l.seen)
=============================================================================
