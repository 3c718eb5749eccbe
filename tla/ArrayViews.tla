------------------------------ MODULE ArrayViews ------------------------------
(***************************************************************************)
(* Arrays and the mutable views of them that &sublist makes                *)
(* (src/src/slp_value.c, src/extensions/stdlib/stdlib.c).  A view has a    *)
(* window of its own and repeats every edit in its source, which may be a  *)
(* view too.  Versions tell a view that its source has changed behind its  *)
(* back; a script learns of it when it prints the view.  Nothing keeps a   *)
(* script from editing such a view.                                        *)
(*                                                                         *)
(* Elements are plain values; scalar cells, which foreach and \ put in     *)
(* arrays, are not here.                                                   *)
(***************************************************************************)
EXTENDS Integers, FiniteSetsExt, SequencesExt

CONSTANTS
  MaxArrays,    \* arrays there can be; array 1 is there first
  Start,        \* its first elements
  Values,       \* values to put into arrays
  Null,         \* $null
  Order,        \* all the values, as sorting orders them
  MaxLength,    \* of an array
  MaxEdits      \* edits made

ASSUME ViewsAssumption ==
  /\ MaxArrays \in Nat \ {0}
  /\ Start \in Seq(Range(Order)) /\ Values \cup {Null} \subseteq Range(Order)
  /\ MaxLength \in Nat /\ Len(Start) <= MaxLength
  /\ MaxEdits \in Nat

VARIABLES
  heap,     \* the arrays
  apart,    \* history: views whose source was edited otherwise than by them
  shown,    \* history: views that an assignment past the end has shown
            \*   elements of that were removed
  edits

vars == <<heap, apart, shown, edits>>

NoArray == 0

(* elements is the buffer, as far as it was ever used: what removals leave *)
(* behind stays in it after count.                                         *)
NewArray(s) ==
  [elements |-> s, count |-> Len(s), mutation_version |-> 0,
   view_source |-> NoArray, view_offset |-> 0, view_source_version |-> 0,
   view_invalid |-> FALSE]

Content(h, a) == SubSeq(h[a].elements, 1, h[a].count)

IsView(h, a) == h[a].view_source # NoArray

(* slp_obj_array_view_is_valid.                                            *)
Valid(h, a) ==
  IsView(h, a) =>
    /\ ~h[a].view_invalid
    /\ h[a].view_source_version = h[h[a].view_source].mutation_version

(* x after n rounds of a loop.                                             *)
Repeated(n, x, Round(_, _)) ==
  LET after[k \in 0..n] == IF k = 0 THEN x ELSE Round(after[k-1], k)
  IN after[n]

(* The array that is n sources above a, or the last there is, and where    *)
(* the window of a begins in it.  The arrays on the way from a to there.   *)
Above(h, a, n) ==
  Repeated(n, [at |-> a, offset |-> 0], LAMBDA l, k :
    IF ~IsView(h, l.at) THEN l
    ELSE [at |-> h[l.at].view_source,
          offset |-> l.offset + h[l.at].view_offset])
Way(h, a) == {Above(h, a, n).at : n \in 0..a}

-----------------------------------------------------------------------------
(* What an edit does to one array: its elements,                           *)
Inserted(x, i, v) ==
  [x EXCEPT
    !.elements = [j \in DOMAIN x.elements \cup {x.count + 1} |->
      IF j = i + 1 THEN v
      ELSE IF j \in i+2..x.count+1 THEN x.elements[j-1] ELSE x.elements[j]],
    !.count = @ + 1]

Removed(x, i) ==
  [x EXCEPT
    !.elements = [j \in DOMAIN x.elements |->
      IF j \in i+1..x.count-1 THEN x.elements[j+1] ELSE x.elements[j]],
    !.count = @ - 1]

Assigned(x, i, v) ==
  [x EXCEPT
    !.elements = [j \in DOMAIN x.elements \cup 1..i+1 |->
      IF j = i + 1 THEN v
      ELSE IF j \in DOMAIN x.elements THEN x.elements[j] ELSE Null],
    !.count = IF i >= @ THEN i + 1 ELSE @]

(* and the other fields.                                                   *)
Touched(x, fromChild) ==
  [x EXCEPT !.mutation_version = @ + 1,
            !.view_invalid = @ \/ (fromChild /\ x.view_source # NoArray)]

(* An edit made through view a itself, not through a view of it, makes a   *)
(* agree with the version of its source.                                   *)
InStep(h, a, fromChild) ==
  IF fromChild \/ ~IsView(h, a) THEN h
  ELSE [h EXCEPT ![a].view_source_version =
                    h[h[a].view_source].mutation_version]

(* An edit of the array at goes on in its source.  The n-th array it       *)
(* comes to was edited from a child if n > 1.                              *)
Onward(l, new, i) ==
  [heap |-> [l.heap EXCEPT ![l.at] = new],
   at |-> new.view_source, index |-> new.view_offset + i]

InsertInternal(h, a, i, v, fromChild) ==
  LET Up(l, n) ==
        LET x == l.heap[l.at]
            at == IF l.index > x.count THEN x.count ELSE l.index
        IN IF l.at = NoArray THEN l
           ELSE Onward(l, Touched(Inserted(x, at, v), fromChild \/ n > 1), at)
  IN InStep(Repeated(a, [heap |-> h, at |-> a, index |-> i], Up).heap,
            a, fromChild)

(* Variant: a removal is no change.                                        *)
RemoveUnseen(h, a, i, fromChild) ==
  LET Up(l, n) ==
        LET x == l.heap[l.at] IN
        IF l.at = NoArray \/ l.index \notin 0..x.count-1 THEN l
        ELSE Onward(l, Removed(x, l.index), l.index)
  IN IF i \notin 0..h[a].count-1 THEN h
     ELSE InStep(Repeated(a, [heap |-> h, at |-> a, index |-> i], Up).heap,
                 a, fromChild)

RemoveInternal(h, a, i, fromChild) ==
  LET Up(l, n) ==
        LET x == l.heap[l.at] IN
        IF l.at = NoArray \/ l.index \notin 0..x.count-1 THEN l
        ELSE Onward(l, Touched(Removed(x, l.index), fromChild \/ n > 1),
                    l.index)
  IN IF i \notin 0..h[a].count-1 THEN h
     ELSE InStep(Repeated(a, [heap |-> h, at |-> a, index |-> i], Up).heap,
                 a, fromChild)

(* Beyond the end of the window of x its source is given new elements,     *)
(* $null for those between.                                                *)
Extend(h, x, i, v) ==
  IF x.view_source = NoArray THEN h
  ELSE Repeated(i + 1 - x.count, h, LAMBDA g, j :
         InsertInternal(g, x.view_source, x.view_offset + x.count + j - 1,
                        IF x.count + j = i + 1 THEN v ELSE Null, TRUE))

(* A variant that assigns to the source at the end of the window as well.  *)
SetOverwrites(h, a, i, v, fromChild) ==
  LET Up(l, n) ==
        LET x == l.heap[l.at]
            own == Onward(l, Touched(Assigned(x, l.index, v),
                                     fromChild \/ n > 1), l.index)
        IN IF l.at = NoArray THEN l ELSE own
  IN InStep(Repeated(a, [heap |-> h, at |-> a, index |-> i], Up).heap,
            a, fromChild)

SetInternal(h, a, i, v, fromChild) ==
  LET Up(l, n) ==
        LET x == l.heap[l.at]
            own == Onward(l, Touched(Assigned(x, l.index, v),
                                     fromChild \/ n > 1), l.index)
        IN IF l.at = NoArray THEN l
           ELSE IF l.index < x.count THEN own
           ELSE [own EXCEPT !.heap = Extend(@, x, l.index, v), !.at = NoArray]
  IN InStep(Repeated(a, [heap |-> h, at |-> a, index |-> i], Up).heap,
            a, fromChild)

(* A variant that forgets where the window begins.                         *)
SyncedAtZero(h, a, n) ==
  IF ~IsView(h, a) THEN h
  ELSE Repeated(n, h, LAMBDA g, k :
         SetInternal(g, h[a].view_source, k - 1, h[a].elements[k], FALSE))

(* slp_obj_array_sync_view: the window of a is assigned to its source.     *)
(* After n rounds:                                                         *)
Synced(h, a, n) ==
  IF ~IsView(h, a) THEN h
  ELSE Repeated(n, h, LAMBDA g, k :
         SetInternal(g, h[a].view_source, h[a].view_offset + k - 1,
                     h[a].elements[k], FALSE))
SyncView(h, a) == Synced(h, a, h[a].count)

(* An assignment goes on up to the first array in which it is past the     *)
(* end.  There it makes elements visible that removals left in the buffer, *)
(* which the code does not clear; the source of that array gets $null for  *)
(* them.  The view to which that happens:                                  *)
Lands(h, a, i, n) ==
  /\ h[Above(h, a, n).at].count <= Above(h, a, n).offset + i
  /\ \A m \in 0..n-1 : Above(h, a, m).offset + i < h[Above(h, a, m).at].count
Showing(h, a, i) ==
  {x \in Way(h, a) : \E n \in 0..a :
     /\ x = Above(h, a, n).at /\ IsView(h, x) /\ Lands(h, a, i, n)
     /\ \E j \in h[x].count+1 .. Above(h, a, n).offset + i :
          j \in DOMAIN h[x].elements /\ h[x].elements[j] # Null}

-----------------------------------------------------------------------------
Init == /\ heap = <<NewArray(Start)>>
        /\ apart = {} /\ shown = {}
        /\ edits = 0

(* sublist(a, s, e).                                                       *)
Sublist(a, s, e) ==
  /\ Len(heap) < MaxArrays
  /\ s <= e /\ e <= heap[a].count
  /\ heap' = Append(heap,
       [NewArray(SubSeq(heap[a].elements, s + 1, e)) EXCEPT
          !.mutation_version = e - s,
          !.view_source = a, !.view_offset = s,
          !.view_source_version = heap[a].mutation_version])
  /\ UNCHANGED <<apart, shown, edits>>

(* An edit of a, h the arrays after it: the views of what it changes that  *)
(* are not on the way are apart from then on.                              *)
EditShowing(a, h, views) ==
  LET way == Way(heap, a) IN
  /\ h # heap
  /\ \A x \in way : h[x].count <= MaxLength
  /\ heap' = h
  /\ apart' = apart \cup
       {x \in DOMAIN heap \ way :
          LET w == heap[x].view_source IN w \in way /\ h[w] # heap[w]}
  /\ shown' = shown \cup views
  /\ edits' = edits + 1
Edit(a, h) == EditShowing(a, h, {})

Insert(a, i, v) == /\ i \in 0..heap[a].count
                   /\ Edit(a, InsertInternal(heap, a, i, v, FALSE))

(* An index out of range removes nothing.                                  *)
RemoveElement(a, i) == Edit(a, RemoveInternal(heap, a, i, FALSE))

SetElement(a, i, v) ==
  /\ i \in 0..MaxLength-1
  /\ EditShowing(a, SetInternal(heap, a, i, v, FALSE), Showing(heap, a, i))

(* The window is permuted, then synchronised.                              *)
Permuted(h, a, s) ==
  [h EXCEPT ![a].elements = [j \in DOMAIN @ |->
     IF j <= h[a].count THEN s[j] ELSE @[j]]]
Rearrange(a, s) ==
  LET arranged == Permuted(heap, a, s)
      x == heap[a]
  IN EditShowing(a, SyncView(arranged, a),
       IF IsView(heap, a)
       THEN UNION {Showing(Synced(arranged, a, k - 1), x.view_source,
                           x.view_offset + k - 1) : k \in 1..x.count}
       ELSE {})

ReverseElements(a) == Rearrange(a, Reverse(Content(heap, a)))

(* sorta and its like; sort, its comparator one that edits no array.       *)
SortElements(a) ==
  Rearrange(a, SortSeq(Content(heap, a), LAMBDA x, y :
    SelectInSeq(Order, LAMBDA v : v = x) < SelectInSeq(Order, LAMBDA v : v = y)))

-----------------------------------------------------------------------------
(* The functions that scripts call.  An index below 0 counts from the end; *)
(* one that is still out of range is a warning.                            *)
Add(a, i, v) == Insert(a, IF i < 0 THEN i + heap[a].count + 1 ELSE i, v)
RemoveIndex(a, i) == RemoveElement(a, IF i < 0 THEN i + heap[a].count ELSE i)
Push(a, v) == Insert(a, heap[a].count, v)
Pop(a) == RemoveElement(a, heap[a].count - 1)
Shift(a) == RemoveElement(a, 0)

PushEach(h, a, s) ==
  Repeated(Len(s), h, LAMBDA g, k :
    InsertInternal(g, a, g[a].count, s[k], FALSE))

RemoveTimes(h, a, i, n) ==
  Repeated(n, h, LAMBDA g, k : RemoveInternal(g, a, i, FALSE))

Clear(a) ==
  Edit(a, Repeated(heap[a].count, heap, LAMBDA g, k :
            RemoveInternal(g, a, g[a].count - 1, FALSE)))

(* splice(a, b, i, n): the values of b are read before a is edited.        *)
Splice(a, b, i, n) ==
  LET count == heap[a].count
      from == IF i < 0 THEN Max({count + i, 0}) ELSE Min({i, count})
      new == Content(heap, b)
      cut == RemoveTimes(heap, a, from, Min({n, count - from}))
  IN Edit(a, Repeated(Len(new), cut, LAMBDA g, k :
               InsertInternal(g, a, from + k - 1, new[k], FALSE)))

(* putAll(a, b) pushes what b held at the call.                            *)
PutAll(a, b) == Edit(a, PushEach(heap, a, Content(heap, b)))

(* addAll, removeAll and retainAll walk the arrays while they edit a: if   *)
(* one is a view of the other both change under the walk.  A value of b is *)
(* pushed once at most, so b does not grow to more than twice its length;  *)
(* each round of Sift passes or removes one element of a.                  *)
AddMissing(h, a, b) ==
  Repeated(2 * h[b].count, h, LAMBDA g, k :
    IF k > g[b].count \/ g[b].elements[k] \in Range(Content(g, a)) THEN g
    ELSE InsertInternal(g, a, g[a].count, g[b].elements[k], FALSE))

Sift(h, a, b, retain) ==
  Repeated(h[a].count, [heap |-> h, i |-> 0], LAMBDA l, k :
    IF (l.heap[a].elements[l.i+1] \in Range(Content(l.heap, b))) = retain
    THEN [l EXCEPT !.i = @ + 1]
    ELSE [l EXCEPT !.heap = RemoveInternal(@, a, l.i, FALSE)]).heap

AddAll(a, b) == Edit(a, AddMissing(heap, a, b))
RemoveAll(a, b) == Edit(a, Sift(heap, a, b, FALSE))
RetainAll(a, b) == Edit(a, Sift(heap, a, b, TRUE))

(* concat(a, b): an array of its own.                                      *)
Concat(a, b) ==
  LET s == Content(heap, a) \o Content(heap, b) IN
  /\ Len(heap) < MaxArrays /\ Len(s) <= MaxLength
  /\ heap' = Append(heap, [NewArray(s) EXCEPT !.mutation_version = Len(s)])
  /\ UNCHANGED <<apart, shown, edits>>

EditOf(a) ==
  \/ \E i \in -1..MaxLength, v \in Values : Add(a, i, v) \/ SetElement(a, i, v)
  \/ \E i \in -1..MaxLength : RemoveIndex(a, i)
  \/ \E v \in Values : Push(a, v)
  \/ Pop(a)
  \/ Shift(a)
  \/ Clear(a)
  \/ ReverseElements(a)
  \/ SortElements(a)
  \/ \E b \in DOMAIN heap :
       \/ \E i \in -1..MaxLength, n \in 0..1 : Splice(a, b, i, n)
       \/ PutAll(a, b)
       \/ AddAll(a, b)
       \/ RemoveAll(a, b)
       \/ RetainAll(a, b)

Next == \E a \in DOMAIN heap :
          \/ \E s, e \in 0..MaxLength : Sublist(a, s, e)
          \/ \E b \in DOMAIN heap : Concat(a, b)
          \/ edits < MaxEdits /\ EditOf(a)

Spec == Init /\ [][Next]_vars
-----------------------------------------------------------------------------
(* "The view keeps a local window for ordinary reads and mirrors mutations *)
(* into its source array" (slp_value.h:241): the window of a view is a     *)
(* slice of its source                                                     *)
Mirrors(a) ==
  LET x == heap[a] IN
  IsView(heap, a) =>
    Content(heap, a) = SubSeq(heap[x.view_source].elements,
                              x.view_offset + 1, x.view_offset + x.count)

(* however deep views of views are edited, stale ones and those of stale   *)
(* ones too, until its source is edited otherwise or the view shows        *)
(* elements that were removed (array_insert_internal and the others).      *)
ViewsMirror == \A a \in DOMAIN heap : a \notin apart \cup shown => Mirrors(a)

(* "unsafe data modification: parent @array changed after &sublist         *)
(* creation" (slp_vm.c:1587): a view that no longer mirrors its source is  *)
(* not taken for valid (slp_obj_array_view_is_valid); least of all one     *)
(* whose window is not even inside its source.                             *)
ValidViewsFit ==
  \A a \in DOMAIN heap :
    LET x == heap[a] IN
    IsView(heap, a) /\ Valid(heap, a) =>
      x.view_offset + x.count <= heap[x.view_source].count

(* A view whose source is edited otherwise is invalid at once, and then    *)
(* for good, except for two ways back: an edit of the view itself takes    *)
(* over the new version of its source, as does the sorting or reversing of *)
(* a view of it, and sorting or reversing its source makes no version.     *)
StalenessLasts ==
  [][\A x \in apart' :
       \/ ~Valid(heap', x)
       \/ x \in apart /\ Valid(heap, x)
       \/ EditOf(x)
       \/ \E a \in DOMAIN heap :
            /\ a = heap[x].view_source \/ heap[a].view_source = x
            /\ ReverseElements(a) \/ SortElements(a)]_vars

OutsideKept(a) ==
  LET root == Above(heap, a, a)
      old == Content(heap, root.at)
      new == Content(heap', root.at)
      after == Len(old) - root.offset - heap[a].count
  IN /\ SubSeq(new, 1, root.offset) = SubSeq(old, 1, root.offset)
     /\ SubSeq(new, Len(new) - after + 1, Len(new)) =
          SubSeq(old, Len(old) - after + 1, Len(old))

(* An edit through a view that mirrors its source, as its sources do       *)
(* theirs, changes in the root what the window of the view shows and       *)
(* nothing before or after it (array_set_internal and the other edits).    *)
EditsStayInside ==
  [][\A a \in DOMAIN heap :
       \/ Way(heap, a) \cap (apart \cup shown)' # {}
       \/ OutsideKept(a)
       \/ ~EditOf(a)]_vars
=============================================================================
