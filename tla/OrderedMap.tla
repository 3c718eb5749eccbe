------------------------------ MODULE OrderedMap ------------------------------
(***************************************************************************)
(* What a Sleep hash promises to a script: a map from keys to values, and  *)
(* an order in which keys() and foreach visit it.  The order is            *)
(*    mode 0   (%())       unspecified;                                    *)
(*    mode 1   (ohash)     the order in which the keys were inserted;      *)
(*    mode 2   (ohasha)    as mode 1, but a read that finds a value makes  *)
(*                         its key the last one.                           *)
(* A key may be bound to $null: it keeps its place but is not visited.     *)
(* In modes 1 and 2 the script may be asked first: for the value of a key  *)
(* that is missed, or whether a new key shall drive out the eldest, the    *)
(* first in the order when it was asked, whatever it did meanwhile.        *)
(* HashPolicies is shown to implement this module.                         *)
(***************************************************************************)
EXTENDS Naturals, SequencesExt, Subsequences

CONSTANTS Keys, Values, Null

VARIABLES
  mode, map, order, answer,
  asked         \* the questions not answered yet, the last one first to be
vars == <<mode, map, order, answer, asked>>

(* o lists the keys of the map g, each once.                               *)
Lists(o, g) == /\ Len(o) = Cardinality(DOMAIN g)
               /\ ToSet(o) = DOMAIN g

(* The order after a step: o where the mode has one, any order otherwise.  *)
Reordered(o) == IF mode = 0 THEN Lists(order', map') ELSE o = order'

With(f, k, v) == [x \in DOMAIN f \cup {k} |-> IF x = k THEN v ELSE f[x]]
Dropped(f, k) == [x \in DOMAIN f \ {k} |-> f[x]]
Without(k) == RemoveFirst(order, k)
Visible == Only(order, {k \in DOMAIN map : map[k] # Null})

Init == /\ mode \in 0..2
        /\ map = << >>
        /\ order = << >>
        /\ answer = << >>
        /\ asked = << >>

Inserted(o, k) == IF k \in Range(o) THEN o ELSE Append(o, k)

Set(k, v) ==
  /\ answer' = <<TRUE>>
  /\ UNCHANGED <<mode, asked>>
  /\ map' = With(map, k, v)
  /\ Reordered(Inserted(order, k))

Get(k) ==
  LET found == k \in DOMAIN map /\ map[k] # Null IN
  /\ UNCHANGED <<mode, asked>>
  /\ answer' = <<IF found THEN map[k] ELSE Null>>
  /\ UNCHANGED map
  /\ Reordered(IF mode = 2 /\ found THEN Append(Without(k), k) ELSE order)

Has(k) == /\ UNCHANGED <<mode, asked>>
          /\ answer' = <<k \in DOMAIN map>>
          /\ UNCHANGED <<map, order>>

Delete(k) ==
  /\ UNCHANGED <<mode, asked>>
  /\ answer' = <<k \in DOMAIN map>>
  /\ map' = Dropped(map, k)
  /\ Reordered(Without(k))

List == /\ UNCHANGED <<mode, asked>>
        /\ answer' = Visible
        /\ UNCHANGED <<map, order>>

Clear == /\ UNCHANGED <<mode, asked>>
         /\ answer' = << >>
         /\ map' = << >>
         /\ order' = << >>

(* The map is replaced by a copy of itself, in the same order.             *)
Copy == /\ UNCHANGED <<mode, asked>>
        /\ answer' = << >>
        /\ UNCHANGED map
        /\ Reordered(order)

-----------------------------------------------------------------------------
(* What is asked, and what the caller is told once that is settled.        *)
Question(kind, k, v, reading) ==
  [kind |-> kind, key |-> k, value |-> v, reading |-> reading,
   eldest |-> IF kind = "remove" /\ order # << >> THEN order[1] ELSE Null]

Told(q) == IF q.reading THEN q.value ELSE TRUE

Miss(k) ==
  /\ answer' = << >> /\ UNCHANGED mode
  /\ mode # 0 /\ asked' = Append(asked, Question("miss", k, Null, TRUE))
  /\ k \in DOMAIN map => map[k] = Null
  /\ UNCHANGED <<map, order>>

(* A new key: the script is asked about the eldest.                        *)
Consult(k, v, reading, others) ==
  /\ answer' = << >> /\ UNCHANGED mode
  /\ mode # 0 /\ Len(asked') = Len(others) + 1
  /\ asked' = Append(others, Question("remove", k, v, reading))
  /\ k \notin DOMAIN map
  /\ UNCHANGED <<map, order>>

AnswerMiss(v) ==
  LET q == Last(asked) IN
  /\ asked # << >> /\ q.kind = "miss"
  /\ \/ /\ asked' = Front(asked)
        /\ answer' = <<v>>
        /\ map' = With(map, q.key, v)
        /\ order' = Inserted(order, q.key)
        /\ UNCHANGED mode
     \/ Consult(q.key, v, TRUE, Front(asked))

Keep(q) == /\ map' = With(map, q.key, q.value)
           /\ order' = Inserted(order, q.key)

(* Nothing is inserted when there was no eldest to drive out.              *)
DriveOut(q) ==
  IF q.eldest = Null THEN UNCHANGED <<map, order>>
  ELSE /\ map' = With(Dropped(map, q.eldest), q.key, q.value)
       /\ order' = Inserted(Without(q.eldest), q.key)

AnswerRemove ==
  LET q == Last(asked) IN
  /\ asked # << >> /\ q.kind = "remove"
  /\ asked' = Front(asked)
  /\ answer' = <<Told(q)>>
  /\ UNCHANGED mode
  /\ Keep(q) \/ DriveOut(q)

Refuse ==
  LET q == Last(asked) IN
  /\ asked # << >>
  /\ asked' = Front(asked)
  /\ answer' = <<IF q.reading THEN q.value ELSE FALSE>>
  /\ UNCHANGED <<mode, map, order>>

Next == \/ /\ UNCHANGED asked
           /\ \/ \E k \in Keys : Has(k) \/ Get(k)
              \/ List
              \/ \E k \in Keys : Delete(k) \/ \E v \in Values : Set(k, v)
              \/ Clear
              \/ Copy
        \/ \E k \in Keys : \/ Miss(k)
                           \/ \E v \in Values : Consult(k, v, FALSE, asked)
        \/ \E v \in Values : AnswerMiss(v)
        \/ AnswerRemove
        \/ Refuse

Spec == Init /\ [][Next]_vars
=============================================================================
