----------------------------- MODULE Variables -----------------------------
(***************************************************************************)
(* What a script may take a variable to be, whatever cells and tables the  *)
(* VM uses for it: a value, and the places it is known under.  A place is  *)
(* a name in one scope, or an argument of one activation.  Passing a       *)
(* variable by reference gives it one more place; an assignment through    *)
(* any place is seen through all of them; binding a place to something     *)
(* else takes that place from its variable and leaves the others alone.    *)
(***************************************************************************)

Variable(ps, v) == [places |-> ps, value |-> v]

\* The variables without the places ps; one that has no place left is gone.
Without(vs, ps) ==
    {x \in {[x EXCEPT !.places = @ \ ps] : x \in vs} : x.places # {}}

\* Place p is bound to a new variable.
Fresh(vs, p, v) == Without(vs, {p}) \cup {Variable({p}, v)}

\* The variable at p gets the value v; if there is none it comes to be.
Assigned(vs, p, v) ==
    IF \E x \in vs : p \in x.places
    THEN {IF p \in x.places THEN [x EXCEPT !.value = v] ELSE x : x \in vs}
    ELSE Fresh(vs, p, v)

\* Place p becomes one more place of the variable at q.
Joined(vs, p, q) ==
    IF p = q THEN vs
    ELSE {IF q \in x.places THEN [x EXCEPT !.places = @ \cup {p}] ELSE x :
             x \in Without(vs, {p})}

=============================================================================
