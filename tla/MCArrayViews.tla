---------------------------- MODULE MCArrayViews ----------------------------
(* Instances of ArrayViews for TLC: an array of distinct elements, one new *)
(* value.                                                                  *)
EXTENDS ArrayViews
CONSTANTS vA, vB, vC, vNew, vNull
MCValues == {vNew}
MCStart == <<vA, vB, vC>>
MCOrder == <<vB, vNew, vA, vC, vNull>>
=============================================================================
