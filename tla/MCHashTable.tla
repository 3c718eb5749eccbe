---------------------------- MODULE MCHashTable ----------------------------
(* Instances of HashPolicies for TLC: two keys of one bucket at the end of *)
(* the table, so that their probes wrap around, and one that they run into.*)
EXTENDS HashPolicies
CONSTANTS kLast, kSame, kFirst, vNull, vTrue
MCKeys == {kLast, kSame, kFirst}
MCValues == {vNull, vTrue}
MCSymmetry == Permutations({kLast, kSame})
(* What was answered has no effect on what follows.                        *)
MCView == <<hash, policies, pending, limited>>
MCHome == [k \in MCKeys |-> IF k = kFirst THEN 0 ELSE 7]
=============================================================================
