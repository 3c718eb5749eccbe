----------------------------- MODULE Subsequences -----------------------------
(***************************************************************************)
(* What a loop over a sequence that skips some elements collects.          *)
(***************************************************************************)
EXTENDS Naturals, FiniteSets

(* Those of the numbers in S that are at most i; the n-th number in S.     *)
UpTo(S, i) == {j \in S : j <= i}
Nth(S, n) == CHOOSE i \in S : Cardinality(UpTo(S, i)) = n

(* The elements of s that are in T, in their order.                        *)
Only(s, T) ==
  LET at == {i \in DOMAIN s : s[i] \in T}
  IN [n \in 1..Cardinality(at) |-> s[Nth(at, n)]]
=============================================================================
