---------------------------- MODULE Lexicographic ----------------------------
(* The lexicographic order of tuples of natural numbers.                   *)
EXTENDS Naturals

\* m is below n: it is smaller at the first place at which they differ.
Descends(m, n) ==
    \E i \in DOMAIN n : m[i] < n[i] /\ \A j \in 1 .. (i - 1) : m[j] = n[j]
=============================================================================
