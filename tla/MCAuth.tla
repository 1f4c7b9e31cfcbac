------------------------------- MODULE MCAuth -------------------------------
(* A small instance of Auth: two threads, two keys.                         *)
EXTENDS Auth, TLC

CONSTANTS q1, q2, k1, k2

\* Requests are interchangeable.
Symmetry == Permutations(Requests)
=============================================================================
