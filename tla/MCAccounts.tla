----------------------------- MODULE MCAccounts ------------------------------
(* A small instance of Accounts.                                             *)
EXTENDS Accounts, TLC

CONSTANTS u1, u2, t1, n1, q1, q2

Symmetry == Permutations(Requests) \cup Permutations(Users)
=============================================================================
