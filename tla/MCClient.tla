------------------------------ MODULE MCClient ------------------------------
(* Values for the constants of Client, for TLC.                            *)
EXTENDS Client, TLC

CONSTANTS q1, q2, p1, p2, p3

Symmetry == Permutations(Requests) \cup Permutations(Pairs)
=============================================================================
