-------------------------- MODULE MCOperatorControl --------------------------
(* Instance: two threads, two submissions that compete for the document, a *)
(* selection and an attempt, two settings that differ in their mode.       *)
EXTENDS OperatorControl, TLC

CONSTANTS w1, w2, s1, s2, a1, d1, x

Symmetry == Permutations({w1, w2}) \cup Permutations({s1, s2})
=============================================================================
