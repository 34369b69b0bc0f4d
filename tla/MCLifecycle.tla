---------------------------- MODULE MCLifecycle ----------------------------
(* Instance: two calls at a time, two lifecycle operations and one         *)
(* transaction begun by a tool, under one or two keys.                     *)
EXTENDS Lifecycle, TLC

CONSTANTS c1, c2, l1, l2, x, k1, k2

Symmetry == Permutations({c1, c2}) \cup Permutations({l1, l2}) \cup Permutations({k1, k2})
=============================================================================
