--------------------------- MODULE MCSandboxLease ---------------------------
(* Instance: a creation, two commands and a close that overlap.            *)
EXTENDS SandboxLease, TLC

CONSTANTS c, x, y, d

Ops == [r \in Request |-> CASE r = c -> "create" [] r \in {x, y} -> "exec" [] r = d -> "close"]

Symmetry == Permutations({x, y})
=============================================================================
