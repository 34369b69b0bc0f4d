---------------------------- MODULE MCCheckpoint ----------------------------
(* Instance: one command, repeated, over two grants.                       *)
EXTENDS Checkpoint, TLC

CONSTANTS g1, g2, t1

Symmetry == Permutations({g1, g2})
=============================================================================
