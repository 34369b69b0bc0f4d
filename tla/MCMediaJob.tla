----------------------------- MODULE MCMediaJob -----------------------------
(* Instance: three threads, so that two polls and a download, or two       *)
(* submissions and a poll, overlap; two restarts.                          *)
EXTENDS MediaJob, TLC

CONSTANTS w1, w2, w3

Symmetry == Permutations({w1, w2, w3})
=============================================================================
