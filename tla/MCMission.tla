----------------------------- MODULE MCMission -----------------------------
(* Instance: a task with a model execution and one with a capability, and  *)
(* one disposition at a time; the theorems are for any number of each.     *)
EXTENDS Mission

CONSTANTS t1, t2, d1
=============================================================================
