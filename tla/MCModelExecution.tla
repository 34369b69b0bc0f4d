------------------------- MODULE MCModelExecution -------------------------
(* Instance: two threads and two commands for one approval of two provider *)
(* requests, so that a command can be sent twice at once, two commands can *)
(* race for the approval and the driver can ask again; two crashes, the    *)
(* second also during recovery.                                            *)
EXTENDS ModelExecution

CONSTANTS w1, w2, c1, c2
=============================================================================
