---------------------------- MODULE MCToolBroker ----------------------------
(* Instance: two executions competing for a lease of one use, so that one  *)
(* is denied, or of two, so that they only meet in each other's commits.   *)
EXTENDS ToolBroker

CONSTANTS w1, w2, boot, x1, x2, write, cap

MCLease(max) == [operations |-> {write}, max |-> max, from |-> 0, until |-> 0]
MCGrant == MCLease(2)
MCLeases == {MCLease(1), MCLease(2)}
=============================================================================
