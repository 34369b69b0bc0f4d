---------------------------- MODULE MCCapability ----------------------------
(* Instance: a grant of one operation for two uses in the window 1..2 of a     *)
(* clock that runs 0..3, so that commands come too early and too late;     *)
(* leases that narrow it, that keep it, and that widen each of its terms.  *)
EXTENDS Capability, TLC

CONSTANTS r1, r2, r3, write, other

MCTerms(operations, max, from, until) ==
  [operations |-> operations, max |-> max, from |-> from, until |-> until]

MCGrant == MCTerms({write}, 2, 1, 2)

MCLeases ==
  {MCTerms({write}, 1, 1, 2), MCTerms({write}, 2, 2, 2),
   MCTerms({write, other}, 2, 1, 2), MCTerms({write}, None, 1, 2),
   MCTerms({write}, 2, 0, 2), MCTerms({write}, 2, 1, 3)}

Symmetry == Permutations({r1, r2, r3})
=============================================================================
