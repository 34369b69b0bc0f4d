---------------------------- MODULE MCEventStore ----------------------------
(***************************************************************************)
(* Small instances of EventStore.  Stream s1 is shared by all event        *)
(* commands; a1 also appends to s2.  a2 is a retry of a1 (same key, same   *)
(* fingerprint, new commandId), a3 reuses the key for another operation, b *)
(* competes for s1, and m is claimed around an external effect.            *)
(***************************************************************************)
EXTENDS EventStore, TLC

CONSTANTS p1, p2, s1, s2, a1, a2, a3, b, m, ka, kb, km, fa, fx, fb, fm

MCKeyOf ==
  [c \in Cmd |-> CASE c \in {a1, a2, a3} -> ka [] c = b -> kb [] OTHER -> km]
MCFpOf ==
  [c \in Cmd |-> CASE c \in {a1, a2} -> fa [] c = a3 -> fx [] c = b -> fb [] OTHER -> fm]
MCStreamsOf ==
  [c \in Cmd |-> CASE c \in {a1, a2} -> <<s2, s1>> [] c \in {a3, b} -> <<s1>> [] OTHER -> <<>>]

\* A transition that has been made is not legal again, and a's leads to a
\* terminal state (revoked, failed, denied, ...): after it nothing is legal.
MCLegal(c, h) == \A i \in DOMAIN h : KeyOf[h[i]] \notin {KeyOf[c], ka}

Symmetry == Permutations(Proc)
=============================================================================
