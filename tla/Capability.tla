----------------------------- MODULE Capability -----------------------------
(***************************************************************************)
(* One capability grant: capt_runtime/aggregates/capability.py and the     *)
(* calls of capt_runtime/services.py that change it (issue_grant,          *)
(* activate_lease, reserve_use, finalize_use, revoke).  A grant is issued, *)
(* narrowed to a lease, and each consequential use is reserved before its  *)
(* effect and finalized after it.                                          *)
(*                                                                         *)
(* A call is one step on the current state: StoreImplementsAtomicLedger    *)
(* (EventStore_proofs) is what justifies it.  What a caller fixed earlier  *)
(* stays an input: the time stamp of a command is the time it was written, *)
(* not the time it commits.  The scope of a lease narrows like its         *)
(* operations and is left out: reserve compares the lease's scope with     *)
(* itself.                                                                 *)
(***************************************************************************)
EXTENDS Naturals, Sequences, FiniteSets

CONSTANTS
  Reservation,   \* reservation ids
  Operation,     \* operations a use can be for
  Grant,         \* terms of the grant: [operations, max, from, until]
  Leases,        \* the terms of leases callers ask for, of the same shape
  None,
  MaxTime,       \* bound on the clock
  MaxIssues      \* bound on issue_grant calls for this grantId

Outcome == {"succeeded", "failed", "indeterminate"}

(* Stages of the idempotency keys callers use for one reservation.  The    *)
(* broker finalizes under one key, its recovery under others.              *)
Stage == {"reserve-capability", "finalize-capability", "reconcile-capability"}

(* maxUses is null or at least 1 (contracts/schema/capability.schema.json). *)
Terms == [operations : SUBSET Operation, max : (Nat \ {0}) \cup {None},
          from : Nat, until : Nat]

ASSUME CapabilityAssumption ==
  /\ Grant \in Terms
  /\ Leases \subseteq Terms
  /\ None \notin Nat \cup Terms \cup [operation : Operation, at : Nat]
  /\ MaxTime \in Nat /\ MaxIssues \in Nat

VARIABLES
  grantState,
  lease,         \* terms of the activated lease, or None
  leaseState,    \* state["lease"]["state"]
  revoked,       \* state["revocation"] is not None
  used,          \* usesConsumed
  reservation,   \* reservation[r]: its state
  reservedFor,   \* what reservation r was made for and when, or None
  consumptions,  \* the audited consumptions, oldest first
  known,         \* idempotency keys of committed calls
  now, issues

leaseVars == <<grantState, lease, leaseState, revoked>>
useVars == <<used, reservation, reservedFor, consumptions>>
capVars == <<leaseVars, useVars, known, now, issues>>

CapInit ==
  /\ grantState = "absent"
  /\ lease = None
  /\ leaseState = "none"
  /\ revoked = FALSE
  /\ used = 0
  /\ reservation = [r \in Reservation |-> "none"]
  /\ reservedFor = [r \in Reservation |-> None]
  /\ consumptions = <<>>
  /\ known = {}
  /\ now = 0
  /\ issues = 0
-----------------------------------------------------------------------------
(* issue_grant writes a fresh aggregate and does not ask whether the       *)
(* stream already holds one.                                               *)
Issue ==
  /\ issues < MaxIssues /\ issues' = issues + 1
  /\ grantState' = "granted"
  /\ lease' = None
  /\ leaseState' = "none"
  /\ revoked' = FALSE
  /\ used' = 0
  /\ reservation' = [r \in Reservation |-> "none"]
  /\ reservedFor' = [r \in Reservation |-> None]
  /\ consumptions' = <<>>
  /\ UNCHANGED <<known, now>>

(* A lease may only narrow its grant. *)
Narrows(l) ==
  /\ l.operations \subseteq Grant.operations
  /\ l.from >= Grant.from /\ l.until <= Grant.until
  /\ Grant.max # None => l.max # None /\ l.max <= Grant.max

ActivateLease(l) ==
  /\ grantState = "granted" /\ ~revoked
  /\ Narrows(l)
  /\ grantState' = "leased"
  /\ lease' = l
  /\ leaseState' = "active"
  /\ UNCHANGED <<revoked, useVars, known, now, issues>>

EffectiveMax == IF lease # None /\ lease.max # None THEN lease.max ELSE Grant.max
Exhausts(n) == EffectiveMax # None /\ n >= EffectiveMax

\* Mutant: only the lease's own state is looked at, not the use count.
CheckLease_NoBudget(op, at) ==
  /\ ~revoked
  /\ leaseState # "none"
  /\ lease.from <= at /\ at <= lease.until /\ at <= Grant.until
  /\ op \in lease.operations

\* check_lease at time "at": every way of being denied.
CheckLease(op, at) ==
  /\ ~revoked
  /\ leaseState = "active"
  /\ lease.from <= at /\ at <= lease.until /\ at <= Grant.until
  /\ op \in lease.operations
  /\ ~Exhausts(used)

CanReserve(r, op, at) == CheckLease(op, at) /\ reservation[r] = "none"

(* The use itself is not counted here. *)
Reserve(r, op, at) ==
  /\ reservation' = [reservation EXCEPT ![r] = "open"]
  /\ reservedFor' = [reservedFor EXCEPT ![r] = [operation |-> op, at |-> at]]
  /\ UNCHANGED <<leaseVars, used, consumptions>>

\* Mutant: a reservation that was already settled is settled again.
CanFinalize_Again(r) == reservation[r] # "none"

CanFinalize(r) == reservation[r] = "open"

(* The outcomes that consume a use. *)
Counted == {"succeeded", "indeterminate"}

(* Reaching the maximum ends the lease, whatever state it was in. *)
Stop(n) ==
  IF Exhausts(n)
  THEN /\ grantState' = "consumed"
       /\ leaseState' = IF lease = None THEN leaseState ELSE "exhausted"
  ELSE UNCHANGED <<grantState, leaseState>>

Finalize(r, outcome) ==
  LET n == used + (IF outcome \in Counted THEN 1 ELSE 0) IN
  /\ reservation' = [reservation EXCEPT ![r] =
       IF outcome = "indeterminate" THEN "awaiting_reconciliation" ELSE "finalized"]
  /\ consumptions' = Append(consumptions, [reservation |-> r, outcome |-> outcome])
  /\ used' = n
  /\ Stop(n)
  /\ UNCHANGED <<lease, revoked, reservedFor>>

(* One transition for grant and lease; a second revocation is refused.     *)
(* A revocation aimed at a lease needs one to exist.                       *)
Revoke(target) ==
  /\ grantState # "absent" /\ ~revoked
  /\ target = "lease" => lease # None
  /\ grantState' = "revoked"
  /\ revoked' = TRUE
  /\ leaseState' = IF lease = None THEN leaseState ELSE "revoked"
  /\ UNCHANGED <<lease, useVars, known, now, issues>>
-----------------------------------------------------------------------------
(* The services that look their key up first answer a known key without    *)
(* touching the aggregate.                                                 *)
Learn(r, stage) == <<r, stage>> \notin known /\ known' = known \cup {<<r, stage>>}

ReserveUse(r, op) ==
  /\ Learn(r, "reserve-capability")
  /\ \E at \in 0..now : CanReserve(r, op, at) /\ Reserve(r, op, at)
  /\ UNCHANGED <<now, issues>>

FinalizeUse(r, stage, outcome) ==
  /\ Learn(r, stage)
  /\ CanFinalize(r)
  /\ Finalize(r, outcome)
  /\ UNCHANGED <<now, issues>>

Tick ==
  /\ now < MaxTime /\ now' = now + 1
  /\ UNCHANGED <<leaseVars, useVars, known, issues>>

CapNext ==
  \/ Issue
  \/ \E l \in Leases : ActivateLease(l)
  \/ \E r \in Reservation, op \in Operation : ReserveUse(r, op)
  \/ \E r \in Reservation, stage \in Stage \ {"reserve-capability"}, o \in Outcome :
       FinalizeUse(r, stage, o)
  \/ \E target \in {"grant", "lease"} : Revoke(target)
  \/ Tick

CapSpec == CapInit /\ [][CapNext]_capVars
-----------------------------------------------------------------------------
ReservationState == {"none", "open", "finalized", "awaiting_reconciliation"}

(* Types; a lease exists exactly when it has a state. *)
GrantTypeOK ==
  /\ grantState \in {"absent", "granted", "leased", "consumed", "revoked"}
  /\ lease \in Leases \cup {None}
  /\ leaseState \in {"none", "active", "exhausted", "revoked"}
  /\ lease = None <=> leaseState = "none"
  /\ revoked \in BOOLEAN
  /\ used \in Nat
  /\ reservation \in [Reservation -> ReservationState]
  /\ reservedFor \in [Reservation -> [operation : Operation, at : Nat] \cup {None}]
  /\ consumptions \in Seq([reservation : Reservation, outcome : Outcome])
  /\ now \in Nat /\ issues \in Nat

CapTypeOK == GrantTypeOK /\ known \subseteq Reservation \X Stage

(* Whatever lease it was made under, a reservation is for an operation of   *)
(* the grant, at a time inside the grant's window (activate_lease, then     *)
(* reserve: neither check is enough alone).                                 *)
ReservedWithinGrant ==
  \A r \in Reservation : reservedFor[r] # None =>
    /\ reservedFor[r].operation \in Grant.operations
    /\ Grant.from <= reservedFor[r].at /\ reservedFor[r].at <= Grant.until

(* The audit trail balances: every settled reservation has exactly one      *)
(* consumption and an unsettled one has none, although the broker and its   *)
(* recovery settle under different keys; and the use count is the number of *)
(* consumptions that were not known to have failed.                         *)
ConsumptionBalance ==
  LET At(r) == {i \in DOMAIN consumptions : consumptions[i].reservation = r} IN
  /\ \A r \in Reservation :
       Cardinality(At(r)) = IF reservation[r] \in {"none", "open"} THEN 0 ELSE 1
  /\ used = Cardinality({i \in DOMAIN consumptions :
                consumptions[i].outcome \in {"succeeded", "indeterminate"}})

(* An active lease is one a use can still be reserved on: its grant is not  *)
(* revoked and the uses already consumed leave room.  The maximum that      *)
(* finalize compares with is the one check_lease compares with.             *)
ActiveMeansBudget == leaseState = "active" => ~revoked /\ ~Exhausts(used)

(* Authority that has ended stays ended: from the step that revokes or      *)
(* exhausts a lease on, no reservation is opened, however settlements of    *)
(* reservations still open rewrite the states, until the grant is issued    *)
(* again (check_lease, finalize, revoke).                                   *)
Ended == revoked \/ leaseState \in {"exhausted", "revoked"}
Opens == \E r \in Reservation : reservation[r] = "none" /\ reservation'[r] = "open"

AuthorityStops == [][Ended => ~Opens /\ (Ended' \/ issues' # issues)]_capVars

(* What makes these inductive: the terms the lease was activated on, and    *)
(* that a grant not yet leased has no use and no reservation behind it.     *)
LeaseNarrows == lease # None => Narrows(lease)

GrantedIsFresh ==
  grantState = "granted" =>
    /\ lease = None /\ ~revoked /\ used = 0
    /\ \A r \in Reservation : reservation[r] = "none"

GrantInv ==
  /\ GrantTypeOK
  /\ LeaseNarrows
  /\ GrantedIsFresh
  /\ ReservedWithinGrant
  /\ ActiveMeansBudget

CapInv == GrantInv /\ CapTypeOK

(* ADR-0107: reserve increments usesConsumed immediately, before the        *)
(* effect, so uses promised and uses consumed never exceed the maximum.     *)
BudgetHeldByReservations ==
  LET open == {r \in Reservation : reservation[r] = "open"} IN
  leaseState # "none" /\ EffectiveMax # None => used + Cardinality(open) <= EffectiveMax

(* ADR-0107: "Revocation is terminal and irreversible"; revoke's docstring  *)
(* says the same of the state the transition leads to.                      *)
RevocationTerminal == [][grantState = "revoked" => grantState' = "revoked"]_capVars
=============================================================================
