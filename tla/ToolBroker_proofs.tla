-------------------------- MODULE ToolBroker_proofs --------------------------
(***************************************************************************)
(* Proofs about the capability grant by itself (CapSpec), about the grant  *)
(* as the threads of the broker use it (Spec), and about the executions    *)
(* that spend it: for every grant, lease and clock and for any number of   *)
(* reservations, threads and crashes.                                      *)
(***************************************************************************)
EXTENDS ToolBroker, FiniteSetTheorems, TLAPS

(* An absent grant satisfies the inductive invariant. *)
LEMMA CapInitInv == CapInit => CapInv
<1> SUFFICES ASSUME CapInit PROVE CapInv
  OBVIOUS
<1>1. consumptions \in Seq([reservation : Reservation, outcome : Outcome])
  BY DEF CapInit
<1>2. GrantTypeOK
  BY <1>1 DEF CapInit, GrantTypeOK, ReservationState
<1>3. LeaseNarrows /\ GrantedIsFresh /\ ReservedWithinGrant /\ ActiveMeansBudget
  BY DEF CapInit, LeaseNarrows, GrantedIsFresh, ReservedWithinGrant, ActiveMeansBudget
<1> QED
  BY <1>2, <1>3 DEF CapInit, CapInv, CapTypeOK, GrantInv

(* issue_grant keeps the invariant, whatever it overwrites. *)
LEMMA IssueInv ==
  ASSUME GrantInv, Issue PROVE GrantInv'
<1>1. consumptions' \in Seq([reservation : Reservation, outcome : Outcome])
  BY DEF Issue
<1>2. /\ reservation' \in [Reservation -> ReservationState]
      /\ reservedFor' \in [Reservation -> [operation : Operation, at : Nat] \cup {None}]
  BY DEF Issue, ReservationState
<1>3. now' \in Nat /\ issues' \in Nat
  BY DEF GrantInv, Issue, GrantTypeOK
<1>4. /\ grantState' = "granted" /\ lease' = None /\ leaseState' = "none"
      /\ revoked' = FALSE /\ used' = 0
  BY DEF Issue
<1>5. GrantTypeOK'
  BY <1>1, <1>2, <1>3, <1>4 DEF GrantTypeOK
<1>6. LeaseNarrows' /\ GrantedIsFresh' /\ ReservedWithinGrant' /\ ActiveMeansBudget'
  BY DEF Issue, LeaseNarrows, GrantedIsFresh, ReservedWithinGrant, ActiveMeansBudget
<1> QED
  BY <1>5, <1>6 DEF GrantInv

(* activate_lease makes a lease that narrows the grant and has uses left.   *)
LEMMA ActivateInv ==
  ASSUME GrantInv, NEW l \in Leases, ActivateLease(l) PROVE GrantInv'
<1>1. GrantTypeOK'
  BY CapabilityAssumption DEF GrantInv, ActivateLease, GrantTypeOK, useVars
<1>2. LeaseNarrows' /\ GrantedIsFresh' /\ ReservedWithinGrant'
  BY DEF GrantInv, ActivateLease, LeaseNarrows, GrantedIsFresh, ReservedWithinGrant,
         Narrows, useVars
<1>3. ActiveMeansBudget'
  <2>1. used' = 0 /\ revoked' = FALSE
    BY DEF GrantInv, ActivateLease, GrantedIsFresh, GrantTypeOK, useVars
  <2>2. EffectiveMax' # 0
    BY <1>1, CapabilityAssumption DEF GrantTypeOK, EffectiveMax, Terms
  <2>3. EffectiveMax' # None => EffectiveMax' \in Nat
    BY <1>1, CapabilityAssumption DEF GrantTypeOK, EffectiveMax, Terms
  <2> QED
    BY <2>1, <2>2, <2>3 DEF ActiveMeansBudget, Exhausts
<1> QED
  BY <1>1, <1>2, <1>3 DEF GrantInv

(* A reservation is made under the lease, hence the grant. *)
LEMMA ReserveInv ==
  ASSUME GrantInv, NEW r \in Reservation, NEW op \in Operation, NEW at \in Nat,
         CanReserve(r, op, at), Reserve(r, op, at), UNCHANGED <<now, issues>>
  PROVE  GrantInv'
<1>1. GrantTypeOK'
  BY DEF GrantInv, GrantTypeOK, Reserve, leaseVars, ReservationState
<1>2. leaseState = "active" /\ lease # None /\ lease \in Terms /\ Narrows(lease)
  BY CapabilityAssumption DEF GrantInv, GrantTypeOK, LeaseNarrows, CanReserve, CheckLease
<1>3. LeaseNarrows' /\ ActiveMeansBudget'
  BY DEF GrantInv, Reserve, LeaseNarrows, Narrows, ActiveMeansBudget, Exhausts, EffectiveMax,
         leaseVars
<1>4. GrantedIsFresh'
  BY <1>2 DEF GrantInv, Reserve, GrantedIsFresh, leaseVars
<1>5. op \in Grant.operations /\ Grant.from <= at /\ at <= Grant.until
  BY <1>2, CapabilityAssumption DEF CanReserve, CheckLease, Narrows, Terms
<1>6. ReservedWithinGrant'
  BY <1>5 DEF GrantInv, Reserve, ReservedWithinGrant, GrantTypeOK
<1> QED
  BY <1>1, <1>3, <1>4, <1>6 DEF GrantInv

(* finalize ends the lease in the very step that reaches its maximum.       *)
LEMMA FinalizeInv ==
  ASSUME GrantInv, NEW r \in Reservation, NEW o \in Outcome,
         CanFinalize(r), Finalize(r, o), UNCHANGED <<now, issues>>
  PROVE  GrantInv'
<1> DEFINE n == used + (IF o \in Counted THEN 1 ELSE 0)
<1>1. n \in Nat /\ used' = n /\ Stop(n)
  BY DEF Finalize, GrantInv, GrantTypeOK
<1>2. lease' = lease /\ revoked' = revoked /\ reservedFor' = reservedFor
  BY DEF Finalize
<1>3. GrantTypeOK'
  <2>1. used' \in Nat
    BY <1>1
  <2>2. /\ grantState' \in {"absent", "granted", "leased", "consumed", "revoked"}
        /\ leaseState' \in {"none", "active", "exhausted", "revoked"}
        /\ lease' = None <=> leaseState' = "none"
    BY <1>1, <1>2 DEF Stop, GrantInv, GrantTypeOK
  <2>3. reservation' \in [Reservation -> ReservationState]
    BY DEF Finalize, GrantInv, GrantTypeOK, ReservationState
  <2>4. consumptions' \in Seq([reservation : Reservation, outcome : Outcome])
    BY DEF Finalize, GrantInv, GrantTypeOK
  <2> QED
    BY <1>2, <2>1, <2>2, <2>3, <2>4 DEF GrantTypeOK, GrantInv
<1>4. LeaseNarrows' /\ ReservedWithinGrant'
  BY <1>2 DEF GrantInv, LeaseNarrows, ReservedWithinGrant, Narrows
<1>5. GrantedIsFresh'
  <2>1. grantState # "granted"
    BY DEF CanFinalize, GrantInv, GrantedIsFresh
  <2>2. grantState' # "granted"
    BY <1>1, <2>1 DEF Stop
  <2> QED
    BY <2>2 DEF GrantedIsFresh
<1>6. ActiveMeansBudget'
  <2>2. EffectiveMax' = EffectiveMax
    BY <1>2 DEF EffectiveMax
  <2>3. leaseState' = "active" => leaseState = "active" /\ ~Exhausts(n)
    BY <1>1 DEF Stop, GrantInv, GrantTypeOK
  <2> QED
    BY <1>1, <1>2, <2>2, <2>3 DEF ActiveMeansBudget, GrantInv, Exhausts
<1> QED
  BY <1>3, <1>4, <1>5, <1>6 DEF GrantInv

(* revoke and the clock keep the invariant. *)
LEMMA RevokeInv ==
  ASSUME GrantInv, NEW target \in {"grant", "lease"}, Revoke(target) PROVE GrantInv'
BY DEF GrantInv, Revoke, GrantTypeOK, LeaseNarrows, Narrows, GrantedIsFresh,
       ReservedWithinGrant, ActiveMeansBudget, useVars

(* A step that changes nothing of the grant. *)
LEMMA IdleInv ==
  ASSUME GrantInv, UNCHANGED <<leaseVars, useVars, issues>>, now' \in Nat
  PROVE  GrantInv'
BY DEF GrantInv, GrantTypeOK, LeaseNarrows, Narrows, GrantedIsFresh, ReservedWithinGrant,
       ActiveMeansBudget, Exhausts, EffectiveMax, leaseVars, useVars

(* What one step may do to the grant, whoever takes it and under whatever   *)
(* key it is recorded.                                                      *)
Spends(r) ==
  /\ \/ \E op \in Operation, at \in 0..now : CanReserve(r, op, at) /\ Reserve(r, op, at)
     \/ \E o \in Outcome : CanFinalize(r) /\ Finalize(r, o)
  /\ UNCHANGED <<now, issues>>

GrantStep ==
  \/ Issue
  \/ \E l \in Leases : ActivateLease(l)
  \/ \E r \in Reservation : Spends(r)
  \/ \E target \in {"grant", "lease"} : Revoke(target)
  \/ UNCHANGED <<leaseVars, useVars, issues>> /\ now' \in Nat

(* Every such step keeps the invariant of the grant. *)
LEMMA GrantStepInv ==
  ASSUME GrantInv, GrantStep PROVE GrantInv'
<1>1. ASSUME NEW r \in Reservation, Spends(r) PROVE GrantInv'
  <2>1. CASE \E op \in Operation, at \in 0..now : CanReserve(r, op, at) /\ Reserve(r, op, at)
    <3>1. PICK op \in Operation, at \in 0..now : CanReserve(r, op, at) /\ Reserve(r, op, at)
      BY <2>1
    <3>2. at \in Nat
      BY DEF GrantInv, GrantTypeOK
    <3> QED
      BY <1>1, <3>1, <3>2, ReserveInv DEF Spends
  <2> QED
    BY <1>1, <2>1, FinalizeInv DEF Spends
<1> QED
  BY <1>1, IssueInv, ActivateInv, RevokeInv, IdleInv DEF GrantStep

(* The steps of the grant by itself are such steps, and learn broker keys. *)
LEMMA CapNextSteps ==
  ASSUME CapTypeOK, [CapNext]_capVars
  PROVE  GrantStep /\ known' \subseteq Reservation \X Stage
<1> USE DEF CapTypeOK, GrantTypeOK
<1>1. CASE UNCHANGED capVars
  BY <1>1 DEF capVars, GrantStep
<1>2. CASE Issue \/ (\E l \in Leases : ActivateLease(l))
  BY <1>2 DEF Issue, ActivateLease, GrantStep
<1>3. ASSUME NEW r \in Reservation, NEW op \in Operation, ReserveUse(r, op)
      PROVE  GrantStep /\ known' \subseteq Reservation \X Stage
  BY <1>3 DEF ReserveUse, Learn, Stage, Spends, GrantStep
<1>4. ASSUME NEW r \in Reservation, NEW key \in Stage, NEW o \in Outcome,
             FinalizeUse(r, key, o)
      PROVE  GrantStep /\ known' \subseteq Reservation \X Stage
  BY <1>4 DEF FinalizeUse, Learn, Spends, GrantStep
<1>5. ASSUME NEW target \in {"grant", "lease"}, Revoke(target)
      PROVE  GrantStep /\ known' \subseteq Reservation \X Stage
  BY <1>5 DEF Revoke, GrantStep
<1>6. CASE Tick
  BY <1>6 DEF Tick, GrantStep
<1> QED
  BY <1>1, <1>2, <1>3, <1>4, <1>5, <1>6 DEF CapNext

(* Every step of the grant keeps the invariant. *)
LEMMA CapNextInv == CapInv /\ [CapNext]_capVars => CapInv'
<1> SUFFICES ASSUME CapInv, [CapNext]_capVars PROVE CapInv'
  OBVIOUS
<1>1. GrantInv' /\ known' \subseteq Reservation \X Stage
  BY CapNextSteps, GrantStepInv DEF CapInv
<1> QED
  BY <1>1 DEF CapInv, CapTypeOK, GrantInv

(* Every reachable grant is well typed (all fields of the aggregate). *)
THEOREM CapTypeCorrect == CapSpec => []CapTypeOK
<1>1. CapInv => CapTypeOK
  BY DEF CapInv
<1> QED
  BY <1>1, CapInitInv, CapNextInv, PTL DEF CapSpec

(* Whatever leases are asked for and however stale the time stamps of       *)
(* commands are, every reservation is for an operation of the grant inside  *)
(* the grant's window (activate_lease, reserve).                            *)
THEOREM ReservationsWithinGrant == CapSpec => []ReservedWithinGrant
<1>1. CapInv => ReservedWithinGrant
  BY DEF CapInv, GrantInv
<1> QED
  BY <1>1, CapInitInv, CapNextInv, PTL DEF CapSpec

(* An active lease always has a use left and an unrevoked grant behind it   *)
(* (finalize, revoke).                                                      *)
THEOREM ActiveLeaseHasBudget == CapSpec => []ActiveMeansBudget
<1>1. CapInv => ActiveMeansBudget
  BY DEF CapInv, GrantInv
<1> QED
  BY <1>1, CapInitInv, CapNextInv, PTL DEF CapSpec

(* Authority that has ended opens nothing, and only issuing restores it. *)
StopsHere == Ended => ~Opens /\ (Ended' \/ issues' # issues)

LEMMA GrantStepStops ==
  ASSUME GrantInv, GrantStep PROVE StopsHere
<1> SUFFICES ASSUME Ended PROVE ~Opens /\ (Ended' \/ issues' # issues)
  BY DEF StopsHere
<1>1. CASE Issue
  BY <1>1 DEF Issue, Opens, GrantInv, GrantTypeOK
<1>2. ASSUME NEW l \in Leases, ActivateLease(l) PROVE FALSE
  BY <1>2 DEF ActivateLease, Ended, GrantInv, GrantedIsFresh, GrantTypeOK
<1>3. ASSUME NEW r \in Reservation, Spends(r) PROVE ~Opens /\ Ended'
  <2>1. PICK o \in Outcome : CanFinalize(r) /\ Finalize(r, o)
    BY <1>3 DEF Spends, CanReserve, CheckLease, Ended
  <2>2. ~Opens
    BY <2>1 DEF Finalize, Opens, GrantInv, GrantTypeOK
  <2>3. Ended'
    BY <2>1 DEF Finalize, Stop, Ended, GrantInv, GrantTypeOK
  <2> QED
    BY <2>2, <2>3
<1>4. ASSUME NEW target \in {"grant", "lease"}, Revoke(target) PROVE ~Opens /\ Ended'
  BY <1>4 DEF Revoke, Opens, Ended, useVars
<1>5. CASE UNCHANGED <<leaseVars, useVars, issues>>
  BY <1>5 DEF Opens, Ended, leaseVars, useVars
<1> QED
  BY <1>1, <1>2, <1>3, <1>4, <1>5 DEF GrantStep

(* Once revoked or exhausted, a grant opens no reservation until it is      *)
(* issued again (check_lease, finalize, revoke).                            *)
THEOREM EndedAuthorityStops == CapSpec => AuthorityStops
<1>1. CapInv /\ [CapNext]_capVars => [StopsHere]_capVars
  BY CapNextSteps, GrantStepStops DEF CapInv
<1>2. CapSpec => []CapInv
  BY CapInitInv, CapNextInv, PTL DEF CapSpec
<1>3. AuthorityStops <=> [][StopsHere]_capVars
  BY PTL DEF AuthorityStops, StopsHere
<1> QED
  BY <1>1, <1>2, <1>3, PTL DEF CapSpec
-----------------------------------------------------------------------------
(* The positions of a reservation's consumptions, and of those that count. *)
At(s, r) == {i \in DOMAIN s : s[i].reservation = r}
CountedAt(s) == {i \in DOMAIN s : s[i].outcome \in Counted}
Consumption == [reservation : Reservation, outcome : Outcome]

(* ConsumptionBalance, with its sets named. *)
LEMMA BalanceNamed ==
  ConsumptionBalance <=>
    /\ \A r \in Reservation :
         Cardinality(At(consumptions, r)) =
           IF reservation[r] \in {"none", "open"} THEN 0 ELSE 1
    /\ used = Cardinality(CountedAt(consumptions))
BY DEF ConsumptionBalance, At, CountedAt, Counted

(* Both sets are finite. *)
LEMMA PositionsFinite ==
  ASSUME NEW s \in Seq(Consumption), NEW r
  PROVE  IsFiniteSet(At(s, r)) /\ IsFiniteSet(CountedAt(s))
<1>1. DOMAIN s = 1..Len(s) /\ Len(s) \in Nat
  OBVIOUS
<1>2. IsFiniteSet(1..Len(s))
  BY <1>1, FS_Interval
<1>3. At(s, r) \subseteq 1..Len(s) /\ CountedAt(s) \subseteq 1..Len(s)
  BY <1>1 DEF At, CountedAt
<1> QED
  BY <1>2, <1>3, FS_Subset

(* A consumption that is appended adds its own position and no other. *)
LEMMA PositionsAppend ==
  ASSUME NEW s \in Seq(Consumption), NEW e \in Consumption, NEW r
  PROVE  /\ At(Append(s, e), r) =
              IF e.reservation = r THEN At(s, r) \cup {Len(s) + 1} ELSE At(s, r)
         /\ CountedAt(Append(s, e)) =
              IF e.outcome \in Counted THEN CountedAt(s) \cup {Len(s) + 1} ELSE CountedAt(s)
         /\ Len(s) + 1 \notin At(s, r) /\ Len(s) + 1 \notin CountedAt(s)
<1> DEFINE t == Append(s, e)
<1>1. /\ Len(s) \in Nat /\ DOMAIN s = 1..Len(s) /\ DOMAIN t = 1..(Len(s) + 1)
      /\ t[Len(s) + 1] = e /\ \A i \in 1..Len(s) : t[i] = s[i]
  OBVIOUS
<1>2. DOMAIN t = DOMAIN s \cup {Len(s) + 1} /\ Len(s) + 1 \notin DOMAIN s
  BY <1>1
<1> HIDE DEF t
<1>3. At(t, r) = IF e.reservation = r THEN At(s, r) \cup {Len(s) + 1} ELSE At(s, r)
  BY <1>1, <1>2 DEF At
<1>4. CountedAt(t) =
        IF e.outcome \in Counted THEN CountedAt(s) \cup {Len(s) + 1} ELSE CountedAt(s)
  BY <1>1, <1>2 DEF CountedAt
<1>5. Len(s) + 1 \notin At(s, r) /\ Len(s) + 1 \notin CountedAt(s)
  BY <1>2 DEF At, CountedAt
<1> QED
  BY <1>3, <1>4, <1>5 DEF t

(* finalize writes one consumption for a reservation that had none. *)
LEMMA FinalizeBalance ==
  ASSUME GrantInv, ConsumptionBalance, NEW r \in Reservation, NEW o \in Outcome,
         CanFinalize(r), Finalize(r, o)
  PROVE  ConsumptionBalance'
<1> DEFINE e == [reservation |-> r, outcome |-> o]
<1>1. /\ consumptions \in Seq(Consumption) /\ e \in Consumption
      /\ consumptions' = Append(consumptions, e)
  BY DEF GrantInv, GrantTypeOK, Consumption, Finalize
<1>2. /\ reservation[r] = "open" /\ reservation'[r] \in {"finalized", "awaiting_reconciliation"}
      /\ \A q \in Reservation \ {r} : reservation'[q] = reservation[q]
  BY DEF CanFinalize, Finalize, GrantInv, GrantTypeOK
<1>3. used \in Nat /\ used' = used + (IF o \in Counted THEN 1 ELSE 0)
  BY DEF Finalize, GrantInv, GrantTypeOK
<1>4. ASSUME NEW q \in Reservation
      PROVE  Cardinality(At(consumptions', q)) =
               IF reservation'[q] \in {"none", "open"} THEN 0 ELSE 1
  <2>1. Cardinality(At(consumptions, q)) = IF reservation[q] \in {"none", "open"} THEN 0 ELSE 1
    BY BalanceNamed
  <2>2. CASE q = r
    <3>1. At(consumptions', q) = At(consumptions, q) \cup {Len(consumptions) + 1}
      BY <1>1, <2>2, PositionsAppend
    <3>2. Len(consumptions) + 1 \notin At(consumptions, q)
      BY <1>1, PositionsAppend
    <3>3. Cardinality(At(consumptions', q)) = Cardinality(At(consumptions, q)) + 1
      BY <1>1, <3>1, <3>2, PositionsFinite, FS_AddElement
    <3> QED
      BY <1>2, <2>1, <2>2, <3>3
  <2>3. CASE q # r
    <3>1. At(consumptions', q) = At(consumptions, q)
      BY <1>1, <2>3, PositionsAppend
    <3> QED
      BY <1>2, <2>1, <2>3, <3>1
  <2> QED
    BY <2>2, <2>3
<1>5. used' = Cardinality(CountedAt(consumptions'))
  <2>1. used = Cardinality(CountedAt(consumptions))
    BY BalanceNamed
  <2>2. CASE o \in Counted
    <3>1. CountedAt(consumptions') = CountedAt(consumptions) \cup {Len(consumptions) + 1}
      BY <1>1, <2>2, PositionsAppend
    <3>2. Len(consumptions) + 1 \notin CountedAt(consumptions)
      BY <1>1, PositionsAppend
    <3>3. Cardinality(CountedAt(consumptions')) = Cardinality(CountedAt(consumptions)) + 1
      BY <1>1, <3>1, <3>2, PositionsFinite, FS_AddElement
    <3> QED
      BY <1>3, <2>1, <2>2, <3>3
  <2>3. CASE o \notin Counted
    <3>1. CountedAt(consumptions') = CountedAt(consumptions)
      BY <1>1, <2>3, PositionsAppend
    <3> QED
      BY <1>3, <2>1, <2>3, <3>1
  <2> QED
    BY <2>2, <2>3
<1> HIDE DEF e
<1> QED
  BY <1>4, <1>5 DEF ConsumptionBalance, At, CountedAt, Counted

(* issue_grant starts with empty books. *)
LEMMA EmptyBalance ==
  ASSUME consumptions = <<>>, used = 0, reservation = [r \in Reservation |-> "none"]
  PROVE  ConsumptionBalance
<1>1. \A r : At(consumptions, r) = {}
  BY DEF At
<1>2. CountedAt(consumptions) = {}
  BY DEF CountedAt
<1> QED
  BY <1>1, <1>2, FS_EmptySet, BalanceNamed

(* Whatever a step does to the grant, the books balance. *)
LEMMA GrantStepBalance ==
  ASSUME GrantInv, ConsumptionBalance, GrantStep PROVE ConsumptionBalance'
<1>1. CASE Issue
  <2>1. /\ consumptions' = <<>> /\ used' = 0
        /\ reservation' = [r \in Reservation |-> "none"]
    BY <1>1 DEF Issue
  <2>2. \A r : At(consumptions', r) = {}
    BY <2>1 DEF At
  <2>3. CountedAt(consumptions') = {}
    BY <2>1 DEF CountedAt
  <2> QED
    BY <2>1, <2>2, <2>3, FS_EmptySet DEF ConsumptionBalance, At, CountedAt, Counted
<1>2. CASE UNCHANGED <<used, consumptions, reservation>>
  BY <1>2 DEF ConsumptionBalance
<1>3. ASSUME NEW r \in Reservation, NEW op \in Operation, NEW at \in 0..now,
             CanReserve(r, op, at), Reserve(r, op, at)
      PROVE  ConsumptionBalance'
  <2>1. /\ used' = used /\ consumptions' = consumptions
        /\ reservation[r] = "none" /\ reservation' = [reservation EXCEPT ![r] = "open"]
    BY <1>3 DEF CanReserve, Reserve
  <2>2. \A q \in Reservation :
          reservation[q] \in {"none", "open"} <=> reservation'[q] \in {"none", "open"}
    BY <2>1 DEF GrantInv, GrantTypeOK
  <2> QED
    BY <2>1, <2>2 DEF ConsumptionBalance
<1>4. ASSUME NEW r \in Reservation, Spends(r) PROVE ConsumptionBalance'
  BY <1>3, <1>4, FinalizeBalance DEF Spends
<1>5. CASE \/ \E l \in Leases : ActivateLease(l)
           \/ \E target \in {"grant", "lease"} : Revoke(target)
           \/ UNCHANGED <<leaseVars, useVars, issues>>
  BY <1>2, <1>5 DEF ActivateLease, Revoke, useVars
<1> QED
  BY <1>1, <1>4, <1>5 DEF GrantStep

(* Every settled reservation has one consumption and every other none,     *)
(* under whatever keys it was settled, and the use count is the number of  *)
(* consumptions that count (reserve, finalize, issue_grant).               *)
THEOREM BooksBalance == CapSpec => []ConsumptionBalance
<1>1. CapInit => ConsumptionBalance
  BY EmptyBalance DEF CapInit
<1>2. CapInv /\ ConsumptionBalance /\ [CapNext]_capVars => ConsumptionBalance'
  BY CapNextSteps, GrantStepBalance DEF CapInv
<1>3. CapSpec => []CapInv
  BY CapInitInv, CapNextInv, PTL DEF CapSpec
<1> QED
  BY <1>1, <1>2, <1>3, PTL DEF CapSpec
-----------------------------------------------------------------------------
(* The threads of the broker.  One step of a thread inside execute() or of *)
(* recovery: it reads what a call needs, moves on without writing, or      *)
(* writes one transaction and moves on.  OwnCalls are the calls that       *)
(* append to the stream of the execution alone.                            *)
OwnCalls == {"prepare", "fail", "admit", "dispatch", "observe", "settling", "terminal"}

ReadsFor(w) ==
  \E streams \in SUBSET Stream :
    /\ seen' = [seen EXCEPT ![w] = [s \in streams |-> ver[s]]]
    /\ pc[w] = "reserve" =>
         streams = {CapStream} /\ CanReserve(cur[w], RequestOperation, now)
    /\ pc[w] = "finalize" => streams = {CapStream} /\ CanFinalize(cur[w])
    /\ pc[w] = "close" => streams = {cur[w], CapStream} /\ CanFinalize(cur[w])
    /\ pc[w] \in OwnCalls => streams = {cur[w]}

Moves(w) ==
  \/ Return(w)
  \/ \E label \in Label \ {"idle"} : Proceed(w, label)
  \/ \E label \in Label \ {"idle"}, status \in ResultStatus : ProceedWith(w, label, status)
  \/ \E key \in KeyStage : Deny(w, key)

Wrote(w, key, streams) ==
  /\ seen[w] # None /\ Current(w)
  /\ ver' = [s \in Stream |-> IF s \in streams THEN ver[s] + 1 ELSE ver[s]]
  /\ known' = known \cup {<<cur[w], key>>}

SetsTool(w) ==
  \E to \in DOMAIN Transitions \cup TerminalStates, res \in BOOLEAN, status \in ResultStatus :
    SetTool(cur[w], to, res, status)

Writes(w) ==
  \E key \in KeyStage :
    \/ Wrote(w, key, {cur[w]}) /\ SetsTool(w) /\ UNCHANGED capState
    \/ /\ pc[w] = "reserve" /\ Wrote(w, key, {CapStream})
       /\ Reserve(cur[w], RequestOperation, now) /\ UNCHANGED toolVars
    \/ /\ pc[w] = "finalize" /\ Wrote(w, key, {CapStream})
       /\ (\E o \in Outcome : Finalize(cur[w], o)) /\ UNCHANGED toolVars
    \/ /\ pc[w] = "close" /\ Wrote(w, key, {cur[w], CapStream})
       /\ Finalize(cur[w], "failed") /\ SetsTool(w)

Acts(w) ==
  /\ pc[w] # "idle"
  /\ \/ ReadsFor(w) /\ UNCHANGED <<durable, pc, cur, copy, stage, result>>
     \/ UNCHANGED durable /\ Moves(w)
     \/ Writes(w) /\ Moves(w)
  /\ invoked' = invoked \/ invoked' = [invoked EXCEPT ![cur[w]] = @ + 1]
  /\ UNCHANGED <<service, now, issues>>

(* Whatever a thread does inside execute() is such a step. *)
LEMMA ExecuteActs ==
  ASSUME TypeOK, NEW w \in Actor,
         \/ Execute(w)
         \/ Settle(w) /\ UNCHANGED <<service, invoked, now, issues>>
  PROVE  Acts(w)
<1> DEFINE x == cur[w]
<1>1. pc[w] # "idle"
  BY DEF Execute, Settle, Prepare, CheckRequest, Refuse, Close, Fail, Preflight, ReserveForUse,
     Admit, Dispatch, Effect, ObserveEffect, AdapterReturns, SettleUse, Settling, Terminate
<1>2. /\ x \in Execution /\ toolRes[x] \in BOOLEAN
      /\ result[w] \in ResultStatus /\ stage[w] \in KeyStage
      /\ {x} \subseteq Stream /\ {CapStream} \subseteq Stream /\ {x, CapStream} \subseteq Stream
  BY <1>1 DEF TypeOK, Stream
<1> DEFINE Outcomes ==
  \/ ReadsFor(w) /\ UNCHANGED <<durable, pc, cur, copy, stage, result>>
  \/ UNCHANGED durable /\ Moves(w)
  \/ Writes(w) /\ Moves(w)
<1> USE DEF Moves, Writes, ReadsFor, OwnCalls, SetsTool, Wrote, Label, KeyStage, ResultStatus,
            AdapterStatus, TerminalStates, Outcome
<1>3. ASSUME Prepare(w) \/ Fail(w) \/ Admit(w) \/ Dispatch(w) \/ ObserveEffect(w) PROVE Outcomes
  <2>1. CASE Prepare(w)
    BY <1>2, <2>1 DEF Prepare, Call, Transitions
  <2>2. CASE Fail(w)
    BY <1>2, <2>2 DEF Fail, Transition, Call, Transitions
  <2>3. CASE Admit(w)
    BY <1>2, <2>3 DEF Admit, Transition, Call, Transitions
  <2>4. CASE Dispatch(w)
    BY <1>2, <2>4 DEF Dispatch, Transition, Call, Transitions
  <2>5. CASE ObserveEffect(w)
    BY <1>2, <2>5 DEF ObserveEffect, Transition, Call, Transitions
  <2> QED
    BY <1>3, <2>1, <2>2, <2>3, <2>4, <2>5
<1>4. ASSUME Settling(w) \/ Terminate(w) PROVE Outcomes
  <2>1. CASE Settling(w)
    BY <1>2, <2>1 DEF Settling, Transition, Call, Transitions
  <2>2. CASE Terminate(w)
    <3>1. TerminalState(result[w]) \in TerminalStates
      BY DEF TerminalState
    <3> QED
      BY <1>2, <2>2, <3>1 DEF Terminate, Transition, Call, Transitions
  <2> QED
    BY <1>4, <2>1, <2>2
<1>5. ASSUME CheckRequest(w) \/ Refuse(w) \/ Preflight(w) \/ AdapterReturns(w) PROVE Outcomes
  BY <1>2, <1>5 DEF CheckRequest, Refuse, Preflight, AdapterReturns
<1>6. ASSUME ReserveForUse(w) PROVE Outcomes
  BY <1>2, <1>6 DEF ReserveForUse, Call, Stage
<1>7. ASSUME SettleUse(w) PROVE Outcomes
  <2>1. FinalizeKey(w) \in KeyStage /\ Consumed(result[w]) \in Outcome
    BY <1>2 DEF FinalizeKey, Stage, Consumed, Counted
  <2>2. Settlement(w) \in Label \ {"idle"}
    BY DEF Settlement
  <2> QED
    BY <1>2, <1>7, <2>1, <2>2 DEF SettleUse, Call, FinalizeRaised
<1>8. ASSUME Close(w) PROVE Outcomes
  BY <1>2, <1>8 DEF Close, Call
<1>9. ASSUME Effect(w) PROVE Outcomes
  BY <1>2, <1>9 DEF Effect
<1> HIDE DEF Moves, Writes, ReadsFor, OwnCalls, SetsTool, Wrote, Label, KeyStage, ResultStatus,
             AdapterStatus, TerminalStates, Outcome
<1>10. Outcomes
  BY <1>3, <1>4, <1>5, <1>6, <1>7, <1>8, <1>9 DEF Execute, Settle
<1>11. /\ invoked' = invoked \/ invoked' = [invoked EXCEPT ![x] = @ + 1]
       /\ UNCHANGED <<service, now, issues>>
  BY DEF Execute, Effect
<1> QED
  BY <1>1, <1>10, <1>11 DEF Acts

(* Nobody has called execute() when the service is first up. *)
LEMMA InitTypeOK == Init => TypeOK
<1> SUFFICES ASSUME Init PROVE TypeOK
  OBVIOUS
<1>1. ver \in [Stream -> Nat]
  BY DEF Init
<1> QED
  BY <1>1, BrokerAssumption
     DEF Init, TypeOK, SeenTypeOK, Actor, Label, ResultStatus, KeyStage, Fresh, Transitions,
         TerminalStates, ReservationState

-----------------------------------------------------------------------------
(* Types of what the store keeps, and of what the threads hold. *)
DurableType ==
  /\ tool \in [Execution -> DOMAIN Transitions \cup TerminalStates \cup {"absent"}]
  /\ toolRes \in [Execution -> BOOLEAN]
  /\ toolResult \in [Execution -> ResultStatus]
  /\ ver \in [Stream -> Nat]
  /\ reservation \in [Execution -> ReservationState]
  /\ known \subseteq Execution \X KeyStage

LocalType ==
  /\ pc \in [Actor -> Label] /\ cur \in [Actor -> Execution \cup {None}]
  /\ \A w \in Actor : pc[w] = "idle" <=> cur[w] = None
  /\ copy \in [Actor -> [state : {"prepared", "admitted"}, res : BOOLEAN]]
  /\ SeenTypeOK
  /\ stage \in [Actor -> KeyStage] /\ result \in [Actor -> ResultStatus]

(* The other actors stay where they are. *)
OthersStay(w) ==
  \A v \in Actor \ {w} :
    /\ pc'[v] = pc[v] /\ cur'[v] = cur[v] /\ copy'[v] = copy[v]
    /\ seen'[v] = seen[v] /\ stage'[v] = stage[v] /\ result'[v] = result[v]

(* Moving on keeps the local state well typed and touches nobody else's. *)
LEMMA MovesType ==
  ASSUME TypeOK, NEW w \in Actor, pc[w] # "idle", Moves(w)
  PROVE  LocalType' /\ OthersStay(w) /\ cur'[w] \in {cur[w], None}
<1> USE DEF Goto, TypeOK, LocalType, OthersStay, SeenTypeOK
<1>1. "idle" \in Label /\ "refuse" \in Label /\ None \notin Execution
  BY BrokerAssumption DEF Label
<1>2. CASE Return(w)
  BY <1>1, <1>2 DEF Return, Fresh, KeyStage, ResultStatus
<1>3. ASSUME NEW label \in Label \ {"idle"}, Proceed(w, label)
      PROVE  LocalType' /\ OthersStay(w) /\ cur'[w] \in {cur[w], None}
  BY <1>1, <1>3 DEF Proceed
<1>4. ASSUME NEW label \in Label \ {"idle"}, NEW status \in ResultStatus,
             ProceedWith(w, label, status)
      PROVE  LocalType' /\ OthersStay(w) /\ cur'[w] \in {cur[w], None}
  BY <1>1, <1>4 DEF ProceedWith
<1>5. ASSUME NEW key \in KeyStage, Deny(w, key)
      PROVE  LocalType' /\ OthersStay(w) /\ cur'[w] \in {cur[w], None}
  BY <1>1, <1>5 DEF Deny, ResultStatus, AdapterStatus
<1> QED
  BY <1>2, <1>3, <1>4, <1>5 DEF Moves

(* So does reading. *)
LEMMA ReadsType ==
  ASSUME TypeOK, NEW w \in Actor, pc[w] # "idle", ReadsFor(w),
         UNCHANGED <<pc, cur, copy, stage, result>>
  PROVE  LocalType' /\ OthersStay(w) /\ cur'[w] = cur[w]
<1>1. PICK streams \in SUBSET Stream :
        seen' = [seen EXCEPT ![w] = [s \in streams |-> ver[s]]]
  BY DEF ReadsFor
<1>2. [s \in streams |-> ver[s]] \in [streams -> Nat]
  BY DEF TypeOK
<1>3. ASSUME NEW v \in Actor, seen'[v] # None
      PROVE  \E S \in SUBSET Stream : seen'[v] \in [S -> Nat]
  BY <1>1, <1>2, <1>3 DEF TypeOK, SeenTypeOK
<1>4. SeenTypeOK'
  BY <1>1, <1>3 DEF TypeOK, SeenTypeOK
<1> QED
  BY <1>1, <1>4 DEF TypeOK, LocalType, OthersStay, SeenTypeOK

(* A transaction keeps the store well typed. *)
LEMMA WritesType ==
  ASSUME TypeOK, NEW w \in Actor, pc[w] # "idle", Writes(w)
  PROVE  DurableType'
<1>1. cur[w] \in Execution
  BY DEF TypeOK
<1>2. PICK key \in KeyStage, streams \in SUBSET Stream : Wrote(w, key, streams)
  BY <1>1 DEF Writes, Stream
<1>3. ver' \in [Stream -> Nat] /\ known' \subseteq Execution \X KeyStage
  BY <1>1, <1>2 DEF Wrote, TypeOK
<1>4. /\ tool' \in [Execution -> DOMAIN Transitions \cup TerminalStates \cup {"absent"}]
      /\ toolRes' \in [Execution -> BOOLEAN]
      /\ toolResult' \in [Execution -> ResultStatus]
  <2>1. CASE SetsTool(w)
    BY <1>1, <2>1 DEF SetsTool, SetTool, TypeOK
  <2>2. CASE UNCHANGED toolVars
    BY <2>2 DEF toolVars, TypeOK
  <2> QED
    BY <2>1, <2>2 DEF Writes
<1>5. reservation' \in [Execution -> ReservationState]
  BY <1>1 DEF Writes, Reserve, Finalize, capState, useVars, TypeOK, ReservationState
<1> QED
  BY <1>3, <1>4, <1>5 DEF DurableType

(* Every step keeps every variable well typed, between its calls an actor   *)
(* is nowhere, and recovery and clients never run together.                 *)
LEMMA NextTypeOK == TypeOK /\ [Next]_vars => TypeOK'
<1> SUFFICES ASSUME TypeOK, [Next]_vars PROVE TypeOK'
  OBVIOUS
<1>0. /\ None \notin Execution /\ Boot \in Actor /\ Boot \notin Worker
      /\ \A w \in Worker : w \in Actor
  BY BrokerAssumption DEF Actor
<1>1. ASSUME NEW w \in Actor, Acts(w) PROVE TypeOK'
  <2>1. LocalType' /\ OthersStay(w)
    BY <1>1, MovesType, ReadsType DEF Acts
  <2>2. DurableType'
    <3>1. CASE Writes(w)
      BY <1>1, <3>1, WritesType DEF Acts
    <3>2. CASE UNCHANGED durable
      BY <3>2 DEF durable, toolVars, capState, useVars, TypeOK, DurableType
    <3> QED
      BY <1>1, <3>1, <3>2 DEF Acts
  <2>3. invoked' \in [Execution -> Nat]
    BY <1>1 DEF Acts, TypeOK
  <2>4. /\ mode' \in {"up", "runs", "boot"} /\ todo' \subseteq Execution /\ crashes' \in Nat
        /\ \A v \in Actor : pc'[v] # "idle" => mode' = (IF v = Boot THEN "boot" ELSE "up")
    BY <1>1, <2>1 DEF Acts, TypeOK, service, OthersStay
  <2> QED
    BY <2>1, <2>2, <2>3, <2>4 DEF TypeOK, LocalType, DurableType
<1>2. ASSUME NEW w \in Worker, NEW x \in Execution, Submit(w, x),
             UNCHANGED <<service, invoked, now, issues>>
      PROVE  TypeOK'
  <2>1. /\ Goto(w, "prepare") \/ Goto(w, "lease")
        /\ cur' = [cur EXCEPT ![w] = x] /\ mode = "up"
        /\ UNCHANGED <<durable, stage, result, service, invoked>>
    BY <1>2 DEF Submit
  <2>2. copy' \in [Actor -> [state : {"prepared", "admitted"}, res : BOOLEAN]]
    BY <1>0, <1>2 DEF Submit, Resumable, Fresh, TypeOK
  <2>3. pc' \in [Actor -> Label] /\ cur' \in [Actor -> Execution \cup {None}]
    BY <1>0, <2>1 DEF Goto, TypeOK, Label
  <2>4. /\ seen' = [v \in Actor |-> seen'[v]]
        /\ \A v \in Actor : seen'[v] \in {seen[v], None}
    BY <1>0, <2>1 DEF Goto, TypeOK, SeenTypeOK
  <2>5. \A v \in Actor : /\ pc'[v] = "idle" <=> cur'[v] = None
                         /\ pc'[v] # "idle" => mode = (IF v = Boot THEN "boot" ELSE "up")
    BY <1>0, <2>1 DEF Goto, TypeOK
  <2>6. SeenTypeOK'
    BY <2>4 DEF TypeOK, SeenTypeOK
  <2>7. LocalType'
    BY <2>1, <2>2, <2>3, <2>4, <2>5, <2>6 DEF TypeOK, LocalType
  <2>8. DurableType'
    BY <2>1 DEF TypeOK, DurableType, durable, toolVars, capState, useVars
  <2> QED
    BY <2>1, <2>5, <2>7, <2>8 DEF TypeOK, LocalType, DurableType, service
<1>3. ASSUME NEW x \in Execution, RecoverRun(x) PROVE TypeOK'
  <2>1. reservation' \in [Execution -> ReservationState]
    BY <1>3 DEF RecoverRun, Finalize, TypeOK, ReservationState
  <2>2. ver' \in [Stream -> Nat] /\ known' \subseteq Execution \X KeyStage
    BY <1>3 DEF RecoverRun, TypeOK, Stream, KeyStage
  <2> QED
    BY <1>3, <2>1, <2>2 DEF RecoverRun, toolVars, local, service, TypeOK, SeenTypeOK
<1>4. ASSUME NEW x \in Execution, Reconcile(x) PROVE TypeOK'
  <2>1. CASE UNCHANGED local
    BY <1>4, <2>1
       DEF Reconcile, local, durable, toolVars, capState, useVars, TypeOK, SeenTypeOK
  <2>2. CASE \E label \in {"close", "finalize"}, key \in KeyStage, status \in ResultStatus :
                Recover(x, label, key, status)
    <3>1. /\ pc[Boot] = "idle" /\ mode = "boot" /\ todo' \subseteq Execution
          /\ UNCHANGED <<durable, mode, crashes, invoked>>
      BY <1>4 DEF Reconcile, TypeOK
    <3>2. PICK label \in {"close", "finalize"}, key \in KeyStage, status \in ResultStatus :
            Recover(x, label, key, status)
      BY <2>2
    <3>3. /\ pc' \in [Actor -> Label] /\ cur' \in [Actor -> Execution \cup {None}]
          /\ copy' \in [Actor -> [state : {"prepared", "admitted"}, res : BOOLEAN]]
          /\ stage' \in [Actor -> KeyStage] /\ result' \in [Actor -> ResultStatus]
      BY <1>0, <3>2 DEF Recover, Goto, TypeOK, Label
    <3>4. /\ seen' = [v \in Actor |-> seen'[v]]
          /\ \A v \in Actor : seen'[v] \in {seen[v], None}
      BY <1>0, <3>2 DEF Recover, Goto, TypeOK, SeenTypeOK
    <3>5. \A v \in Actor : /\ pc'[v] = "idle" <=> cur'[v] = None
                           /\ pc'[v] # "idle" => mode = (IF v = Boot THEN "boot" ELSE "up")
      BY <1>0, <3>1, <3>2 DEF Recover, Goto, TypeOK
    <3>6. SeenTypeOK'
      BY <3>4 DEF TypeOK, SeenTypeOK
    <3>7. LocalType'
      BY <3>3, <3>4, <3>5, <3>6 DEF LocalType
    <3>8. DurableType'
      BY <3>1 DEF TypeOK, DurableType, durable, toolVars, capState, useVars
    <3> QED
      BY <3>1, <3>5, <3>7, <3>8 DEF TypeOK, LocalType, DurableType
  <2> QED
    BY <1>4, <2>1, <2>2 DEF Reconcile, KeyStage, Stage, ResultStatus, AdapterStatus
<1>5. CASE RunsRecovered \/ Serve
  <2>1. \A w \in Actor : pc[w] = "idle"
    BY <1>0, <1>5 DEF RunsRecovered, Serve, TypeOK
  <2> QED
    BY <1>5, <2>1
       DEF RunsRecovered, Serve, durable, toolVars, capState, useVars, local, TypeOK,
           SeenTypeOK
<1>6. CASE Crash
  BY <1>0, <1>6
     DEF Crash, durable, toolVars, capState, useVars, TypeOK, SeenTypeOK, Label, Fresh, KeyStage,
         ResultStatus
<1>7. CASE RevokeGrant
  <2>1. ver' \in [Stream -> Nat]
    BY <1>7 DEF RevokeGrant, TypeOK, Stream
  <2> QED
    BY <1>7, <2>1 DEF RevokeGrant, Revoke, toolVars, local, service, useVars, TypeOK,
       SeenTypeOK
<1>8. CASE UNCHANGED vars
  BY <1>8 DEF vars, durable, toolVars, capState, useVars, local, service, TypeOK, SeenTypeOK
<1>9. CASE Next
  BY <1>0, <1>1, <1>2, <1>3, <1>4, <1>5, <1>6, <1>7, <1>9, ExecuteActs DEF Next, Recovery
<1> QED
  BY <1>8, <1>9

(* Every state of the broker is well typed, with any number of threads,     *)
(* executions and crashes, and also when requests are sent again.           *)
THEOREM BrokerTypeCorrect == Spec => []TypeOK
  BY InitTypeOK, NextTypeOK, PTL DEF Spec
-----------------------------------------------------------------------------
(* The grant inside the broker.  A call is committed on the state it read,  *)
(* or not at all: while the stream of the grant has the version a thread    *)
(* read, what made its reservation or settlement legal then still holds.    *)
Legal(w) ==
  /\ pc[w] = "reserve" => CanReserve(cur[w], RequestOperation, now)
  /\ pc[w] \in {"finalize", "close"} => CanFinalize(cur[w])

LegalWhenCurrent(w) ==
  seen[w] # None /\ pc[w] \in {"reserve", "finalize", "close"} =>
    /\ CapStream \in DOMAIN seen[w]
    /\ seen[w][CapStream] \in Nat /\ seen[w][CapStream] <= ver[CapStream]
    /\ seen[w][CapStream] = ver[CapStream] => Legal(w)

SeenLegal == \A w \in Actor : LegalWhenCurrent(w)

GrantVersioned ==
  \/ UNCHANGED <<capState, now>> /\ ver'[CapStream] = ver[CapStream]
  \/ ver'[CapStream] = ver[CapStream] + 1

(* A thread that stays where it is either still sees the grant it read or   *)
(* is overtaken; one that has read nothing has nothing to lose.             *)
LEMMA StaysLegal ==
  ASSUME TypeOK, NEW w \in Actor, LegalWhenCurrent(w), GrantVersioned,
         pc'[w] = pc[w] /\ cur'[w] = cur[w] /\ seen'[w] = seen[w]
  PROVE  LegalWhenCurrent(w)'
<1>1. ver[CapStream] \in Nat
  BY DEF TypeOK, Stream
<1>2. CASE UNCHANGED <<capState, now>> /\ ver'[CapStream] = ver[CapStream]
  <2>1. Legal(w)' <=> Legal(w)
    BY <1>2 DEF Legal, CanReserve, CheckLease, Exhausts, EffectiveMax, CanFinalize, capState,
       leaseVars, useVars
  <2> QED
    BY <1>2, <2>1 DEF LegalWhenCurrent
<1>3. CASE ver'[CapStream] = ver[CapStream] + 1
  BY <1>1, <1>3 DEF LegalWhenCurrent
<1> QED
  BY <1>2, <1>3 DEF GrantVersioned

(* What is committed on the stream of the grant is still legal. *)
LEMMA CommitLegal ==
  ASSUME SeenLegal, NEW w \in Actor, pc[w] \in {"reserve", "finalize", "close"},
         seen[w] # None, Current(w)
  PROVE  Legal(w)
  BY DEF Current, SeenLegal, LegalWhenCurrent

(* What a thread does to the grant while it executes is a reservation or a  *)
(* settlement the grant allows, and moves the version of its stream.        *)
LEMMA ActsGrant ==
  ASSUME TypeOK, GrantTypeOK, SeenLegal, NEW w \in Actor, Acts(w)
  PROVE  GrantStep /\ GrantVersioned /\ SeenLegal'
<1>1. /\ cur[w] \in Execution /\ CapStream # cur[w] /\ ver[CapStream] \in Nat
      /\ RequestOperation \in Operation /\ now \in 0..now
      /\ UNCHANGED <<now, issues>>
  BY BrokerAssumption DEF Acts, TypeOK, GrantTypeOK, Stream
<1>2. ASSUME UNCHANGED durable PROVE GrantStep /\ GrantVersioned
  BY <1>1, <1>2 DEF GrantStep, GrantVersioned, durable, capState, leaseVars, useVars, GrantTypeOK
<1>3. ASSUME Writes(w) PROVE GrantStep /\ GrantVersioned
  <2>1. ASSUME NEW key \in KeyStage, Wrote(w, key, {cur[w]}), UNCHANGED capState
        PROVE  GrantStep /\ GrantVersioned
    BY <1>1, <2>1
       DEF Wrote, GrantStep, GrantVersioned, capState, leaseVars, useVars, GrantTypeOK, Stream
  <2>2. ASSUME NEW key \in KeyStage, NEW streams, CapStream \in streams,
               Wrote(w, key, streams), pc[w] \in {"reserve", "finalize", "close"}
        PROVE  GrantVersioned /\ Legal(w)
    <3>1. ver'[CapStream] = ver[CapStream] + 1
      BY <2>2 DEF Wrote, Stream
    <3> QED
      BY <2>2, <3>1, CommitLegal DEF Wrote, GrantVersioned
  <2>3. ASSUME NEW key \in KeyStage, pc[w] = "reserve", Wrote(w, key, {CapStream}),
               Reserve(cur[w], RequestOperation, now)
        PROVE  GrantStep /\ GrantVersioned
    <3>1. CanReserve(cur[w], RequestOperation, now)
      BY <2>2, <2>3 DEF Legal
    <3>2. Spends(cur[w])
      BY <1>1, <2>3, <3>1 DEF Spends
    <3> QED
      BY <1>1, <2>2, <2>3, <3>2 DEF GrantStep, Execution
  <2>4. ASSUME NEW key \in KeyStage, pc[w] = "finalize", Wrote(w, key, {CapStream}),
               \E o \in Outcome : Finalize(cur[w], o)
        PROVE  GrantStep /\ GrantVersioned
    <3>1. CanFinalize(cur[w])
      BY <2>2, <2>4 DEF Legal
    <3>2. Spends(cur[w])
      BY <1>1, <2>4, <3>1 DEF Spends
    <3> QED
      BY <1>1, <2>2, <2>4, <3>2 DEF GrantStep, Execution
  <2>5. ASSUME NEW key \in KeyStage, pc[w] = "close", Wrote(w, key, {cur[w], CapStream}),
               Finalize(cur[w], "failed")
        PROVE  GrantStep /\ GrantVersioned
    <3>1. CanFinalize(cur[w])
      BY <2>2, <2>5 DEF Legal
    <3>2. Spends(cur[w])
      BY <1>1, <2>5, <3>1 DEF Spends, Outcome
    <3> QED
      BY <1>1, <2>2, <2>5, <3>2 DEF GrantStep, Execution
  <2> QED
    BY <1>3, <2>1, <2>3, <2>4, <2>5 DEF Writes
<1>4. GrantStep /\ GrantVersioned
  BY <1>2, <1>3 DEF Acts
<1>5. LegalWhenCurrent(w)'
  <2>1. CASE Moves(w)
    BY <2>1 DEF Moves, Return, Proceed, ProceedWith, Deny, Goto, LegalWhenCurrent, TypeOK,
       SeenTypeOK
  <2>2. CASE ReadsFor(w) /\ UNCHANGED <<durable, pc, cur, copy, stage, result>>
    <3>1. PICK streams \in SUBSET Stream :
            /\ seen' = [seen EXCEPT ![w] = [s \in streams |-> ver[s]]]
            /\ pc[w] = "reserve" =>
                 streams = {CapStream} /\ CanReserve(cur[w], RequestOperation, now)
            /\ pc[w] = "finalize" => streams = {CapStream} /\ CanFinalize(cur[w])
            /\ pc[w] = "close" => streams = {cur[w], CapStream} /\ CanFinalize(cur[w])
      BY <2>2 DEF ReadsFor
    <3>2. seen'[w] = [s \in streams |-> ver[s]]
      BY <3>1 DEF TypeOK, SeenTypeOK
    <3>3. pc[w] \in {"reserve", "finalize", "close"} => Legal(w) /\ CapStream \in streams
      BY <3>1 DEF Legal
    <3>4. UNCHANGED <<pc, cur, capState, now, ver>>
      BY <1>1, <2>2 DEF durable
    <3>5. Legal(w)' <=> Legal(w)
      BY <3>4 DEF Legal, CanReserve, CheckLease, Exhausts, EffectiveMax, CanFinalize, capState,
         leaseVars, useVars
    <3> QED
      BY <1>1, <3>2, <3>3, <3>4, <3>5 DEF LegalWhenCurrent
  <2> QED
    BY <2>1, <2>2 DEF Acts
<1>6. OthersStay(w)
  BY MovesType, ReadsType DEF Acts
<1>7. ASSUME NEW v \in Actor \ {w} PROVE LegalWhenCurrent(v)'
  BY <1>4, <1>6, StaysLegal DEF OthersStay, SeenLegal
<1> QED
  BY <1>4, <1>5, <1>7 DEF SeenLegal

StaysOrForgets(w) ==
  \/ seen'[w] = None
  \/ pc'[w] = pc[w] /\ cur'[w] = cur[w] /\ seen'[w] = seen[w]

(* So is every other step of the service, whoever takes it.                *)
LEMMA NextGrant ==
  ASSUME TypeOK, GrantTypeOK, SeenLegal, [Next]_vars
  PROVE  GrantStep /\ SeenLegal'
<1>0. /\ CapStream \in Stream /\ ver[CapStream] \in Nat /\ Boot \in Actor
      /\ \A w \in Worker : w \in Actor
      /\ now \in Nat
  BY DEF TypeOK, GrantTypeOK, Stream, Actor
<1>1. ASSUME NEW w \in Actor, Acts(w) PROVE GrantStep /\ SeenLegal'
  BY <1>1, ActsGrant
<1>2. ASSUME UNCHANGED <<durable, now, issues>>,
             \A w \in Actor : StaysOrForgets(w)
      PROVE  GrantStep /\ SeenLegal'
  <2>1. GrantStep /\ GrantVersioned
    BY <1>0, <1>2 DEF GrantStep, GrantVersioned, durable, capState, leaseVars, useVars
  <2>2. ASSUME NEW w \in Actor PROVE LegalWhenCurrent(w)'
    <3>1. CASE seen'[w] = None
      BY <3>1 DEF LegalWhenCurrent
    <3>2. CASE pc'[w] = pc[w] /\ cur'[w] = cur[w] /\ seen'[w] = seen[w]
      BY <2>1, <3>2, StaysLegal DEF SeenLegal
    <3> QED
      BY <1>2, <3>1, <3>2 DEF StaysOrForgets
  <2> QED
    BY <2>1, <2>2 DEF SeenLegal
<1>3. ASSUME NEW w \in Worker, NEW x \in Execution, Submit(w, x),
             UNCHANGED <<service, invoked, now, issues>>
      PROVE  GrantStep /\ SeenLegal'
  <2>1. /\ UNCHANGED <<durable, now, issues>> /\ seen' = [seen EXCEPT ![w] = None]
        /\ \A v \in Actor \ {w} : pc'[v] = pc[v] /\ cur'[v] = cur[v]
    BY <1>0, <1>3 DEF Submit, Goto, TypeOK
  <2>2. \A v \in Actor : seen'[v] = None \/ (v # w /\ seen'[v] = seen[v])
    BY <1>0, <2>1 DEF TypeOK, SeenTypeOK
  <2> QED
    BY <1>2, <2>1, <2>2 DEF StaysOrForgets
<1>4. ASSUME UNCHANGED local, ver' = [ver EXCEPT ![CapStream] = @ + 1] PROVE SeenLegal'
  BY <1>0, <1>4, StaysLegal DEF local, GrantVersioned, SeenLegal, TypeOK
<1>5. ASSUME NEW x \in Execution, RecoverRun(x) PROVE GrantStep /\ SeenLegal'
  <2>1. Spends(x)
    BY <1>5 DEF RecoverRun, Spends, Outcome
  <2> QED
    BY <1>4, <1>5, <2>1 DEF RecoverRun, GrantStep, Execution
<1>6. ASSUME NEW x \in Execution, Reconcile(x) PROVE GrantStep /\ SeenLegal'
  <2>1. CASE UNCHANGED local
    BY <1>2, <1>6, <2>1 DEF Reconcile, local, StaysOrForgets
  <2>2. CASE \E label, key, status : Recover(x, label, key, status)
    <3>1. /\ seen' = [seen EXCEPT ![Boot] = None]
          /\ \A v \in Actor \ {Boot} : pc'[v] = pc[v] /\ cur'[v] = cur[v]
      BY <1>0, <2>2 DEF Recover, Goto, TypeOK
    <3>2. \A v \in Actor : seen'[v] = None \/ (v # Boot /\ seen'[v] = seen[v])
      BY <1>0, <3>1 DEF TypeOK, SeenTypeOK
    <3>3. UNCHANGED <<durable, now, issues>>
      BY <1>6 DEF Reconcile
    <3> QED
      BY <1>2, <3>1, <3>2, <3>3 DEF StaysOrForgets
  <2> QED
    BY <1>6, <2>1, <2>2 DEF Reconcile
<1>7. CASE RunsRecovered \/ Serve
  BY <1>2, <1>7 DEF RunsRecovered, Serve, local, StaysOrForgets
<1>8. CASE Crash
  <2>1. UNCHANGED <<durable, now, issues>> /\ \A w \in Actor : seen'[w] = None
    BY <1>8 DEF Crash
  <2> QED
    BY <1>2, <2>1 DEF StaysOrForgets
<1>9. CASE RevokeGrant
  BY <1>4, <1>9 DEF RevokeGrant, GrantStep
<1>10. CASE UNCHANGED vars
  BY <1>2, <1>10 DEF vars, local, StaysOrForgets
<1>11. CASE Next
  BY <1>0, <1>1, <1>3, <1>5, <1>6, <1>7, <1>8, <1>9, <1>11, ExecuteActs DEF Next, Recovery
<1> QED
  BY <1>10, <1>11

(* The service starts with a lease that narrows its grant and has all its   *)
(* uses left, and with books that balance.                                  *)
LEMMA InitGrant == Init => GrantInv /\ ConsumptionBalance /\ SeenLegal
<1> SUFFICES ASSUME Init PROVE GrantInv /\ ConsumptionBalance /\ SeenLegal
  OBVIOUS
<1>1. lease \in Leases /\ lease \in Terms /\ Narrows(lease) /\ lease # None
  BY CapabilityAssumption DEF Init
<1>2. GrantTypeOK
  <2>1. /\ reservation \in [Reservation -> ReservationState]
        /\ reservedFor \in [Reservation -> [operation : Operation, at : Nat] \cup {None}]
    BY DEF Init, ReservationState, Execution
  <2>2. consumptions \in Seq([reservation : Reservation, outcome : Outcome])
    BY DEF Init
  <2>3. /\ grantState = "leased" /\ leaseState = "active" /\ revoked = FALSE
        /\ used = 0 /\ now = 0 /\ issues = 1
    BY DEF Init
  <2> QED
    BY <1>1, <2>1, <2>2, <2>3 DEF GrantTypeOK
<1>3. ActiveMeansBudget
  BY <1>1, CapabilityAssumption
     DEF Init, ActiveMeansBudget, Exhausts, EffectiveMax, Terms
<1>4. LeaseNarrows /\ GrantedIsFresh /\ ReservedWithinGrant
  BY <1>1 DEF Init, LeaseNarrows, GrantedIsFresh, ReservedWithinGrant, Execution
<1>5. ConsumptionBalance
  BY EmptyBalance DEF Init, Execution
<1> QED
  BY <1>2, <1>3, <1>4, <1>5 DEF Init, GrantInv, SeenLegal, LegalWhenCurrent

GrantKept == TypeOK /\ GrantInv /\ ConsumptionBalance /\ SeenLegal

LEMMA NextGrantKept == GrantKept /\ [Next]_vars => GrantKept'
  BY NextTypeOK, NextGrant, GrantStepInv, GrantStepBalance DEF GrantKept, GrantInv

(* The service does to the grant only what the grant's own operations allow *)
(* on the state of the moment, although threads decide on what they read    *)
(* earlier and recovery runs between them: execute(), reconcile_stranded()  *)
(* and revoke() are steps of the grant.                                     *)
THEOREM BrokerStepsAreGrantSteps == Spec => [][GrantStep]_vars
<1>1. GrantKept /\ [Next]_vars => [GrantStep]_vars
  BY NextGrant DEF GrantKept, GrantInv
<1> QED
  BY <1>1, InitTypeOK, InitGrant, NextGrantKept, PTL DEF Spec, GrantKept

(* So what is proved of the grant alone holds of it inside the service,     *)
(* with any number of threads, executions and crashes, and also when a      *)
(* request is sent again: reservations lie within the terms of the grant,   *)
(* and an active lease has a use left.                                      *)
THEOREM BrokerGrantCorrect ==
  Spec => [](ReservedWithinGrant /\ ActiveMeansBudget)
<1>1. GrantKept => ReservedWithinGrant /\ ActiveMeansBudget
  BY DEF GrantKept, GrantInv
<1> QED
  BY <1>1, InitTypeOK, InitGrant, NextGrantKept, PTL DEF Spec, GrantKept

(* Every settled reservation has exactly one consumption and the use count  *)
(* is what they add up to, whichever thread or recovery settled each one    *)
(* (finalize_use, settle_predispatch_tool_execution).                       *)
THEOREM BrokerBooksBalance == Spec => []ConsumptionBalance
<1>1. GrantKept => ConsumptionBalance
  BY DEF GrantKept
<1> QED
  BY <1>1, InitTypeOK, InitGrant, NextGrantKept, PTL DEF Spec, GrantKept

(* Once the operator has revoked the grant or its uses have run out, no     *)
(* thread of the service opens a reservation on it, whatever it had read    *)
(* before.                                                                  *)
THEOREM BrokerAuthorityStops == Spec => [][Ended => ~Opens /\ Ended']_vars
<1>1. ASSUME GrantKept, [Next]_vars PROVE Ended => ~Opens /\ Ended'
  <2>1. StopsHere
    BY <1>1, NextGrant, GrantStepStops DEF GrantKept, GrantInv
  <2>2. issues' = issues
    BY <1>1 DEF Next, Execute, Recovery, RecoverRun, Reconcile, RunsRecovered, Serve, Crash,
       RevokeGrant, Revoke, vars
  <2> QED
    BY <2>1, <2>2 DEF StopsHere
<1>2. GrantKept /\ [Next]_vars => [Ended => ~Opens /\ Ended']_vars
  BY <1>1
<1> QED
  BY <1>2, InitTypeOK, InitGrant, NextGrantKept, PTL DEF Spec, GrantKept
-----------------------------------------------------------------------------
(* The executions inside the broker, however often a request is sent.  The  *)
(* state a call of the execution's own services leads to:                   *)
Target(w) ==
  CASE pc[w] = "prepare" -> "prepared"
    [] pc[w] = "admit" -> "admitted"
    [] pc[w] = "dispatch" -> "dispatching"
    [] pc[w] = "observe" -> "effect_observed"
    [] pc[w] = "settling" -> "settling"
    [] pc[w] = "terminal" -> TerminalState(result[w])
    [] OTHER -> "failed"

ToolCalls == OwnCalls \cup {"close"}

MayMove(w) == pc[w] # "prepare" => CanMove(cur[w], Target(w))

(* While the execution has the version a thread read, it may still be moved *)
(* where that thread is about to move it.                                   *)
MoveWhenCurrent(w) ==
  seen[w] # None /\ pc[w] \in ToolCalls =>
    /\ cur[w] \in DOMAIN seen[w]
    /\ seen[w][cur[w]] \in Nat /\ seen[w][cur[w]] <= ver[cur[w]]
    /\ seen[w][cur[w]] = ver[cur[w]] => MayMove(w)

PreparedKnown == \A x \in Execution : tool[x] # "absent" => <<x, "prepared">> \in known

MovesKept == PreparedKnown /\ \A w \in Actor : MoveWhenCurrent(w)

(* One move of the table of aggregates/tool_execution.py, or a creation.    *)
ToolMoves(x) ==
  \/ tool'[x] = tool[x]
  \/ tool[x] = "absent" /\ tool'[x] = "prepared"
  \/ CanMove(x, tool'[x])

ReadsToMove(w) ==
  /\ UNCHANGED <<durable, pc, cur, copy, stage, result>>
  /\ \E streams \in SUBSET Stream :
       /\ seen' = [seen EXCEPT ![w] = [s \in streams |-> ver[s]]]
       /\ pc[w] \in ToolCalls => cur[w] \in streams /\ MayMove(w)

Keeps(w) == UNCHANGED <<tool, known>> /\ \A x \in Execution : ver'[x] = ver[x]

WritesMove(w) ==
  /\ seen[w] # None /\ Current(w)
  /\ \/ pc[w] \notin ToolCalls /\ UNCHANGED tool /\ \A x \in Execution : ver'[x] = ver[x]
     \/ /\ pc[w] \in ToolCalls
        /\ tool' = [tool EXCEPT ![cur[w]] = Target(w)]
        /\ \A x \in Execution : ver'[x] = IF x = cur[w] THEN ver[x] + 1 ELSE ver[x]
        /\ pc[w] = "prepare" =>
             <<cur[w], "prepared">> \notin known /\ <<cur[w], "prepared">> \in known'
  /\ known \subseteq known'

(* A step of a thread reads to move its execution, writes nothing, or       *)
(* writes what it may on what it read; then it has read nothing.            *)
LEMMA ExecuteMoves ==
  ASSUME TypeOK, NEW w \in Actor, Execute(w) \/ Settle(w)
  PROVE  \/ ReadsToMove(w)
         \/ (UNCHANGED durable \/ WritesMove(w)) /\ Moves(w)
<1> DEFINE x == cur[w]
<1>1. pc[w] # "idle"
  BY DEF Execute, Settle, Prepare, CheckRequest, Refuse, Close, Fail, Preflight, ReserveForUse,
     Admit, Dispatch, Effect, ObserveEffect, AdapterReturns, SettleUse, Settling, Terminate
<1>2. /\ x \in Execution /\ x \in Stream /\ CapStream \in Stream /\ CapStream \notin Execution
      /\ {x} \subseteq Stream /\ {CapStream} \subseteq Stream /\ {x, CapStream} \subseteq Stream
      /\ Execution \subseteq Stream
      /\ result[w] \in ResultStatus /\ stage[w] \in KeyStage
  BY <1>1, BrokerAssumption DEF TypeOK, Stream
<1> DEFINE Outcomes ==
  \/ ReadsToMove(w)
  \/ (UNCHANGED durable \/ WritesMove(w)) /\ Moves(w)
<1> USE DEF Moves, ReadsToMove, WritesMove, OwnCalls, ToolCalls, Label, KeyStage, ResultStatus,
            AdapterStatus, TerminalStates, Outcome, Target, MayMove
<1>3. ASSUME Prepare(w) PROVE Outcomes
  BY <1>2, <1>3 DEF Prepare, Call, SetTool
<1>4. ASSUME Fail(w) PROVE Outcomes
  BY <1>2, <1>4 DEF Fail, Transition, Call, SetTool
<1>5. ASSUME Admit(w) PROVE Outcomes
  BY <1>2, <1>5 DEF Admit, Transition, Call, SetTool
<1>6. ASSUME Dispatch(w) PROVE Outcomes
  BY <1>2, <1>6 DEF Dispatch, Transition, Call, SetTool
<1>7. ASSUME ObserveEffect(w) PROVE Outcomes
  BY <1>2, <1>7 DEF ObserveEffect, Transition, Call, SetTool
<1>8. ASSUME Settling(w) PROVE Outcomes
  BY <1>2, <1>8 DEF Settling, Transition, Call, SetTool
<1>9. ASSUME Terminate(w) PROVE Outcomes
  BY <1>2, <1>9 DEF Terminate, Transition, Call, SetTool
<1>10. ASSUME CheckRequest(w) \/ Refuse(w) \/ Preflight(w) \/ AdapterReturns(w) PROVE Outcomes
  BY <1>2, <1>10 DEF CheckRequest, Refuse, Preflight, AdapterReturns
<1>11. ASSUME ReserveForUse(w) PROVE Outcomes
  BY <1>2, <1>11 DEF ReserveForUse, Call, toolVars
<1>12. ASSUME SettleUse(w) PROVE Outcomes
  <2>1. Settlement(w) \in Label \ {"idle"}
    BY DEF Settlement
  <2> QED
    BY <1>2, <1>12, <2>1 DEF SettleUse, Call, FinalizeRaised, toolVars
<1>13. ASSUME Close(w) PROVE Outcomes
  <2>1. Resumable(x) => CanMove(x, "failed")
    BY DEF Resumable, CanMove, Transitions
  <2> QED
    BY <1>2, <1>13, <2>1 DEF Close, Call, SetTool
<1>14. ASSUME Effect(w) PROVE Outcomes
  BY <1>2, <1>14 DEF Effect
<1> HIDE DEF Moves, ReadsToMove, WritesMove, OwnCalls, ToolCalls, Label, KeyStage, ResultStatus,
             AdapterStatus, TerminalStates, Outcome, Target, MayMove
<1> QED
  BY <1>3, <1>4, <1>5, <1>6, <1>7, <1>8, <1>9, <1>10, <1>11, <1>12, <1>13, <1>14
     DEF Execute, Settle

Versioned ==
  \A x \in Execution :
    (tool'[x] = tool[x] /\ ver'[x] = ver[x]) \/ ver'[x] = ver[x] + 1

(* A thread that stays where it is still sees the execution it read, or is  *)
(* overtaken.                                                               *)
LEMMA StaysMovable ==
  ASSUME TypeOK, NEW w \in Actor, MoveWhenCurrent(w), Versioned,
         pc'[w] = pc[w] /\ cur'[w] = cur[w] /\ seen'[w] = seen[w] /\ result'[w] = result[w]
  PROVE  MoveWhenCurrent(w)'
<1> SUFFICES ASSUME seen[w] # None, pc[w] \in ToolCalls PROVE MoveWhenCurrent(w)'
  BY DEF MoveWhenCurrent
<1>1. cur[w] \in Execution /\ ver[cur[w]] \in Nat
  BY DEF TypeOK, ToolCalls, OwnCalls, Stream
<1>2. CASE tool'[cur[w]] = tool[cur[w]] /\ ver'[cur[w]] = ver[cur[w]]
  <2>1. Target(w)' = Target(w)
    BY DEF Target
  <2>2. CanMove(cur[w], Target(w))' <=> CanMove(cur[w], Target(w))
    BY <1>2, <2>1 DEF CanMove
  <2> QED
    BY <1>2, <2>2 DEF MoveWhenCurrent, MayMove
<1>3. CASE ver'[cur[w]] = ver[cur[w]] + 1
  BY <1>1, <1>3 DEF MoveWhenCurrent
<1> QED
  BY <1>1, <1>2, <1>3 DEF Versioned

(* What a thread does to its execution is a move of the table, whatever the *)
(* others did since it read.                                                *)
LEMMA ActsMove ==
  ASSUME TypeOK, MovesKept, NEW w \in Actor, Execute(w) \/ Settle(w)
  PROVE  (\A x \in Execution : ToolMoves(x)) /\ MovesKept'
<1>1. pc[w] # "idle" /\ cur[w] \in Execution /\ ver[cur[w]] \in Nat
  <2>1. pc[w] # "idle"
    BY DEF Execute, Settle, Prepare, CheckRequest, Refuse, Close, Fail, Preflight,
       ReserveForUse, Admit, Dispatch, Effect, ObserveEffect, AdapterReturns, SettleUse,
       Settling, Terminate
  <2> QED
    BY <2>1 DEF TypeOK, Stream
<1>2. CASE ReadsToMove(w)
  <2>1. UNCHANGED <<tool, ver, known, pc, cur, result>>
    BY <1>2 DEF ReadsToMove, durable, toolVars
  <2>2. PICK streams \in SUBSET Stream :
          /\ seen' = [seen EXCEPT ![w] = [s \in streams |-> ver[s]]]
          /\ pc[w] \in ToolCalls => cur[w] \in streams /\ MayMove(w)
    BY <1>2 DEF ReadsToMove
  <2>3. /\ seen'[w] = [s \in streams |-> ver[s]]
        /\ \A v \in Actor \ {w} : seen'[v] = seen[v]
    BY <2>2 DEF TypeOK, SeenTypeOK
  <2>4. MayMove(w)' <=> MayMove(w)
    BY <2>1 DEF MayMove, CanMove, Target
  <2>5. MoveWhenCurrent(w)'
    BY <1>1, <2>1, <2>2, <2>3, <2>4 DEF MoveWhenCurrent
  <2>6. Versioned
    BY <2>1 DEF Versioned
  <2>7. ASSUME NEW v \in Actor \ {w} PROVE MoveWhenCurrent(v)'
    BY <2>1, <2>3, <2>6, StaysMovable DEF MovesKept
  <2>8. PreparedKnown' /\ \A x \in Execution : ToolMoves(x)
    BY <2>1 DEF MovesKept, PreparedKnown, ToolMoves
  <2> QED
    BY <2>5, <2>7, <2>8 DEF MovesKept
<1>3. CASE (UNCHANGED durable \/ WritesMove(w)) /\ Moves(w)
  <2>1. /\ known \subseteq known'
        /\ \/ UNCHANGED tool /\ \A x \in Execution : ver'[x] = ver[x]
           \/ /\ pc[w] \in ToolCalls /\ seen[w] # None /\ Current(w)
              /\ tool' = [tool EXCEPT ![cur[w]] = Target(w)]
              /\ \A x \in Execution : ver'[x] = IF x = cur[w] THEN ver[x] + 1 ELSE ver[x]
              /\ pc[w] = "prepare" =>
                   <<cur[w], "prepared">> \notin known /\ <<cur[w], "prepared">> \in known'
    BY <1>3 DEF WritesMove, durable, toolVars
  <2>2. OthersStay(w) /\ seen'[w] = None
    BY <1>1, <1>3, MovesType
       DEF Moves, Return, Proceed, ProceedWith, Deny, Goto, TypeOK, SeenTypeOK
  <2>3. CASE UNCHANGED tool /\ \A x \in Execution : ver'[x] = ver[x]
    <3>1. Versioned /\ PreparedKnown' /\ \A x \in Execution : ToolMoves(x)
      BY <2>1, <2>3 DEF Versioned, MovesKept, PreparedKnown, ToolMoves
    <3>2. ASSUME NEW v \in Actor PROVE MoveWhenCurrent(v)'
      <4>1. CASE v = w
        BY <2>2, <4>1 DEF MoveWhenCurrent
      <4>2. CASE v # w
        BY <2>2, <3>1, <4>2, StaysMovable DEF OthersStay, MovesKept
      <4> QED
        BY <4>1, <4>2
    <3> QED
      BY <3>1, <3>2 DEF MovesKept
  <2>4. CASE /\ pc[w] \in ToolCalls /\ seen[w] # None /\ Current(w)
             /\ tool' = [tool EXCEPT ![cur[w]] = Target(w)]
             /\ \A x \in Execution : ver'[x] = IF x = cur[w] THEN ver[x] + 1 ELSE ver[x]
             /\ pc[w] = "prepare" =>
                  <<cur[w], "prepared">> \notin known /\ <<cur[w], "prepared">> \in known'
    <3>1. MayMove(w)
      BY <2>4 DEF MovesKept, MoveWhenCurrent, Current
    <3>2. /\ tool'[cur[w]] = Target(w)
          /\ \A x \in Execution : x # cur[w] => tool'[x] = tool[x]
      BY <1>1, <2>4 DEF TypeOK
    <3>3. PreparedKnown' /\ \A x \in Execution : ToolMoves(x)
      <4>1. PreparedKnown'
        <5>1. tool[cur[w]] # "absent" \/ <<cur[w], "prepared">> \in known'
          BY <2>4, <3>1 DEF MayMove, CanMove, Transitions
        <5> QED
          BY <1>1, <2>1, <3>2, <5>1 DEF MovesKept, PreparedKnown
      <4>2. ASSUME NEW x \in Execution PROVE ToolMoves(x)
        <5>1. CASE x # cur[w]
          BY <3>2, <5>1 DEF ToolMoves
        <5>2. CASE x = cur[w] /\ pc[w] = "prepare"
          BY <1>1, <2>4, <3>2, <5>2 DEF ToolMoves, MovesKept, PreparedKnown, Target
        <5>3. CASE x = cur[w] /\ pc[w] # "prepare"
          BY <3>1, <3>2, <5>3 DEF ToolMoves, MayMove
        <5> QED
          BY <5>1, <5>2, <5>3
      <4> QED
        BY <4>1, <4>2
    <3>4. Versioned
      BY <1>1, <2>4, <3>2 DEF Versioned
    <3>5. ASSUME NEW v \in Actor PROVE MoveWhenCurrent(v)'
      <4>1. CASE v = w
        BY <2>2, <4>1 DEF MoveWhenCurrent
      <4>2. CASE v # w
        BY <2>2, <3>4, <4>2, StaysMovable DEF OthersStay, MovesKept
      <4> QED
        BY <4>1, <4>2
    <3> QED
      BY <3>3, <3>5 DEF MovesKept
  <2> QED
    BY <2>1, <2>3, <2>4
<1> QED
  BY <1>2, <1>3, ExecuteMoves

(* Every other step leaves the executions alone.                            *)
LEMMA NextMoves ==
  ASSUME TypeOK, MovesKept, [Next]_vars
  PROVE  (\A x \in Execution : ToolMoves(x)) /\ MovesKept'
<1>0. /\ Boot \in Actor /\ \A w \in Worker : w \in Actor
      /\ CapStream \notin Execution /\ Execution \subseteq Stream
  BY BrokerAssumption DEF Actor, Stream
<1>1. ASSUME NEW w \in Actor, Execute(w) \/ Settle(w)
      PROVE  (\A x \in Execution : ToolMoves(x)) /\ MovesKept'
  BY <1>1, ActsMove
<1>2. ASSUME UNCHANGED tool, known \subseteq known', \A x \in Execution : ver'[x] = ver[x],
             \A w \in Actor : \/ seen'[w] = None
                              \/ /\ pc'[w] = pc[w] /\ cur'[w] = cur[w]
                                 /\ seen'[w] = seen[w] /\ result'[w] = result[w]
      PROVE  (\A x \in Execution : ToolMoves(x)) /\ MovesKept'
  <2>1. Versioned /\ PreparedKnown' /\ \A x \in Execution : ToolMoves(x)
    BY <1>2 DEF Versioned, MovesKept, PreparedKnown, ToolMoves
  <2>2. ASSUME NEW w \in Actor PROVE MoveWhenCurrent(w)'
    <3>1. CASE seen'[w] = None
      BY <3>1 DEF MoveWhenCurrent
    <3>2. CASE /\ pc'[w] = pc[w] /\ cur'[w] = cur[w]
               /\ seen'[w] = seen[w] /\ result'[w] = result[w]
      BY <2>1, <3>2, StaysMovable DEF MovesKept
    <3> QED
      BY <1>2, <3>1, <3>2
  <2> QED
    BY <2>1, <2>2 DEF MovesKept
<1>3. ASSUME NEW w \in Worker, NEW x \in Execution, Submit(w, x)
      PROVE  (\A y \in Execution : ToolMoves(y)) /\ MovesKept'
  <2>1. /\ UNCHANGED <<durable, result>> /\ seen' = [seen EXCEPT ![w] = None]
        /\ \A v \in Actor \ {w} : pc'[v] = pc[v] /\ cur'[v] = cur[v]
    BY <1>0, <1>3 DEF Submit, Goto, TypeOK
  <2>2. \A v \in Actor : seen'[v] = None \/ (v # w /\ seen'[v] = seen[v])
    BY <1>0, <2>1 DEF TypeOK, SeenTypeOK
  <2> QED
    BY <1>2, <2>1, <2>2 DEF durable, toolVars
<1>4. ASSUME NEW x \in Execution, RecoverRun(x)
      PROVE  (\A y \in Execution : ToolMoves(y)) /\ MovesKept'
  <2>1. UNCHANGED <<tool, pc, cur, seen, result>> /\ known \subseteq known'
    BY <1>4 DEF RecoverRun, toolVars, local
  <2>2. \A y \in Execution : ver'[y] = ver[y]
    BY <1>0, <1>4 DEF RecoverRun, TypeOK
  <2> QED
    BY <1>2, <2>1, <2>2
<1>5. ASSUME NEW x \in Execution, Reconcile(x)
      PROVE  (\A y \in Execution : ToolMoves(y)) /\ MovesKept'
  <2>1. UNCHANGED <<tool, known, ver>>
    BY <1>5 DEF Reconcile, durable, toolVars
  <2>2. CASE UNCHANGED local
    BY <1>2, <2>1, <2>2 DEF local
  <2>3. CASE \E label, key, status : Recover(x, label, key, status)
    <3>1. /\ seen' = [seen EXCEPT ![Boot] = None]
          /\ \A v \in Actor \ {Boot} :
               pc'[v] = pc[v] /\ cur'[v] = cur[v] /\ result'[v] = result[v]
      BY <1>0, <2>3 DEF Recover, Goto, TypeOK
    <3>2. \A v \in Actor : seen'[v] = None \/ (v # Boot /\ seen'[v] = seen[v])
      BY <1>0, <3>1 DEF TypeOK, SeenTypeOK
    <3> QED
      BY <1>2, <2>1, <3>1, <3>2
  <2> QED
    BY <1>5, <2>2, <2>3 DEF Reconcile
<1>6. CASE RunsRecovered \/ Serve
  BY <1>2, <1>6 DEF RunsRecovered, Serve, local, durable, toolVars
<1>7. CASE Crash
  BY <1>2, <1>7 DEF Crash, durable, toolVars
<1>8. CASE RevokeGrant
  <2>1. UNCHANGED <<tool, pc, cur, seen, result, known>>
    BY <1>8 DEF RevokeGrant, Revoke, toolVars, local
  <2>2. \A y \in Execution : ver'[y] = ver[y]
    BY <1>0, <1>8 DEF RevokeGrant, TypeOK
  <2> QED
    BY <1>2, <2>1, <2>2
<1>9. CASE UNCHANGED vars
  BY <1>2, <1>9 DEF vars, local, durable, toolVars
<1>10. CASE Next
  BY <1>0, <1>1, <1>3, <1>4, <1>5, <1>6, <1>7, <1>8, <1>10 DEF Next, Recovery
<1> QED
  BY <1>9, <1>10

LEMMA InitMoves == Init => MovesKept
  BY DEF Init, MovesKept, PreparedKnown, MoveWhenCurrent

(* A tool execution moves only along the table of its aggregate, and what   *)
(* has ended stays as it ended (aggregates/tool_execution.py, TRANSITIONS), *)
(* for any number of threads, sent again or not, of crashes and recoveries: *)
(* though transition_tool_execution decides on a state that another thread  *)
(* may have changed before the commit.                                      *)
THEOREM ExecutionsFollowTable ==
  Spec => [][\A x \in Execution :
               /\ ToolMoves(x)
               /\ tool[x] \in TerminalStates => tool'[x] = tool[x]]_vars
<1>1. ASSUME TypeOK, MovesKept, [Next]_vars, NEW x \in Execution
      PROVE  ToolMoves(x) /\ (tool[x] \in TerminalStates => tool'[x] = tool[x])
  <2>1. ToolMoves(x)
    BY <1>1, NextMoves
  <2> QED
    BY <2>1 DEF ToolMoves, CanMove, Transitions, TerminalStates
<1>2. TypeOK /\ MovesKept /\ [Next]_vars =>
        [\A x \in Execution : /\ ToolMoves(x)
                              /\ tool[x] \in TerminalStates => tool'[x] = tool[x]]_vars
  BY <1>1
<1>3. TypeOK /\ MovesKept /\ [Next]_vars => MovesKept'
  BY NextMoves
<1> QED
  BY <1>2, <1>3, InitMoves, BrokerTypeCorrect, PTL DEF Spec
-----------------------------------------------------------------------------
(* What holds at rest and at work.  The rest of the module is about         *)
(* services that are not sent a request again while it is running; the run  *)
(* ToolBrokerResend shows what happens to one that is.                      *)
Known(x, key) == <<x, key>> \in known
IsSettled(x) == reservation[x] \in {"finalized", "awaiting_reconciliation"}
Holds(x) == reservation[x] = "open" \/ RunSettled(x)
CountedUse(x) == \E o \in Counted : ConsumedAs(x, o)
ReturnedUse(x) == ConsumedAs(x, "failed") \/ RunSettled(x)

Predispatch ==
  {"expiry-predispatch-settle", "deny-predispatch-settle", "recover-predispatch-settle"}

(* A key that is known tells how far its execution has come, so that a call *)
(* whose state has not been reached is never answered with an old result.   *)
KeysTell(x) ==
  /\ Known(x, "prepared") => tool[x] # "absent"
  /\ Known(x, "admitted") => tool[x] \notin {"absent", "prepared"}
  /\ Known(x, "dispatching") => tool[x] \in Crossed \cup TerminalStates
  /\ Known(x, "effect_observed") =>
       tool[x] \in {"effect_observed", "settling"} \cup TerminalStates
  /\ Known(x, "settling") => tool[x] \in {"settling"} \cup TerminalStates
  /\ \A key \in TerminalStates \cup Predispatch : Known(x, key) => tool[x] \in TerminalStates
  /\ Known(x, "reserve-capability") <=> reservation[x] # "none"
  /\ Known(x, "finalize-capability") => IsSettled(x) /\ ~RunSettled(x)
  /\ Known(x, "reconcile-capability") => IsSettled(x) /\ CountedUse(x)
  /\ RunSettled(x) => IsSettled(x)

(* What the two aggregates say of an execution, whoever works on it. *)
Rests(x) ==
  /\ tool[x] # "cancelled"
  /\ tool[x] = "absent" => reservation[x] = "none"
  /\ tool[x] = "prepared" => ~toolRes[x] /\ (IsSettled(x) => RunSettled(x))
  /\ tool[x] = "admitted" => toolRes[x] /\ Holds(x)
  /\ tool[x] \in {"absent", "prepared", "admitted"} => invoked[x] = 0
  /\ tool[x] = "completed" => IsSettled(x) /\ CountedUse(x)
  /\ tool[x] = "failed" => reservation[x] = "none" \/ (IsSettled(x) /\ ReturnedUse(x))
  /\ invoked[x] <= 1

SettledAs(x, status) ==
  IsSettled(x) /\ IF status = "succeeded" THEN CountedUse(x) ELSE ReturnedUse(x)

(* What a thread at each place of execute() may rely on, and recovery.      *)
AtStart(w, x) ==
  /\ pc[w] = "prepare" => tool[x] = "absent" /\ copy[w] = Fresh
  /\ pc[w] \in {"lease", "refuse", "preflight"} =>
       /\ Resumable(x) /\ copy[w] = [state |-> tool[x], res |-> toolRes[x]]
       /\ tool[x] = "prepared" => reservation[x] # "open"
  /\ pc[w] \in {"refuse", "close"} =>
       stage[w] \in Predispatch /\ result[w] \in {"denied", "failed"}
  /\ pc[w] = "close" => IF w = Boot THEN Orphan(x) ELSE tool[x] = "admitted"
  /\ pc[w] = "fail" =>
       tool[x] = "prepared" /\ reservation[x] # "open" /\ result[w] \in {"denied", "failed"}

AtWork(w, x) ==
  /\ pc[w] = "reserve" => tool[x] = "prepared" /\ reservation[x] # "open"
  /\ pc[w] = "admit" => tool[x] = "prepared" /\ Holds(x)
  /\ pc[w] = "dispatch" => tool[x] = "admitted"
  /\ pc[w] = "effect" => tool[x] = "dispatching" /\ Holds(x) /\ invoked[x] = 0
  /\ pc[w] = "observe" => tool[x] = "dispatching" /\ Holds(x)
  /\ pc[w] = "return" => tool[x] = "effect_observed" /\ Holds(x)

AtEnd(w, x) ==
  /\ pc[w] = "finalize" /\ w # Boot =>
       /\ tool[x] \in {"dispatching", "effect_observed"} /\ Holds(x)
       /\ result[w] \in AdapterStatus
  /\ pc[w] = "finalize" /\ w = Boot =>
       /\ tool[x] \in Crossed
       /\ \/ stage[w] = "reconcile-capability" /\ result[w] \in Counted
          \/ stage[w] = "missing-tool-capability" /\ result[w] = "indeterminate"
  /\ pc[w] = "settling" =>
       /\ tool[x] \in {"dispatching", "effect_observed"}
       /\ result[w] \in AdapterStatus \ {"indeterminate"} /\ SettledAs(x, result[w])
  /\ pc[w] = "terminal" =>
       /\ tool[x] \in Crossed /\ result[w] \in AdapterStatus
       /\ result[w] # "indeterminate" => tool[x] = "settling" /\ SettledAs(x, result[w])

(* What a thread has read of its own execution nobody overtakes, and nobody *)
(* overtakes recovery at all.                                               *)
Reading(w, x) ==
  /\ pc[w] = "idle" => seen[w] = None
  /\ pc[w] \in OwnCalls /\ seen[w] # None => DOMAIN seen[w] = {x} /\ seen[w][x] = ver[x]
  /\ w = Boot => pc[w] \in {"idle", "close", "finalize", "settling", "terminal"}
  /\ w = Boot /\ seen[w] # None => Current(w)

PlaceOf(w, x) == AtStart(w, x) /\ AtWork(w, x) /\ AtEnd(w, x) /\ Reading(w, x)

(* Work that only its thread, or recovery, can bring to an end. *)
Unfinished(x) == tool[x] \in Crossed \/ Orphan(x)

OneActor == \A v, w \in Actor : cur[v] = cur[w] /\ cur[v] # None => v = w

Attended ==
  \A x \in Execution : Unfinished(x) =>
    IF mode = "up" THEN Running(x) ELSE x \in todo \/ cur[Boot] = x

InOrder ==
  /\ \A x \in Execution : KeysTell(x) /\ Rests(x)
  /\ \A w \in Actor : PlaceOf(w, cur[w])
  /\ OneActor
  /\ Attended

(* A step that does not concern an execution leaves all of it alone; its    *)
(* consumptions are never taken back.                                       *)
Same(x) ==
  /\ tool'[x] = tool[x] /\ toolRes'[x] = toolRes[x] /\ reservation'[x] = reservation[x]
  /\ ver'[x] = ver[x] /\ invoked'[x] = invoked[x]
  /\ \A key : <<x, key>> \in known' <=> <<x, key>> \in known
  /\ \A o : ConsumedAs(x, o) => ConsumedAs(x, o)'

LEMMA SameTells ==
  ASSUME NEW x \in Execution, Same(x), KeysTell(x), Rests(x)
  PROVE  KeysTell(x)' /\ Rests(x)' /\ (Unfinished(x)' <=> Unfinished(x))
<1>1. /\ CountedUse(x) => CountedUse(x)'
      /\ ReturnedUse(x) => ReturnedUse(x)'
  BY DEF Same, CountedUse, ReturnedUse, RunSettled
<1>2. /\ RunSettled(x)' <=> RunSettled(x)
      /\ \A key : Known(x, key)' <=> Known(x, key)
      /\ IsSettled(x)' <=> IsSettled(x)
      /\ Holds(x)' <=> Holds(x)
  BY DEF Same, RunSettled, Known, IsSettled, Holds
<1>3. KeysTell(x)'
  BY <1>1, <1>2 DEF Same, KeysTell
<1>4. Rests(x)'
  BY <1>1, <1>2 DEF Same, Rests
<1> QED
  BY <1>3, <1>4 DEF Same, Unfinished, Orphan

LEMMA SamePlace ==
  ASSUME NEW x \in Execution, NEW w \in Actor, Same(x), PlaceOf(w, x),
         pc'[w] = pc[w], copy'[w] = copy[w], stage'[w] = stage[w], result'[w] = result[w]
  PROVE  AtStart(w, x)' /\ AtWork(w, x)' /\ AtEnd(w, x)'
<1>1. /\ CountedUse(x) => CountedUse(x)'
      /\ ReturnedUse(x) => ReturnedUse(x)'
  BY DEF Same, CountedUse, ReturnedUse, RunSettled
<1>2. /\ IsSettled(x)' <=> IsSettled(x)
      /\ Holds(x)' <=> Holds(x)
  BY DEF Same, RunSettled, IsSettled, Holds
<1>3. AtStart(w, x)'
  BY DEF Same, PlaceOf, AtStart, Resumable, Orphan
<1>4. AtWork(w, x)'
  BY <1>2 DEF Same, PlaceOf, AtWork
<1>5. AtEnd(w, x)'
  BY <1>1, <1>2 DEF Same, PlaceOf, AtEnd, SettledAs
<1> QED
  BY <1>3, <1>4, <1>5

(* A settlement is recorded and nothing recorded before it is lost.        *)
LEMMA FinalizeRecords ==
  ASSUME TypeOK, GrantTypeOK, NEW x \in Execution, NEW o \in Outcome, Finalize(x, o)
  PROVE  /\ IsSettled(x)' /\ ConsumedAs(x, o)'
         /\ \A y \in Execution \ {x} : reservation'[y] = reservation[y]
         /\ \A y, p : ConsumedAs(y, p) => ConsumedAs(y, p)'
<1>1. IsSettled(x)' /\ \A y \in Execution \ {x} : reservation'[y] = reservation[y]
  BY DEF Finalize, IsSettled, TypeOK
<1> DEFINE S == [reservation : Reservation, outcome : Outcome]
           c == [reservation |-> x, outcome |-> o]
<1>2. consumptions \in Seq(S) /\ c \in S /\ consumptions' = Append(consumptions, c)
  BY DEF Finalize, GrantTypeOK, Execution
<1>3. /\ Len(consumptions) \in Nat /\ DOMAIN consumptions = 1..Len(consumptions)
      /\ DOMAIN consumptions' = 1..(Len(consumptions) + 1)
      /\ consumptions'[Len(consumptions) + 1] = c
      /\ \A i \in DOMAIN consumptions : consumptions'[i] = consumptions[i]
  BY <1>2
<1>4. ConsumedAs(x, o)'
  BY <1>3 DEF ConsumedAs
<1>5. ASSUME NEW y, NEW p, ConsumedAs(y, p) PROVE ConsumedAs(y, p)'
  BY <1>3, <1>5 DEF ConsumedAs
<1> QED
  BY <1>1, <1>4, <1>5

(* Whoever executes leaves every other execution alone. *)
LEMMA ActsElsewhere ==
  ASSUME TypeOK, GrantTypeOK, NEW w \in Actor, Acts(w), NEW y \in Execution, y # cur[w]
  PROVE  Same(y)
<1>1. cur[w] \in Execution /\ y # CapStream /\ y \in Stream
  BY BrokerAssumption DEF Acts, TypeOK, Stream
<1>2. invoked'[y] = invoked[y]
  BY <1>1 DEF Acts, TypeOK
<1>3. CASE UNCHANGED durable
  BY <1>2, <1>3 DEF Same, durable, toolVars, capState, useVars, ConsumedAs
<1>4. CASE Writes(w)
  <2>1. PICK key \in KeyStage, streams \in SUBSET {cur[w], CapStream} : Wrote(w, key, streams)
    BY <1>4 DEF Writes
  <2>2. ver'[y] = ver[y] /\ \A k : <<y, k>> \in known' <=> <<y, k>> \in known
    BY <1>1, <2>1 DEF Wrote
  <2>3. tool'[y] = tool[y] /\ toolRes'[y] = toolRes[y]
    BY <1>1, <1>4 DEF Writes, SetsTool, SetTool, toolVars, TypeOK
  <2>4. /\ reservation'[y] = reservation[y]
        /\ \A o : ConsumedAs(y, o) => ConsumedAs(y, o)'
    <3>1. CASE UNCHANGED capState
      BY <3>1 DEF capState, useVars, ConsumedAs
    <3>2. CASE Reserve(cur[w], RequestOperation, now)
      BY <1>1, <3>2 DEF Reserve, ConsumedAs, TypeOK
    <3>3. CASE \E o \in Outcome : Finalize(cur[w], o)
      BY <1>1, <3>3, FinalizeRecords
    <3> QED
      BY <1>4, <3>1, <3>2, <3>3 DEF Writes, Outcome
  <2> QED
    BY <1>2, <2>2, <2>3, <2>4 DEF Same
<1> QED
  BY <1>3, <1>4 DEF Acts

(* What a step of w on its execution x has to keep. *)
Kept(w, x) ==
  /\ KeysTell(x)' /\ Rests(x)'
  /\ cur'[w] = x => PlaceOf(w, x)'
  /\ cur'[w] # x => cur'[w] = None /\ ~Unfinished(x)' /\ PlaceOf(w, None)'

(* A thread that stays where it is and whose execution is left alone is     *)
(* still in its place.                                                      *)
LEMMA StandsStill ==
  ASSUME TypeOK, InOrder, NEW v \in Actor,
         pc'[v] = pc[v], cur'[v] = cur[v], copy'[v] = copy[v], seen'[v] = seen[v],
         stage'[v] = stage[v], result'[v] = result[v],
         cur[v] # None => v # Boot /\ Same(cur[v])
  PROVE  PlaceOf(v, cur[v])'
<1>1. CASE cur[v] = None
  <2>1. pc'[v] = "idle" /\ seen'[v] = None
    BY <1>1 DEF TypeOK, InOrder, PlaceOf, Reading
  <2> QED
    BY <2>1 DEF PlaceOf, AtStart, AtWork, AtEnd, Reading, OwnCalls
<1>2. CASE cur[v] # None
  <2>1. PICK y \in Execution : y = cur[v] /\ cur'[v] = y /\ v # Boot
    BY <1>2 DEF TypeOK
  <2>2. Same(y) /\ PlaceOf(v, y)
    BY <1>2, <2>1 DEF InOrder
  <2>3. AtStart(v, y)' /\ AtWork(v, y)' /\ AtEnd(v, y)'
    BY <2>2, SamePlace
  <2>4. Reading(v, y)'
    BY <2>1, <2>2 DEF PlaceOf, Reading, Same
  <2> QED
    BY <2>1, <2>3, <2>4 DEF PlaceOf, AtStart, AtWork, AtEnd, Reading, Current, SettledAs
<1> QED
  BY <1>1, <1>2

(* A thread that keeps its own execution in order keeps the others, too.   *)
LEMMA ActKeeps ==
  ASSUME GrantKept, InOrder, NEW w \in Actor, NEW x \in Execution, cur[w] = x, Acts(w),
         Kept(w, x)
  PROVE  InOrder'
<1>0. TypeOK /\ GrantTypeOK /\ None \notin Execution /\ Boot \notin Worker
  BY BrokerAssumption DEF GrantKept, GrantInv
<1>1. OthersStay(w) /\ mode' = mode /\ todo' = todo /\ pc[w] # "idle"
  BY <1>0, MovesType, ReadsType DEF Acts, service
<1>2. \A y \in Execution \ {x} : Same(y)
  BY <1>0, ActsElsewhere
<1>3. \A v \in Actor : pc[v] # "idle" => mode = (IF v = Boot THEN "boot" ELSE "up")
  BY <1>0 DEF TypeOK
<1>4. ASSUME NEW y \in Execution PROVE KeysTell(y)' /\ Rests(y)'
  BY <1>2, SameTells DEF Kept, InOrder
<1>5. ASSUME NEW v \in Actor PROVE PlaceOf(v, cur[v])'
  <2>1. CASE v = w
    BY <2>1 DEF Kept, PlaceOf, AtStart, AtWork, AtEnd, Reading, Current, SettledAs
  <2>2. CASE v # w
    <3>1. cur[v] # None => cur[v] \in Execution \ {x} /\ v # Boot
      BY <1>0, <1>1, <1>3, <2>2 DEF TypeOK, InOrder, OneActor
    <3> QED
      BY <1>0, <1>1, <1>2, <2>2, <3>1, StandsStill DEF OthersStay
  <2> QED
    BY <2>1, <2>2
<1>6. OneActor'
  BY <1>0, <1>1 DEF OthersStay, InOrder, OneActor, Kept
<1>7. Attended'
  <2> SUFFICES ASSUME NEW y \in Execution, Unfinished(y)'
               PROVE  IF mode' = "up" THEN Running(y)' ELSE y \in todo' \/ cur'[Boot] = y
    BY DEF Attended
  <2>1. CASE y = x
    BY <1>1, <1>3, <2>1 DEF Kept, Running, Actor
  <2>2. CASE y # x
    <3>1. IF mode = "up" THEN Running(y) ELSE y \in todo \/ cur[Boot] = y
      BY <1>2, <2>2, SameTells DEF InOrder, Attended
    <3>2. \A v \in Actor : cur[v] = y => cur'[v] = y
      BY <1>1, <2>2 DEF OthersStay
    <3> QED
      BY <1>1, <3>1, <3>2 DEF Running, Actor
  <2> QED
    BY <2>1, <2>2
<1> QED
  BY <1>4, <1>5, <1>6, <1>7 DEF InOrder

(* Where moving takes a thread. *)
LEMMA MoveSets ==
  ASSUME TypeOK, NEW w \in Actor, NEW x \in Execution, cur[w] = x
  PROVE  /\ Return(w) => cur'[w] = None /\ PlaceOf(w, None)'
         /\ \A label : Proceed(w, label) =>
              /\ pc'[w] = label /\ seen'[w] = None /\ cur'[w] = x
              /\ copy'[w] = copy[w] /\ stage'[w] = stage[w] /\ result'[w] = result[w]
         /\ \A label, status : ProceedWith(w, label, status) =>
              /\ pc'[w] = label /\ seen'[w] = None /\ cur'[w] = x
              /\ copy'[w] = copy[w] /\ stage'[w] = stage[w] /\ result'[w] = status
         /\ \A key : Deny(w, key) =>
              /\ pc'[w] = "refuse" /\ seen'[w] = None /\ cur'[w] = x
              /\ copy'[w] = copy[w] /\ stage'[w] = key /\ result'[w] = "denied"
<1> USE DEF Goto, TypeOK, SeenTypeOK
<1>1. ASSUME Return(w) PROVE cur'[w] = None /\ PlaceOf(w, None)'
  <2>1. cur'[w] = None /\ pc'[w] = "idle" /\ seen'[w] = None
    BY <1>1 DEF Return
  <2> QED
    BY <2>1 DEF PlaceOf, AtStart, AtWork, AtEnd, Reading, OwnCalls
<1>2. ASSUME NEW label, Proceed(w, label)
      PROVE  /\ pc'[w] = label /\ seen'[w] = None /\ cur'[w] = x
             /\ copy'[w] = copy[w] /\ stage'[w] = stage[w] /\ result'[w] = result[w]
  BY <1>2 DEF Proceed
<1>3. ASSUME NEW label, NEW status, ProceedWith(w, label, status)
      PROVE  /\ pc'[w] = label /\ seen'[w] = None /\ cur'[w] = x
             /\ copy'[w] = copy[w] /\ stage'[w] = stage[w] /\ result'[w] = status
  BY <1>3 DEF ProceedWith
<1>4. ASSUME NEW key, Deny(w, key)
      PROVE  /\ pc'[w] = "refuse" /\ seen'[w] = None /\ cur'[w] = x
             /\ copy'[w] = copy[w] /\ stage'[w] = key /\ result'[w] = "denied"
  BY <1>4 DEF Deny
<1> QED
  BY <1>1, <1>2, <1>3, <1>4

(* Nothing that is written keeps what the keys and the aggregates say.     *)
LEMMA UnwrittenTells ==
  ASSUME GrantKept, InOrder, NEW x \in Execution, UNCHANGED durable, invoked' = invoked
  PROVE  Same(x) /\ KeysTell(x)' /\ Rests(x)' /\ (Unfinished(x)' <=> Unfinished(x))
<1>1. Same(x)
  BY DEF Same, durable, toolVars, capState, useVars, ConsumedAs
<1> QED
  BY <1>1, SameTells DEF InOrder

(* Reading what a call needs does not move the thread. *)
LEMMA ReadKeeps ==
  ASSUME GrantKept, InOrder, NEW w \in Actor, NEW x \in Execution, cur[w] = x,
         ReadsFor(w), UNCHANGED <<durable, pc, cur, copy, stage, result>>, invoked' = invoked
  PROVE  Kept(w, x)
<1>1. Same(x) /\ KeysTell(x)' /\ Rests(x)'
  BY UnwrittenTells
<1>2. PICK streams \in SUBSET Stream :
        /\ seen' = [seen EXCEPT ![w] = [s \in streams |-> ver[s]]]
        /\ pc[w] \in OwnCalls => streams = {x}
  BY DEF ReadsFor
<1>3. seen'[w] = [s \in streams |-> ver[s]] /\ ver' = ver /\ pc[w] # "idle"
  BY <1>2, BrokerAssumption DEF GrantKept, TypeOK, SeenTypeOK, durable
<1>4. PlaceOf(w, x)
  BY DEF InOrder
<1>5. Reading(w, x)'
  BY <1>2, <1>3, <1>4 DEF PlaceOf, Reading, Current
<1>6. AtStart(w, x)' /\ AtWork(w, x)' /\ AtEnd(w, x)'
  BY <1>1, <1>4, SamePlace
<1> QED
  BY <1>1, <1>5, <1>6 DEF Kept, PlaceOf

(* What a transaction on the execution alone leaves behind. *)
OwnCall(x, to, res, status) ==
  /\ SetTool(x, to, res, status) /\ UNCHANGED capState
  /\ known' = known \cup {<<x, to>>}

Advanced(x, to) ==
  /\ tool'[x] = to /\ invoked'[x] = invoked[x] /\ reservation'[x] = reservation[x]
  /\ IsSettled(x)' <=> IsSettled(x)
  /\ \A o : ConsumedAs(x, o)' <=> ConsumedAs(x, o)
  /\ \A key : Known(x, key)' <=> Known(x, key) \/ key = to

LEMMA OwnWrite ==
  ASSUME GrantKept, NEW x \in Execution, NEW to, NEW res \in BOOLEAN, NEW status,
         OwnCall(x, to, res, status), invoked' = invoked
  PROVE  Advanced(x, to) /\ toolRes'[x] = res
<1>1. tool'[x] = to /\ toolRes'[x] = res /\ invoked' = invoked
  BY DEF OwnCall, SetTool, GrantKept, TypeOK
<1>2. reservation' = reservation /\ consumptions' = consumptions
  BY DEF OwnCall, capState, useVars
<1>3. \A key : Known(x, key)' <=> Known(x, key) \/ key = to
  BY DEF OwnCall, Known
<1> QED
  BY <1>1, <1>2, <1>3 DEF Advanced, IsSettled, ConsumedAs

(* What a settlement leaves behind. *)
LEMMA UseWrite ==
  ASSUME GrantKept, NEW x \in Execution, NEW key, NEW o \in Outcome,
         Finalize(x, o), known' = known \cup {<<x, key>>}, invoked' = invoked
  PROVE  /\ IsSettled(x)' /\ reservation'[x] \notin {"none", "open"} /\ ConsumedAs(x, o)'
         /\ \A p : ConsumedAs(x, p) => ConsumedAs(x, p)'
         /\ \A k : Known(x, k)' <=> Known(x, k) \/ k = key
<1>1. IsSettled(x)' /\ ConsumedAs(x, o)' /\ \A p : ConsumedAs(x, p) => ConsumedAs(x, p)'
  BY FinalizeRecords DEF GrantKept, GrantInv
<1>2. \A k : Known(x, k)' <=> Known(x, k) \/ k = key
  BY DEF Known
<1> QED
  BY <1>1, <1>2 DEF IsSettled

(* A thread that moves without writing keeps its execution in order if it   *)
(* may be where it arrives, or may leave the execution as it is.            *)
LEMMA MoveKeeps ==
  ASSUME GrantKept, InOrder, NEW w \in Actor, NEW x \in Execution, cur[w] = x,
         UNCHANGED durable, invoked' = invoked,
         \/ cur'[w] = x /\ PlaceOf(w, x)'
         \/ Return(w) /\ ~Unfinished(x)
  PROVE  Kept(w, x)
<1>1. Same(x) /\ KeysTell(x)' /\ Rests(x)' /\ (Unfinished(x)' <=> Unfinished(x))
  BY UnwrittenTells
<1>2. CASE cur'[w] = x /\ PlaceOf(w, x)'
  BY <1>1, <1>2 DEF Kept
<1>3. CASE Return(w) /\ ~Unfinished(x)
  BY <1>1, <1>3, MoveSets, BrokerAssumption DEF Kept, GrantKept
<1> QED
  BY <1>2, <1>3

(* A call on the stream of the execution alone is never overtaken: it reads *)
(* what it needs or commits.                                                *)
LEMMA OwnCallCommits ==
  ASSUME GrantKept, InOrder, NEW w \in Actor, NEW x \in Execution, cur[w] = x,
         pc[w] \in OwnCalls
  PROVE  /\ seen[w] # None => Current(w)
         /\ seen' = [seen EXCEPT ![w] = [s \in {x} |-> ver[s]]] => ReadsFor(w)
<1>1. PlaceOf(w, x)
  BY DEF InOrder
<1>2. seen[w] # None => Current(w)
  BY <1>1 DEF PlaceOf, Reading, Current
<1> QED
  BY <1>2 DEF ReadsFor, OwnCalls, Stream

(* prepare_tool_execution: the key was not known, nothing was reserved.    *)
LEMMA PrepareKeeps ==
  ASSUME GrantKept, InOrder, NEW w \in Actor, NEW x \in Execution, cur[w] = x,
         invoked' = invoked, Prepare(w)
  PROVE  Kept(w, x)
<1>1. PlaceOf(w, x) /\ KeysTell(x) /\ Rests(x) /\ TypeOK /\ pc[w] \in OwnCalls
  BY DEF InOrder, GrantKept, Prepare, OwnCalls
<1>2. /\ tool[x] = "absent" /\ copy[w] = Fresh /\ reservation[x] = "none"
      /\ w # Boot /\ ~Known(x, "prepared")
  BY <1>1 DEF Prepare, PlaceOf, AtStart, Reading, KeysTell, Rests
<1>3. \/ ReadsFor(w) /\ UNCHANGED <<durable, pc, cur, copy, stage, result>>
      \/ OwnCall(x, "prepared", FALSE, "none") /\ Proceed(w, "lease")
  BY <1>1, <1>2, OwnCallCommits DEF Prepare, Call, OwnCall, Known
<1>4. ASSUME OwnCall(x, "prepared", FALSE, "none"), Proceed(w, "lease") PROVE Kept(w, x)
  <2>1. Advanced(x, "prepared") /\ toolRes'[x] = FALSE
    BY <1>4, OwnWrite
  <2>2. /\ pc'[w] = "lease" /\ seen'[w] = None /\ cur'[w] = x /\ copy'[w] = copy[w]
    BY <1>1, <1>4, MoveSets
  <2>3. KeysTell(x)' /\ Rests(x)'
    BY <1>1, <1>2, <2>1
       DEF Advanced, KeysTell, Rests, RunSettled, Known, IsSettled, CountedUse, TerminalStates,
           Predispatch, Crossed
  <2>4. PlaceOf(w, x)'
    BY <1>2, <2>1, <2>2
       DEF Advanced, PlaceOf, AtStart, AtWork, AtEnd, Reading, OwnCalls, Fresh, Resumable
  <2> QED
    BY <2>2, <2>3, <2>4 DEF Kept
<1> QED
  BY <1>3, <1>4, ReadKeeps

(* The steps between the calls: the request is checked, refused or sent on  *)
(* to reserve or, when it was admitted before, to dispatch.                 *)
LEMMA CheckKeeps ==
  ASSUME GrantKept, InOrder, NEW w \in Actor, NEW x \in Execution, cur[w] = x,
         invoked' = invoked, CheckRequest(w) \/ Refuse(w) \/ Preflight(w)
  PROVE  Kept(w, x)
<1>1. PlaceOf(w, x) /\ KeysTell(x) /\ Rests(x) /\ TypeOK
  BY DEF InOrder, GrantKept
<1>2. /\ Resumable(x) /\ copy[w].state = tool[x] /\ copy[w].res = toolRes[x] /\ w # Boot
      /\ copy[w] = [state |-> tool[x], res |-> toolRes[x]]
      /\ tool[x] = "prepared" => reservation[x] # "open"
  BY <1>1 DEF CheckRequest, Refuse, Preflight, PlaceOf, AtStart, Reading
<1>3. Same(x) /\ UNCHANGED durable
  BY UnwrittenTells DEF CheckRequest, Refuse, Preflight
<1> USE DEF PlaceOf, AtStart, AtWork, AtEnd, Reading, OwnCalls, Resumable, Same
<1>4. CASE CheckRequest(w)
  <2>1. ASSUME NEW key \in Predispatch, Deny(w, key) PROVE Kept(w, x)
    <3>1. /\ pc'[w] = "refuse" /\ seen'[w] = None /\ cur'[w] = x
          /\ copy'[w] = copy[w] /\ stage'[w] = key /\ result'[w] = "denied"
      BY <1>1, <2>1, MoveSets
    <3>2. PlaceOf(w, x)'
      BY <1>2, <1>3, <3>1
    <3> QED
      BY <1>3, <3>1, <3>2, MoveKeeps
  <2>2. ASSUME Proceed(w, "preflight") PROVE Kept(w, x)
    <3>1. pc'[w] = "preflight" /\ seen'[w] = None /\ cur'[w] = x /\ copy'[w] = copy[w]
      BY <1>1, <2>2, MoveSets
    <3>2. PlaceOf(w, x)'
      BY <1>2, <1>3, <3>1
    <3> QED
      BY <1>3, <3>1, <3>2, MoveKeeps
  <2> QED
    BY <1>4, <2>1, <2>2 DEF CheckRequest, Predispatch
<1>5. CASE Refuse(w)
  <2>1. HoldsReservation(w) <=> tool[x] = "admitted"
    BY <1>1, <1>2 DEF HoldsReservation, Rests
  <2>2. /\ pc'[w] = (IF tool[x] = "admitted" THEN "close" ELSE "fail")
        /\ seen'[w] = None /\ cur'[w] = x
        /\ copy'[w] = copy[w] /\ stage'[w] = stage[w] /\ result'[w] = result[w]
    BY <1>1, <1>5, <2>1, MoveSets DEF Refuse
  <2>3. PlaceOf(w, x)'
    BY <1>1, <1>2, <1>3, <1>5, <2>2 DEF Refuse
  <2> QED
    BY <1>3, <2>2, <2>3, MoveKeeps
<1>6. CASE Preflight(w)
  <2>1. ASSUME NEW status \in {"denied", "failed"}, tool[x] = "prepared",
               ProceedWith(w, "fail", status)
        PROVE  Kept(w, x)
    <3>1. pc'[w] = "fail" /\ seen'[w] = None /\ cur'[w] = x /\ result'[w] = status
      BY <1>1, <2>1, MoveSets
    <3>2. PlaceOf(w, x)'
      BY <1>2, <1>3, <2>1, <3>1
    <3> QED
      BY <1>3, <3>1, <3>2, MoveKeeps
  <2>2. ASSUME Proceed(w, IF toolRes[x] THEN "dispatch" ELSE "reserve") PROVE Kept(w, x)
    <3>1. /\ pc'[w] = (IF toolRes[x] THEN "dispatch" ELSE "reserve")
          /\ seen'[w] = None /\ cur'[w] = x
      BY <1>1, <2>2, MoveSets
    <3>2. PlaceOf(w, x)'
      BY <1>1, <1>2, <1>3, <3>1 DEF Rests
    <3> QED
      BY <1>3, <3>1, <3>2, MoveKeeps
  <2> QED
    BY <1>2, <1>6, <2>1, <2>2 DEF Preflight
<1> QED
  BY <1>4, <1>5, <1>6

(* A request refused before it reserved anything: the execution fails. *)
LEMMA FailKeeps ==
  ASSUME GrantKept, InOrder, NEW w \in Actor, NEW x \in Execution, cur[w] = x,
         invoked' = invoked, Fail(w)
  PROVE  Kept(w, x)
<1>1. PlaceOf(w, x) /\ KeysTell(x) /\ Rests(x) /\ TypeOK /\ pc[w] \in OwnCalls
  BY DEF InOrder, GrantKept, Fail, OwnCalls
<1>2. /\ tool[x] = "prepared" /\ reservation[x] # "open" /\ toolRes[x] \in BOOLEAN
      /\ ~Known(x, "failed")
  BY <1>1 DEF Fail, PlaceOf, AtStart, KeysTell, TerminalStates, TypeOK
<1>3. \/ ReadsFor(w) /\ UNCHANGED <<durable, pc, cur, copy, stage, result>>
      \/ OwnCall(x, "failed", toolRes[x], result[w]) /\ Return(w)
  <2>1. CanMove(x, "failed")
    BY <1>2 DEF CanMove, Transitions
  <2> QED
    BY <1>1, <1>2, <2>1, OwnCallCommits DEF Fail, Transition, Call, OwnCall, Known
<1>4. ASSUME OwnCall(x, "failed", toolRes[x], result[w]), Return(w) PROVE Kept(w, x)
  <2>1. Advanced(x, "failed")
    <3>1. PICK res, status : res \in BOOLEAN /\ OwnCall(x, "failed", res, status)
      BY <1>2, <1>4
    <3> QED
      BY <3>1, OwnWrite
  <2>2. reservation[x] = "none" \/ (IsSettled(x) /\ RunSettled(x))
    BY <1>1, <1>2 DEF Rests, IsSettled, TypeOK, ReservationState
  <2>3. KeysTell(x)' /\ Rests(x)'
    BY <1>1, <1>2, <2>1, <2>2
       DEF Advanced, KeysTell, Rests, RunSettled, Known, IsSettled, CountedUse, ReturnedUse,
           TerminalStates, Predispatch, Crossed
  <2>4. cur'[w] = None /\ PlaceOf(w, None)' /\ ~Unfinished(x)'
    BY <1>1, <1>4, <2>1, MoveSets DEF Advanced, Unfinished, Orphan, Crossed
  <2> QED
    BY <2>3, <2>4, BrokerAssumption DEF Kept
<1> QED
  BY <1>3, <1>4, ReadKeeps

(* reserve_use: refused, overtaken, answered by its key or committed.       *)
LEMMA ReserveKeeps ==
  ASSUME GrantKept, InOrder, NEW w \in Actor, NEW x \in Execution, cur[w] = x,
         invoked' = invoked, ReserveForUse(w)
  PROVE  Kept(w, x)
<1>1. PlaceOf(w, x) /\ KeysTell(x) /\ Rests(x) /\ TypeOK
  BY DEF InOrder, GrantKept
<1>2. tool[x] = "prepared" /\ reservation[x] # "open" /\ w # Boot
  BY <1>1 DEF ReserveForUse, PlaceOf, AtWork, Reading
<1>3. \/ ReadsFor(w) /\ UNCHANGED <<durable, pc, cur, copy, stage, result>>
      \/ Return(w) /\ UNCHANGED durable
      \/ Known(x, "reserve-capability") /\ Proceed(w, "admit") /\ UNCHANGED durable
      \/ /\ ~Known(x, "reserve-capability") /\ Proceed(w, "admit")
         /\ known' = known \cup {<<x, "reserve-capability">>}
         /\ Reserve(x, RequestOperation, now) /\ UNCHANGED toolVars
  BY DEF ReserveForUse, Call, Known, ReadsFor, Stream, OwnCalls
<1>4. ASSUME Return(w), UNCHANGED durable PROVE Kept(w, x)
  <2>1. ~Unfinished(x)
    BY <1>2 DEF Unfinished, Orphan, Crossed
  <2> QED
    BY <1>4, <2>1, MoveKeeps
<1>5. ASSUME Proceed(w, "admit")
      PROVE  pc'[w] = "admit" /\ seen'[w] = None /\ cur'[w] = x
  BY <1>1, <1>5, MoveSets
<1>6. ASSUME Known(x, "reserve-capability"), Proceed(w, "admit"), UNCHANGED durable
      PROVE  Kept(w, x)
  <2>1. Holds(x)
    BY <1>1, <1>2, <1>6 DEF KeysTell, Rests, Holds, IsSettled, TypeOK, ReservationState
  <2>2. Same(x)
    BY <1>6, UnwrittenTells
  <2>3. PlaceOf(w, x)'
    BY <1>2, <1>5, <1>6, <2>1, <2>2
       DEF PlaceOf, AtStart, AtWork, AtEnd, Reading, OwnCalls, Same, Holds, RunSettled
  <2> QED
    BY <1>5, <1>6, <2>3, MoveKeeps
<1>7. ASSUME ~Known(x, "reserve-capability"), Proceed(w, "admit"),
             known' = known \cup {<<x, "reserve-capability">>},
             Reserve(x, RequestOperation, now), UNCHANGED toolVars
      PROVE  Kept(w, x)
  <2>1. /\ tool'[x] = "prepared" /\ toolRes'[x] = toolRes[x] /\ invoked'[x] = invoked[x]
        /\ reservation'[x] = "open" /\ reservation[x] = "none"
        /\ \A k : Known(x, k)' <=> Known(x, k) \/ k = "reserve-capability"
    BY <1>1, <1>2, <1>7 DEF Reserve, toolVars, TypeOK, KeysTell, Known
  <2>2. KeysTell(x)' /\ Rests(x)'
    BY <1>1, <1>2, <2>1
       DEF KeysTell, Rests, RunSettled, Known, IsSettled, TerminalStates, Predispatch, Crossed
  <2>3. PlaceOf(w, x)'
    BY <1>2, <1>5, <1>7, <2>1 DEF PlaceOf, AtStart, AtWork, AtEnd, Reading, OwnCalls, Holds
  <2> QED
    BY <1>5, <1>7, <2>2, <2>3 DEF Kept
<1> QED
  BY <1>3, <1>4, <1>6, <1>7, ReadKeeps

(* Admission records the reservation it was made on. *)
LEMMA AdmitKeeps ==
  ASSUME GrantKept, InOrder, NEW w \in Actor, NEW x \in Execution, cur[w] = x,
         invoked' = invoked, Admit(w)
  PROVE  Kept(w, x)
<1>1. PlaceOf(w, x) /\ KeysTell(x) /\ Rests(x) /\ TypeOK /\ pc[w] \in OwnCalls
  BY DEF InOrder, GrantKept, Admit, OwnCalls
<1>2. tool[x] = "prepared" /\ Holds(x) /\ w # Boot /\ ~Known(x, "admitted")
  BY <1>1 DEF Admit, PlaceOf, AtWork, Reading, KeysTell
<1>3. \/ ReadsFor(w) /\ UNCHANGED <<durable, pc, cur, copy, stage, result>>
      \/ OwnCall(x, "admitted", TRUE, "none") /\ Proceed(w, "dispatch")
  <2>1. CanMove(x, "admitted")
    BY <1>2 DEF CanMove, Transitions
  <2> QED
    BY <1>1, <1>2, <2>1, OwnCallCommits DEF Admit, Transition, Call, OwnCall, Known
<1>4. ASSUME OwnCall(x, "admitted", TRUE, "none"), Proceed(w, "dispatch") PROVE Kept(w, x)
  <2>1. Advanced(x, "admitted") /\ toolRes'[x] = TRUE
    BY <1>4, OwnWrite
  <2>2. pc'[w] = "dispatch" /\ seen'[w] = None /\ cur'[w] = x
    BY <1>1, <1>4, MoveSets
  <2>3. KeysTell(x)' /\ Rests(x)'
    BY <1>1, <1>2, <2>1
       DEF Advanced, KeysTell, Rests, RunSettled, Known, IsSettled, CountedUse, Holds,
           TerminalStates, Predispatch, Crossed
  <2>4. PlaceOf(w, x)'
    BY <1>2, <2>1, <2>2 DEF Advanced, PlaceOf, AtStart, AtWork, AtEnd, Reading, OwnCalls
  <2> QED
    BY <2>2, <2>3, <2>4 DEF Kept
<1> QED
  BY <1>3, <1>4, ReadKeeps

(* The dispatch boundary is recorded before the adapter is called. *)
LEMMA DispatchKeeps ==
  ASSUME GrantKept, InOrder, NEW w \in Actor, NEW x \in Execution, cur[w] = x,
         invoked' = invoked, Dispatch(w)
  PROVE  Kept(w, x)
<1>1. PlaceOf(w, x) /\ KeysTell(x) /\ Rests(x) /\ TypeOK /\ pc[w] \in OwnCalls
  BY DEF InOrder, GrantKept, Dispatch, OwnCalls
<1>2. /\ tool[x] = "admitted" /\ Holds(x) /\ invoked[x] = 0 /\ toolRes[x] \in BOOLEAN
      /\ w # Boot /\ ~Known(x, "dispatching")
  BY <1>1 DEF Dispatch, PlaceOf, AtWork, Reading, KeysTell, Rests, TypeOK, Crossed, TerminalStates
<1>3. \/ ReadsFor(w) /\ UNCHANGED <<durable, pc, cur, copy, stage, result>>
      \/ OwnCall(x, "dispatching", toolRes[x], "none") /\ Proceed(w, "effect")
  <2>1. CanMove(x, "dispatching")
    BY <1>2 DEF CanMove, Transitions
  <2> QED
    BY <1>1, <1>2, <2>1, OwnCallCommits DEF Dispatch, Transition, Call, OwnCall, Known
<1>4. ASSUME OwnCall(x, "dispatching", toolRes[x], "none"), Proceed(w, "effect")
      PROVE  Kept(w, x)
  <2>1. Advanced(x, "dispatching")
    <3>1. PICK res, status : res \in BOOLEAN /\ OwnCall(x, "dispatching", res, status)
      BY <1>2, <1>4
    <3> QED
      BY <3>1, OwnWrite
  <2>2. pc'[w] = "effect" /\ seen'[w] = None /\ cur'[w] = x
    BY <1>1, <1>4, MoveSets
  <2>3. KeysTell(x)' /\ Rests(x)'
    BY <1>1, <1>2, <2>1
       DEF Advanced, KeysTell, Rests, RunSettled, Known, IsSettled, CountedUse, TerminalStates,
           Predispatch, Crossed
  <2>4. PlaceOf(w, x)'
    BY <1>2, <2>1, <2>2
       DEF Advanced, PlaceOf, AtStart, AtWork, AtEnd, Reading, OwnCalls, Holds, RunSettled, Known
  <2> QED
    BY <2>2, <2>3, <2>4 DEF Kept
<1> QED
  BY <1>3, <1>4, ReadKeeps

(* The one call of the adapter, and its return. *)
LEMMA EffectKeeps ==
  ASSUME GrantKept, InOrder, NEW w \in Actor, NEW x \in Execution, cur[w] = x,
         \/ Effect(w)
         \/ AdapterReturns(w) /\ invoked' = invoked
  PROVE  Kept(w, x)
<1>1. PlaceOf(w, x) /\ KeysTell(x) /\ Rests(x) /\ TypeOK /\ UNCHANGED durable
  BY DEF InOrder, GrantKept, Effect, AdapterReturns
<1>2. /\ tool[x] \in {"dispatching", "effect_observed"} /\ Holds(x) /\ w # Boot
      /\ Effect(w) => tool[x] = "dispatching" /\ invoked[x] = 0
      /\ tool'[x] = tool[x] /\ (Holds(x)' <=> Holds(x))
  BY <1>1 DEF Effect, AdapterReturns, PlaceOf, AtWork, Reading, durable, toolVars, capState,
     useVars, Holds, RunSettled
<1> USE DEF PlaceOf, AtStart, AtWork, AtEnd, Reading, OwnCalls
<1>3. ASSUME NEW status \in AdapterStatus, ProceedWith(w, "finalize", status)
      PROVE  cur'[w] = x /\ PlaceOf(w, x)'
  <2>1. pc'[w] = "finalize" /\ seen'[w] = None /\ cur'[w] = x /\ result'[w] = status
    BY <1>1, <1>3, MoveSets
  <2> QED
    BY <1>2, <2>1
<1>4. ASSUME Effect(w), Proceed(w, "observe") PROVE cur'[w] = x /\ PlaceOf(w, x)'
  <2>1. pc'[w] = "observe" /\ seen'[w] = None /\ cur'[w] = x
    BY <1>1, <1>4, MoveSets
  <2> QED
    BY <1>2, <1>4, <2>1
<1>5. cur'[w] = x /\ PlaceOf(w, x)'
  BY <1>3, <1>4 DEF Effect, AdapterReturns
<1>6. CASE Effect(w)
  <2>1. KeysTell(x)'
    BY <1>1 DEF KeysTell, durable, toolVars, capState, useVars, Known, IsSettled, RunSettled,
       CountedUse, ConsumedAs
  <2>2. invoked' = [invoked EXCEPT ![x] = @ + 1]
    BY <1>6 DEF Effect
  <2>3. Rests(x)'
    BY <1>1, <1>2, <1>6, <2>2 DEF Rests, TypeOK
  <2> QED
    BY <1>5, <2>1, <2>3 DEF Kept
<1>7. CASE AdapterReturns(w) /\ invoked' = invoked
  BY <1>1, <1>5, <1>7, MoveKeeps
<1> QED
  BY <1>6, <1>7

(* The observed effect is recorded while the adapter is still running.     *)
LEMMA ObserveKeeps ==
  ASSUME GrantKept, InOrder, NEW w \in Actor, NEW x \in Execution, cur[w] = x,
         invoked' = invoked, ObserveEffect(w)
  PROVE  Kept(w, x)
<1>1. PlaceOf(w, x) /\ KeysTell(x) /\ Rests(x) /\ TypeOK /\ pc[w] \in OwnCalls
  BY DEF InOrder, GrantKept, ObserveEffect, OwnCalls
<1>2. /\ tool[x] = "dispatching" /\ Holds(x) /\ toolRes[x] \in BOOLEAN
      /\ w # Boot /\ ~Known(x, "effect_observed")
  BY <1>1 DEF ObserveEffect, PlaceOf, AtWork, Reading, KeysTell, TypeOK, TerminalStates
<1>3. \/ ReadsFor(w) /\ UNCHANGED <<durable, pc, cur, copy, stage, result>>
      \/ OwnCall(x, "effect_observed", toolRes[x], "none") /\ Proceed(w, "return")
  <2>1. CanMove(x, "effect_observed")
    BY <1>2 DEF CanMove, Transitions
  <2> QED
    BY <1>1, <1>2, <2>1, OwnCallCommits DEF ObserveEffect, Transition, Call, OwnCall, Known
<1>4. ASSUME OwnCall(x, "effect_observed", toolRes[x], "none"), Proceed(w, "return")
      PROVE  Kept(w, x)
  <2>1. Advanced(x, "effect_observed")
    <3>1. PICK res, status : res \in BOOLEAN /\ OwnCall(x, "effect_observed", res, status)
      BY <1>2, <1>4
    <3> QED
      BY <3>1, OwnWrite
  <2>2. pc'[w] = "return" /\ seen'[w] = None /\ cur'[w] = x
    BY <1>1, <1>4, MoveSets
  <2>3. KeysTell(x)' /\ Rests(x)'
    BY <1>1, <1>2, <2>1
       DEF Advanced, KeysTell, Rests, RunSettled, Known, IsSettled, CountedUse, TerminalStates,
           Predispatch, Crossed
  <2>4. PlaceOf(w, x)'
    BY <1>2, <2>1, <2>2
       DEF Advanced, PlaceOf, AtStart, AtWork, AtEnd, Reading, OwnCalls, Holds, RunSettled, Known
  <2> QED
    BY <2>2, <2>3, <2>4 DEF Kept
<1> QED
  BY <1>3, <1>4, ReadKeeps

(* A reservation is closed together with its execution, by a thread whose   *)
(* resumed request is refused or by recovery of an orphan.                  *)
LEMMA CloseKeeps ==
  ASSUME GrantKept, InOrder, NEW w \in Actor, NEW x \in Execution, cur[w] = x,
         invoked' = invoked, Close(w)
  PROVE  Kept(w, x)
<1>1. PlaceOf(w, x) /\ KeysTell(x) /\ Rests(x) /\ TypeOK
  BY DEF InOrder, GrantKept
<1>2. /\ Resumable(x) /\ stage[w] \in Predispatch /\ ~Known(x, stage[w])
      /\ w = Boot => Orphan(x) /\ (seen[w] # None => Current(w))
      /\ w # Boot => tool[x] = "admitted"
  BY <1>1
     DEF Close, PlaceOf, AtStart, Reading, Orphan, Resumable, KeysTell, Predispatch, TerminalStates
<1>3. \/ ReadsFor(w) /\ UNCHANGED <<durable, pc, cur, copy, stage, result>>
      \/ Return(w) /\ UNCHANGED durable /\ w # Boot
      \/ /\ CanFinalize(x) /\ Finalize(x, "failed") /\ SetTool(x, "failed", TRUE, result[w])
         /\ known' = known \cup {<<x, stage[w]>>} /\ Return(w)
  <2>1. w = Boot => CanFinalize(x)
    BY <1>2 DEF Orphan, CanFinalize
  <2>2. seen[w] # None /\ Current(w) => CanFinalize(x)
    BY CommitLegal DEF Close, Legal, GrantKept
  <2>3. CanFinalize(x) /\ seen' = [seen EXCEPT ![w] = [s \in {x, CapStream} |-> ver[s]]]
        => ReadsFor(w)
    BY DEF Close, ReadsFor, Stream, OwnCalls
  <2> QED
    BY <1>2, <2>1, <2>2, <2>3 DEF Close, Call, Known
<1>4. ASSUME Return(w), UNCHANGED durable, w # Boot PROVE Kept(w, x)
  <2>1. ~Unfinished(x)
    BY <1>2, <1>4 DEF Unfinished, Orphan, Crossed
  <2> QED
    BY <1>4, <2>1, MoveKeeps
<1>5. ASSUME CanFinalize(x), Finalize(x, "failed"), SetTool(x, "failed", TRUE, result[w]),
             known' = known \cup {<<x, stage[w]>>}, Return(w)
      PROVE  Kept(w, x)
  <2>1. tool'[x] = "failed" /\ invoked'[x] = invoked[x] /\ reservation[x] = "open"
    BY <1>1, <1>5 DEF SetTool, TypeOK, CanFinalize
  <2>2. /\ IsSettled(x)' /\ reservation'[x] \notin {"none", "open"} /\ ConsumedAs(x, "failed")'
        /\ \A k : Known(x, k)' <=> Known(x, k) \/ k = stage[w]
    BY <1>5, UseWrite DEF Outcome
  <2>3. KeysTell(x)'
    BY <1>1, <1>2, <2>1, <2>2
       DEF KeysTell, RunSettled, Known, IsSettled, TerminalStates, Predispatch, Crossed
  <2>4. Rests(x)'
    BY <1>1, <2>1, <2>2 DEF Rests, ReturnedUse
  <2>5. cur'[w] = None /\ PlaceOf(w, None)' /\ ~Unfinished(x)'
    BY <1>1, <1>5, <2>1, MoveSets DEF Unfinished, Orphan, Crossed
  <2> QED
    BY <2>3, <2>4, <2>5, BrokerAssumption DEF Kept
<1> QED
  BY <1>3, <1>4, <1>5, ReadKeeps

(* Where an execution goes once its use is settled, or cannot be. *)
LEMMA AfterUse ==
  ASSUME TypeOK, NEW w \in Actor, NEW x \in Execution, cur[w] = x,
         IsSettled(x)', tool' = tool, tool[x] \in Crossed,
         w # Boot => tool[x] # "settling",
         result[w] \in AdapterStatus, Proceed(w, Settlement(w)),
         result[w] # "indeterminate" =>
           IF result[w] = "succeeded" THEN CountedUse(x)' ELSE ReturnedUse(x)'
  PROVE  cur'[w] = x /\ PlaceOf(w, x)'
<1>1. /\ pc'[w] = Settlement(w) /\ seen'[w] = None /\ cur'[w] = x
      /\ result'[w] = result[w]
  BY MoveSets
<1>2. \/ Settlement(w) = "terminal" /\ result[w] = "indeterminate"
      \/ /\ Settlement(w) = "terminal" /\ result[w] # "indeterminate" /\ tool[x] = "settling"
      \/ /\ Settlement(w) = "settling" /\ result[w] # "indeterminate" /\ tool[x] # "settling"
  BY DEF Settlement, Crossed
<1> QED
  BY <1>1, <1>2
     DEF PlaceOf, AtStart, AtWork, AtEnd, Reading, OwnCalls, Crossed, SettledAs

(* A settlement that raises leaves the outcome open. *)
LEMMA UseRaised ==
  ASSUME GrantKept, InOrder, NEW w \in Actor, NEW x \in Execution, cur[w] = x,
         UNCHANGED durable, invoked' = invoked, tool[x] \in Crossed, FinalizeRaised(w)
  PROVE  Kept(w, x)
<1>1. /\ pc'[w] = "terminal" /\ seen'[w] = None /\ cur'[w] = x
      /\ result'[w] = "indeterminate"
  BY MoveSets DEF FinalizeRaised, GrantKept
<1>2. PlaceOf(w, x)'
  BY <1>1
     DEF PlaceOf, AtStart, AtWork, AtEnd, Reading, OwnCalls, AdapterStatus, durable, toolVars
<1> QED
  BY <1>1, <1>2, MoveKeeps

(* finalize_use, by the thread that ran the effect.                         *)
LEMMA SettleUseKeeps ==
  ASSUME GrantKept, InOrder, NEW w \in Actor, NEW x \in Execution, cur[w] = x,
         invoked' = invoked, SettleUse(w)
  PROVE  Kept(w, x)
<1>1. PlaceOf(w, x) /\ KeysTell(x) /\ Rests(x) /\ TypeOK
  BY DEF InOrder, GrantKept
<1>2. tool[x] \in Crossed /\ result[w] \in AdapterStatus /\ (w # Boot => tool[x] # "settling")
  BY <1>1 DEF SettleUse, PlaceOf, AtEnd, Crossed, Counted, AdapterStatus
<1> DEFINE key == FinalizeKey(w)
<1>3. \/ /\ w # Boot /\ key = "finalize-capability" /\ Holds(x)
      \/ /\ w = Boot /\ key = "reconcile-capability" /\ result[w] \in Counted
      \/ /\ w = Boot /\ key = "missing-tool-capability" /\ result[w] = "indeterminate"
  BY <1>1 DEF SettleUse, PlaceOf, AtEnd, FinalizeKey
<1>4. \/ ReadsFor(w) /\ UNCHANGED <<durable, pc, cur, copy, stage, result>>
      \/ FinalizeRaised(w) /\ UNCHANGED durable
      \/ Known(x, key) /\ Proceed(w, Settlement(w)) /\ UNCHANGED durable
      \/ /\ CanFinalize(x) /\ Finalize(x, Consumed(result[w])) /\ UNCHANGED toolVars
         /\ known' = known \cup {<<x, key>>} /\ Proceed(w, Settlement(w))
  <2>1. seen[w] # None /\ Current(w) => CanFinalize(x)
    BY CommitLegal DEF SettleUse, Legal, GrantKept
  <2>2. CanFinalize(x) /\ seen' = [seen EXCEPT ![w] = [s \in {CapStream} |-> ver[s]]]
        => ReadsFor(w)
    BY DEF SettleUse, ReadsFor, Stream, OwnCalls
  <2> QED
    BY <2>1, <2>2 DEF SettleUse, Call, Known
<1>5. ASSUME Known(x, key), Proceed(w, Settlement(w)), UNCHANGED durable PROVE Kept(w, x)
  <2>1. \/ result[w] = "indeterminate"
        \/ IsSettled(x) /\ CountedUse(x) /\ result[w] = "succeeded"
    BY <1>1, <1>3, <1>5 DEF KeysTell, Holds, IsSettled, Counted
  <2>2. \/ Settlement(w) = "terminal" /\ result[w] = "indeterminate"
        \/ IsSettled(x)' /\ CountedUse(x)' /\ result[w] = "succeeded"
    BY <1>5, <2>1, UnwrittenTells DEF Settlement, Same, IsSettled, CountedUse
  <2>3. CASE Settlement(w) = "terminal" /\ result[w] = "indeterminate"
    <3>1. pc'[w] = "terminal" /\ seen'[w] = None /\ cur'[w] = x /\ result'[w] = result[w]
      BY <1>1, <1>5, <2>3, MoveSets
    <3>2. PlaceOf(w, x)'
      BY <1>2, <1>5, <2>3, <3>1
         DEF PlaceOf, AtStart, AtWork, AtEnd, Reading, OwnCalls, durable, toolVars
    <3> QED
      BY <1>5, <3>1, <3>2, MoveKeeps
  <2>4. CASE IsSettled(x)' /\ CountedUse(x)' /\ result[w] = "succeeded"
    <3>1. tool' = tool
      BY <1>5 DEF durable, toolVars
    <3>2. cur'[w] = x /\ PlaceOf(w, x)'
      BY <1>1, <1>2, <1>5, <2>4, <3>1, AfterUse
    <3> QED
      BY <1>5, <3>2, MoveKeeps
  <2> QED
    BY <2>2, <2>3, <2>4
<1>6. ASSUME CanFinalize(x), Finalize(x, Consumed(result[w])), UNCHANGED toolVars,
             known' = known \cup {<<x, key>>}, Proceed(w, Settlement(w))
      PROVE  Kept(w, x)
  <2>1. Consumed(result[w]) \in Outcome /\ tool' = tool /\ reservation[x] = "open"
    BY <1>6 DEF Consumed, Counted, Outcome, toolVars, CanFinalize
  <2>2. PICK o \in Outcome : o = Consumed(result[w]) /\ Finalize(x, o)
    BY <1>6, <2>1
  <2>3. PICK k : k = key /\ known' = known \cup {<<x, k>>}
    BY <1>6
  <2>4. /\ IsSettled(x)' /\ reservation'[x] \notin {"none", "open"} /\ ConsumedAs(x, o)'
        /\ \A p : ConsumedAs(x, p) => ConsumedAs(x, p)'
        /\ \A j : Known(x, j)' <=> Known(x, j) \/ j = k
    BY <2>2, <2>3, UseWrite
  <2>5. /\ o \in Counted => CountedUse(x)'
        /\ o = "failed" => ReturnedUse(x)'
        /\ CountedUse(x) => CountedUse(x)'
    BY <2>4 DEF CountedUse, ReturnedUse
  <2>6. /\ result[w] \in Counted => o = result[w]
        /\ result[w] \notin Counted => o = "failed"
    BY <2>2 DEF Consumed
  <2>7. KeysTell(x)'
    <3>1. ~RunSettled(x) /\ ~IsSettled(x) /\ Known(x, "reserve-capability")
      BY <1>1, <2>1 DEF KeysTell, IsSettled
    <3>2. \/ k = "finalize-capability"
          \/ k = "reconcile-capability" /\ CountedUse(x)'
          \/ k = "missing-tool-capability"
      BY <1>3, <2>3, <2>5, <2>6
    <3>3. ~RunSettled(x)'
      BY <2>4, <3>1, <3>2 DEF RunSettled, Known
    <3> QED
      BY <1>1, <2>1, <2>4, <2>5, <3>1, <3>2, <3>3
         DEF KeysTell, TerminalStates, Predispatch, RunSettled
  <2>8. Rests(x)'
    BY <1>1, <1>2, <2>1, <2>4 DEF Rests, Crossed
  <2>9. cur'[w] = x /\ PlaceOf(w, x)'
    <3>1. result[w] # "indeterminate" =>
            IF result[w] = "succeeded" THEN CountedUse(x)' ELSE ReturnedUse(x)'
      BY <2>5, <2>6 DEF Counted
    <3> QED
      BY <1>1, <1>2, <1>6, <2>1, <2>4, <3>1, AfterUse
  <2> QED
    BY <2>7, <2>8, <2>9 DEF Kept
<1> QED
  BY <1>2, <1>4, <1>5, <1>6, ReadKeeps, UseRaised

(* The settled use is recorded on the execution. *)
LEMMA SettlingKeeps ==
  ASSUME GrantKept, InOrder, NEW w \in Actor, NEW x \in Execution, cur[w] = x,
         invoked' = invoked, Settling(w)
  PROVE  Kept(w, x)
<1>1. PlaceOf(w, x) /\ KeysTell(x) /\ Rests(x) /\ TypeOK /\ pc[w] \in OwnCalls
  BY DEF InOrder, GrantKept, Settling, OwnCalls
<1>2. /\ tool[x] \in {"dispatching", "effect_observed"} /\ toolRes[x] \in BOOLEAN
      /\ result[w] \in AdapterStatus \ {"indeterminate"} /\ SettledAs(x, result[w])
      /\ ~Known(x, "settling")
  BY <1>1 DEF Settling, PlaceOf, AtEnd, KeysTell, TypeOK, TerminalStates
<1>3. \/ ReadsFor(w) /\ UNCHANGED <<durable, pc, cur, copy, stage, result>>
      \/ OwnCall(x, "settling", toolRes[x], result[w]) /\ Proceed(w, "terminal")
  <2>1. CanMove(x, "settling")
    BY <1>2 DEF CanMove, Transitions
  <2> QED
    BY <1>1, <1>2, <2>1, OwnCallCommits DEF Settling, Transition, Call, OwnCall, Known
<1>4. ASSUME OwnCall(x, "settling", toolRes[x], result[w]), Proceed(w, "terminal")
      PROVE  Kept(w, x)
  <2>1. Advanced(x, "settling")
    <3>1. PICK res, status : res \in BOOLEAN /\ OwnCall(x, "settling", res, status)
      BY <1>2, <1>4
    <3> QED
      BY <3>1, OwnWrite
  <2>2. pc'[w] = "terminal" /\ seen'[w] = None /\ cur'[w] = x /\ result'[w] = result[w]
    BY <1>1, <1>4, MoveSets
  <2>3. KeysTell(x)' /\ Rests(x)'
    BY <1>1, <1>2, <2>1
       DEF Advanced, KeysTell, Rests, RunSettled, Known, IsSettled, CountedUse, TerminalStates,
           Predispatch, Crossed
  <2>4. /\ IsSettled(x)' <=> IsSettled(x)
        /\ CountedUse(x) => CountedUse(x)'
        /\ ReturnedUse(x) => ReturnedUse(x)'
    BY <2>1 DEF Advanced, CountedUse, ReturnedUse, RunSettled, Known
  <2>5. PlaceOf(w, x)'
    BY <1>2, <2>1, <2>2, <2>4
       DEF Advanced, PlaceOf, AtStart, AtWork, AtEnd, Reading, OwnCalls, Crossed, SettledAs
  <2> QED
    BY <2>2, <2>3, <2>5 DEF Kept
<1> QED
  BY <1>3, <1>4, ReadKeeps

(* The execution ends the way its use was settled. *)
LEMMA TerminateKeeps ==
  ASSUME GrantKept, InOrder, NEW w \in Actor, NEW x \in Execution, cur[w] = x,
         invoked' = invoked, Terminate(w)
  PROVE  Kept(w, x)
<1> DEFINE to == TerminalState(result[w])
<1>1. PlaceOf(w, x) /\ KeysTell(x) /\ Rests(x) /\ TypeOK /\ pc[w] \in OwnCalls
  BY DEF InOrder, GrantKept, Terminate, OwnCalls
<1>2. /\ tool[x] \in Crossed /\ result[w] \in AdapterStatus /\ toolRes[x] \in BOOLEAN
      /\ result[w] # "indeterminate" => tool[x] = "settling" /\ SettledAs(x, result[w])
  BY <1>1 DEF Terminate, PlaceOf, AtEnd, TypeOK
<1>3. PICK t \in {"completed", "failed", "indeterminate"} :
        /\ t = to
        /\ t = "completed" => tool[x] = "settling" /\ IsSettled(x) /\ CountedUse(x)
        /\ t = "failed" => tool[x] = "settling" /\ IsSettled(x) /\ ReturnedUse(x)
  BY <1>2 DEF TerminalState, SettledAs
<1>4. ~Known(x, t)
  BY <1>1, <1>2, <1>3 DEF KeysTell, Crossed, TerminalStates
<1>5. \/ ReadsFor(w) /\ UNCHANGED <<durable, pc, cur, copy, stage, result>>
      \/ OwnCall(x, t, toolRes[x], result[w]) /\ Return(w)
  <2>1. CanMove(x, t)
    BY <1>2, <1>3 DEF CanMove, Transitions, Crossed
  <2> QED
    BY <1>1, <1>3, <1>4, <2>1, OwnCallCommits DEF Terminate, Transition, Call, OwnCall, Known
<1>6. ASSUME OwnCall(x, t, toolRes[x], result[w]), Return(w) PROVE Kept(w, x)
  <2>1. Advanced(x, t)
    <3>1. PICK res, status : res \in BOOLEAN /\ OwnCall(x, t, res, status)
      BY <1>2, <1>6
    <3> QED
      BY <3>1, OwnWrite
  <2>2. /\ CountedUse(x) => CountedUse(x)'
        /\ ReturnedUse(x) => ReturnedUse(x)'
    BY <1>3, <2>1 DEF Advanced, CountedUse, ReturnedUse, RunSettled, Known
  <2>3. KeysTell(x)' /\ Rests(x)'
    BY <1>1, <1>2, <1>3, <2>1, <2>2
       DEF Advanced, KeysTell, Rests, RunSettled, Known, TerminalStates, Predispatch, Crossed
  <2>4. cur'[w] = None /\ PlaceOf(w, None)' /\ ~Unfinished(x)'
    BY <1>1, <1>3, <1>6, <2>1, MoveSets DEF Advanced, Unfinished, Orphan, Crossed
  <2> QED
    BY <2>3, <2>4, BrokerAssumption DEF Kept
<1> QED
  BY <1>5, <1>6, ReadKeeps

(* Every step of a thread inside execute(), or of recovery settling what a  *)
(* crash left behind, keeps the service in order.                           *)
LEMMA ExecuteInOrder ==
  ASSUME GrantKept, InOrder, NEW w \in Actor,
         \/ Execute(w)
         \/ Settle(w) /\ UNCHANGED <<service, invoked, now, issues>>
  PROVE  InOrder'
<1>1. Acts(w)
  BY ExecuteActs DEF GrantKept
<1>2. PICK x \in Execution : cur[w] = x
  BY <1>1 DEF Acts, GrantKept, TypeOK
<1>3. CASE Effect(w)
  BY <1>1, <1>2, <1>3, EffectKeeps, ActKeeps
<1>4. CASE invoked' = invoked
  <2> SUFFICES Kept(w, x)
    BY <1>1, <1>2, ActKeeps
  <2>1. CASE Settle(w)
    BY <1>2, <1>4, <2>1, CloseKeeps, SettleUseKeeps, SettlingKeeps, TerminateKeeps DEF Settle
  <2>2. CASE Prepare(w) \/ CheckRequest(w) \/ Refuse(w) \/ Fail(w) \/ Preflight(w)
    BY <1>2, <1>4, <2>2, PrepareKeeps, CheckKeeps, FailKeeps
  <2>3. CASE \/ ReserveForUse(w) \/ Admit(w) \/ Dispatch(w)
             \/ ObserveEffect(w) \/ AdapterReturns(w)
    BY <1>2, <1>4, <2>3, ReserveKeeps, AdmitKeeps, DispatchKeeps, ObserveKeeps, EffectKeeps
  <2>4. CASE Effect(w)
    BY <1>2, <1>4, <2>4, EffectKeeps
  <2> QED
    BY <2>1, <2>2, <2>3, <2>4 DEF Execute
<1> QED
  BY <1>3, <1>4 DEF Execute

(* A request is taken up by one thread: nobody else is running it, and what *)
(* a crash left of it recovery has finished.                                *)
LEMMA SubmitInOrder ==
  ASSUME Resend = FALSE, GrantKept, InOrder, NEW w \in Worker, NEW x \in Execution,
         Submit(w, x), UNCHANGED <<service, invoked, now, issues>>
  PROVE  InOrder'
<1>1. /\ TypeOK /\ w \in Actor /\ Boot \in Actor /\ None \notin Execution
      /\ w # Boot /\ UNCHANGED durable /\ mode = "up" /\ mode' = "up" /\ cur[w] = None
      /\ \A v \in Actor : cur[v] # x
      /\ tool[x] = "absent" \/ Resumable(x)
  BY BrokerAssumption DEF GrantKept, TypeOK, Submit, Actor, service
<1>2. \A y \in Execution : Same(y) /\ KeysTell(y)' /\ Rests(y)' /\ (Unfinished(y)' <=> Unfinished(y))
  BY <1>1, UnwrittenTells
<1>3. /\ cur' = [cur EXCEPT ![w] = x] /\ seen' = [seen EXCEPT ![w] = None]
      /\ pc' = [pc EXCEPT ![w] = IF tool[x] = "absent" THEN "prepare" ELSE "lease"]
      /\ copy' = [copy EXCEPT ![w] = IF tool[x] = "absent" THEN Fresh
                                     ELSE [state |-> tool[x], res |-> toolRes[x]]]
      /\ stage' = stage /\ result' = result
  BY DEF Submit, Goto
<1>4. \A v \in Actor \ {w} :
        /\ pc'[v] = pc[v] /\ cur'[v] = cur[v] /\ copy'[v] = copy[v]
        /\ seen'[v] = seen[v] /\ stage'[v] = stage[v] /\ result'[v] = result[v]
  BY <1>1, <1>3 DEF TypeOK, SeenTypeOK
<1>5. PlaceOf(w, x)'
  <2>1. tool[x] = "prepared" => reservation[x] # "open"
    BY <1>1 DEF InOrder, Attended, Unfinished, Orphan, Running, Actor
  <2>2. /\ pc'[w] = (IF tool[x] = "absent" THEN "prepare" ELSE "lease") /\ seen'[w] = None
        /\ copy'[w] = (IF tool[x] = "absent" THEN Fresh
                       ELSE [state |-> tool[x], res |-> toolRes[x]])
    BY <1>1, <1>3 DEF TypeOK, SeenTypeOK
  <2> QED
    BY <1>1, <1>2, <2>1, <2>2
       DEF Same, PlaceOf, AtStart, AtWork, AtEnd, Reading, OwnCalls, Resumable
<1>6. ASSUME NEW v \in Actor PROVE PlaceOf(v, cur[v])'
  <2>1. CASE v = w
    <3>1. cur'[v] = x
      BY <1>1, <1>3, <2>1 DEF TypeOK
    <3> QED
      BY <1>5, <2>1, <3>1
         DEF PlaceOf, AtStart, AtWork, AtEnd, Reading, Current, SettledAs
  <2>2. CASE v # w
    <3>1. cur[v] # None => v # Boot /\ cur[v] \in Execution
      BY <1>1 DEF TypeOK
    <3> QED
      BY <1>1, <1>2, <1>4, <2>2, <3>1, StandsStill
  <2> QED
    BY <2>1, <2>2
<1>7. OneActor'
  BY <1>1, <1>3, <1>4 DEF InOrder, OneActor, TypeOK
<1>8. Attended'
  BY <1>1, <1>2, <1>4 DEF InOrder, Attended, Running, Actor
<1> QED
  BY <1>2, <1>6, <1>7, <1>8 DEF InOrder

(* A crash empties the threads; recovery is to look at everything begun.   *)
LEMMA CrashInOrder ==
  ASSUME GrantKept, InOrder, Crash PROVE InOrder'
<1>1. /\ UNCHANGED durable /\ invoked' = invoked /\ mode' # "up"
      /\ todo' = {x \in Execution : tool[x] # "absent"}
      /\ \A w \in Actor : pc'[w] = "idle" /\ cur'[w] = None /\ seen'[w] = None
  BY DEF Crash
<1>2. \A y \in Execution : KeysTell(y)' /\ Rests(y)' /\ (Unfinished(y)' <=> Unfinished(y))
  BY <1>1, UnwrittenTells
<1>3. \A w \in Actor : PlaceOf(w, cur[w])'
  BY <1>1 DEF PlaceOf, AtStart, AtWork, AtEnd, Reading, OwnCalls
<1>4. OneActor'
  BY <1>1 DEF OneActor
<1>5. Attended'
  BY <1>1, <1>2 DEF Attended, Unfinished, Orphan, Crossed
<1> QED
  BY <1>2, <1>3, <1>4, <1>5 DEF InOrder

(* Nobody is at work while driver runs recover, or when the service has     *)
(* finished starting.                                                       *)
LEMMA NobodyWorks ==
  ASSUME TypeOK, \/ mode = "runs"
                 \/ mode = "boot" /\ pc[Boot] = "idle"
                 \/ mode = "up" /\ \A w \in Worker : pc[w] = "idle"
  PROVE  \A w \in Actor : pc[w] = "idle" /\ cur[w] = None
  BY BrokerAssumption DEF TypeOK, Actor

(* Recovery of a driver run settles an open reservation: nothing that is    *)
(* open was settled before, and no completed or failed execution holds one. *)
LEMMA RecoverRunInOrder ==
  ASSUME GrantKept, InOrder, NEW x \in Execution, RecoverRun(x) PROVE InOrder'
<1>1. /\ TypeOK /\ GrantTypeOK /\ reservation[x] = "open" /\ mode = "runs"
      /\ UNCHANGED <<toolVars, local, service, invoked>>
      /\ ver' = [ver EXCEPT ![CapStream] = @ + 1]
      /\ known' = known \cup {<<x, "recover-run">>}
      /\ Finalize(x, "indeterminate")
  BY DEF RecoverRun, CanFinalize, GrantKept, GrantInv
<1>2. \A w \in Actor : pc[w] = "idle" /\ cur[w] = None
  BY <1>1, NobodyWorks
<1>3. ASSUME NEW y \in Execution, y # x PROVE Same(y)
  <2>1. ver'[y] = ver[y] /\ \A k : <<y, k>> \in known' <=> <<y, k>> \in known
    BY <1>1, <1>3, BrokerAssumption DEF TypeOK, Stream
  <2>2. reservation'[y] = reservation[y] /\ \A o : ConsumedAs(y, o) => ConsumedAs(y, o)'
    BY <1>1, <1>3, FinalizeRecords DEF Outcome
  <2> QED
    BY <1>1, <2>1, <2>2 DEF Same, toolVars
<1>4. /\ IsSettled(x)' /\ reservation'[x] \notin {"none", "open"}
      /\ \A k : Known(x, k)' <=> Known(x, k) \/ k = "recover-run"
      /\ tool' = tool /\ toolRes' = toolRes /\ RunSettled(x)'
  <2>1. /\ IsSettled(x)' /\ reservation'[x] \notin {"none", "open"}
        /\ \A k : Known(x, k)' <=> Known(x, k) \/ k = "recover-run"
    BY <1>1, UseWrite DEF Outcome
  <2> QED
    BY <1>1, <2>1 DEF toolVars, RunSettled
<1>5. KeysTell(x)' /\ Rests(x)' /\ (Unfinished(x)' => Unfinished(x))
  <2>1. KeysTell(x) /\ Rests(x)
    BY DEF InOrder
  <2>2. KeysTell(x)'
    BY <1>1, <1>4, <2>1 DEF KeysTell, IsSettled, TerminalStates, Predispatch
  <2>3. Rests(x)'
    BY <1>1, <1>4, <2>1 DEF Rests, Holds, IsSettled
  <2> QED
    BY <1>4, <2>2, <2>3 DEF Unfinished, Orphan
<1>6. \A y \in Execution : KeysTell(y)' /\ Rests(y)' /\ (Unfinished(y)' => Unfinished(y))
  BY <1>3, <1>5, SameTells DEF InOrder
<1>7. \A w \in Actor : PlaceOf(w, cur[w])'
  BY <1>1, <1>2, StandsStill DEF local
<1>8. OneActor' /\ Attended'
  BY <1>1, <1>6 DEF local, service, InOrder, OneActor, Attended
<1> QED
  BY <1>6, <1>7, <1>8 DEF InOrder

(* Recovery takes up an execution a crash left half way, or leaves it. *)
LEMMA ReconcileInOrder ==
  ASSUME GrantKept, InOrder, NEW x \in Execution, Reconcile(x) PROVE InOrder'
<1>1. /\ TypeOK /\ Boot \in Actor /\ None \notin Execution /\ mode = "boot" /\ mode' = "boot"
      /\ pc[Boot] = "idle" /\ todo' = todo \ {x} /\ UNCHANGED durable /\ invoked' = invoked
  BY BrokerAssumption DEF GrantKept, Reconcile, Actor
<1>2. \A w \in Actor : pc[w] = "idle" /\ cur[w] = None
  BY <1>1, NobodyWorks
<1>3. \A y \in Execution : Same(y) /\ KeysTell(y)' /\ Rests(y)' /\ (Unfinished(y)' <=> Unfinished(y))
  BY <1>1, UnwrittenTells
<1>4. CASE ~Orphan(x) /\ tool[x] \notin Stranded /\ UNCHANGED local
  <2>1. ~Unfinished(x)
    BY <1>4 DEF Stranded, Unfinished
  <2>2. \A w \in Actor : PlaceOf(w, cur[w])'
    BY <1>1, <1>2, <1>4, StandsStill DEF local
  <2>3. OneActor' /\ Attended'
    BY <1>1, <1>3, <1>4, <2>1 DEF local, InOrder, OneActor, Attended
  <2> QED
    BY <1>3, <2>2, <2>3 DEF InOrder
<1>5. ASSUME NEW label, NEW key, NEW status, Recover(x, label, key, status),
             \/ label = "close" /\ Orphan(x) /\ key = "recover-predispatch-settle"
                /\ status = "failed"
             \/ label = "finalize" /\ tool[x] \in Crossed
                /\ \/ key = "reconcile-capability" /\ status \in Counted
                   \/ key = "missing-tool-capability" /\ status = "indeterminate"
      PROVE  InOrder'
  <2>1. /\ pc'[Boot] = label /\ cur'[Boot] = x /\ seen'[Boot] = None
        /\ stage'[Boot] = key /\ result'[Boot] = status
        /\ \A v \in Actor \ {Boot} :
             /\ pc'[v] = pc[v] /\ cur'[v] = cur[v] /\ copy'[v] = copy[v]
             /\ seen'[v] = seen[v] /\ stage'[v] = stage[v] /\ result'[v] = result[v]
    BY <1>1, <1>5 DEF Recover, Goto, TypeOK, SeenTypeOK
  <2>2. PlaceOf(Boot, x)'
    BY <1>3, <1>5, <2>1
       DEF Same, PlaceOf, AtStart, AtWork, AtEnd, Reading, OwnCalls, Orphan, Predispatch
  <2>3. ASSUME NEW v \in Actor PROVE PlaceOf(v, cur[v])'
    <3>1. CASE v = Boot
      BY <2>1, <2>2, <3>1 DEF PlaceOf, AtStart, AtWork, AtEnd, Reading, Current, SettledAs
    <3>2. CASE v # Boot
      BY <1>1, <1>2, <2>1, <3>2, StandsStill
    <3> QED
      BY <3>1, <3>2
  <2>4. OneActor'
    BY <1>1, <1>2, <2>1 DEF OneActor
  <2>5. Attended'
    BY <1>1, <1>2, <1>3, <2>1 DEF InOrder, Attended
  <2> QED
    BY <1>3, <2>3, <2>4, <2>5 DEF InOrder
<1>6. \/ ~Orphan(x) /\ tool[x] \notin Stranded /\ UNCHANGED local
      \/ Orphan(x) /\ Recover(x, "close", "recover-predispatch-settle", "failed")
      \/ /\ tool[x] \in Crossed
         /\ \/ Recover(x, "finalize", "reconcile-capability", "succeeded")
            \/ Recover(x, "finalize", "reconcile-capability", "indeterminate")
            \/ Recover(x, "finalize", "missing-tool-capability", "indeterminate")
  BY DEF Reconcile, Stranded
<1> QED
  BY <1>4, <1>5, <1>6 DEF Counted

(* The service opens when recovery has looked at everything and finished.  *)
LEMMA OpenInOrder ==
  ASSUME GrantKept, InOrder, RunsRecovered \/ Serve PROVE InOrder'
<1>1. /\ TypeOK /\ UNCHANGED durable /\ invoked' = invoked /\ UNCHANGED local
      /\ todo' = todo
      /\ \/ mode = "runs" /\ mode' = "boot"
         \/ mode = "boot" /\ mode' = "up" /\ pc[Boot] = "idle" /\ todo = {}
  BY DEF GrantKept, RunsRecovered, Serve
<1>2. \A w \in Actor : pc[w] = "idle" /\ cur[w] = None
  BY <1>1, NobodyWorks
<1>3. \A y \in Execution : KeysTell(y)' /\ Rests(y)' /\ (Unfinished(y)' <=> Unfinished(y))
  BY <1>1, UnwrittenTells
<1>4. \A w \in Actor : PlaceOf(w, cur[w])'
  BY <1>1, <1>2, StandsStill DEF local
<1>5. OneActor'
  BY <1>1 DEF local, InOrder, OneActor
<1>6. Attended'
  BY <1>1, <1>2, <1>3, BrokerAssumption DEF local, InOrder, Attended, Actor
<1> QED
  BY <1>3, <1>4, <1>5, <1>6 DEF InOrder

(* The operator's revocation touches no execution.                         *)
LEMMA RevokeInOrder ==
  ASSUME GrantKept, InOrder, RevokeGrant PROVE InOrder'
<1>1. /\ TypeOK /\ UNCHANGED <<toolVars, useVars, known, local, service, invoked>>
      /\ mode = "up" /\ ver' = [ver EXCEPT ![CapStream] = @ + 1]
  BY DEF GrantKept, RevokeGrant, Revoke
<1>2. ASSUME NEW y \in Execution PROVE Same(y)
  <2>1. ver'[y] = ver[y]
    BY <1>1, BrokerAssumption DEF TypeOK, Stream
  <2> QED
    BY <1>1, <2>1 DEF Same, toolVars, useVars, ConsumedAs
<1>3. \A y \in Execution : KeysTell(y)' /\ Rests(y)' /\ (Unfinished(y)' <=> Unfinished(y))
  BY <1>2, SameTells DEF InOrder
<1>4. ASSUME NEW w \in Actor PROVE PlaceOf(w, cur[w])'
  <2>1. cur[w] # None => w # Boot /\ cur[w] \in Execution
    BY <1>1 DEF TypeOK
  <2> QED
    BY <1>1, <1>2, <2>1, StandsStill DEF local
<1>5. OneActor' /\ Attended'
  BY <1>1, <1>3 DEF local, service, InOrder, OneActor, Attended, Running
<1> QED
  BY <1>3, <1>4, <1>5 DEF InOrder

LEMMA InitInOrder == Init => InOrder
<1> SUFFICES ASSUME Init PROVE InOrder
  OBVIOUS
<1>1. ASSUME NEW x \in Execution PROVE KeysTell(x) /\ Rests(x) /\ ~Unfinished(x)
  <2>1. /\ tool[x] = "absent" /\ reservation[x] = "none" /\ invoked[x] = 0 /\ known = {}
    BY DEF Init
  <2> QED
    BY <2>1
       DEF KeysTell, Rests, Unfinished, Orphan, Crossed, Known, RunSettled, TerminalStates,
           Predispatch
<1>2. \A w \in Actor : PlaceOf(w, cur[w])
  BY DEF Init, PlaceOf, AtStart, AtWork, AtEnd, Reading, OwnCalls
<1>3. OneActor /\ Attended
  BY <1>1 DEF Init, OneActor, Attended
<1> QED
  BY <1>1, <1>2, <1>3 DEF InOrder

LEMMA NextInOrder ==
  ASSUME Resend = FALSE, GrantKept, InOrder, [Next]_vars PROVE InOrder'
<1>1. CASE UNCHANGED vars
  <2>1. /\ TypeOK /\ UNCHANGED durable /\ invoked' = invoked /\ UNCHANGED <<local, service>>
    BY <1>1 DEF vars, GrantKept
  <2>2. \A y \in Execution : KeysTell(y)' /\ Rests(y)' /\ (Unfinished(y)' <=> Unfinished(y))
    BY <2>1, UnwrittenTells
  <2>3. ASSUME NEW w \in Actor PROVE PlaceOf(w, cur[w])'
    BY <2>1 DEF durable, toolVars, capState, useVars, local, InOrder, PlaceOf, AtStart, AtWork,
       AtEnd, Reading, Current, Resumable, Orphan, Holds, RunSettled, SettledAs, IsSettled,
       CountedUse, ReturnedUse, ConsumedAs
  <2> QED
    BY <2>1, <2>2, <2>3 DEF local, service, InOrder, OneActor, Attended, Running
<1>2. CASE Next
  <2>1. Boot \in Actor /\ \A w \in Worker : w \in Actor
    BY DEF Actor
  <2> QED
    BY <1>2, <2>1, ExecuteInOrder, SubmitInOrder, CrashInOrder, RecoverRunInOrder,
       ReconcileInOrder, OpenInOrder, RevokeInOrder DEF Next, Recovery
<1> QED
  BY <1>1, <1>2

LEMMA AlwaysInOrder ==
  ASSUME Resend = FALSE PROVE Spec => [](GrantKept /\ InOrder)
<1>1. Init => GrantKept /\ InOrder
  BY InitTypeOK, InitGrant, InitInOrder DEF GrantKept
<1>2. GrantKept /\ InOrder /\ [Next]_vars => (GrantKept /\ InOrder)'
  BY NextGrantKept, NextInOrder
<1> QED
  BY <1>1, <1>2, PTL DEF Spec

(* However often the service dies and whatever recovery and resumption do,  *)
(* the adapter is called at most once for an idempotency key, as long as    *)
(* the request is not sent again while it is running.                       *)
THEOREM AdapterCalledAtMostOnce ==
  ASSUME Resend = FALSE PROVE Spec => []InvokedAtMostOnce
<1>1. GrantKept /\ InOrder => InvokedAtMostOnce
  BY DEF InOrder, Rests, InvokedAtMostOnce
<1> QED
  BY <1>1, AlwaysInOrder, PTL

(* The external effect runs on a reservation of its own, open or counted.  *)
THEOREM EffectRunsOnReservation ==
  ASSUME Resend = FALSE PROVE Spec => []EffectHoldsReservation
<1>1. GrantKept /\ InOrder => EffectHoldsReservation
  <2> SUFFICES ASSUME GrantKept, InOrder, NEW w \in Worker, AtEffect(w)
               PROVE  Holds(cur[w])
    BY DEF EffectHoldsReservation, Holds
  <2>1. cur[w] \in Execution /\ w \in Actor
    BY DEF AtEffect, GrantKept, TypeOK, Actor
  <2> QED
    BY <2>1 DEF AtEffect, InOrder, PlaceOf, AtWork, Rests
<1> QED
  BY <1>1, AlwaysInOrder, PTL

(* Tool execution and grant agree on how a use ended: completed only with   *)
(* the use counted, failed only with nothing used up.                       *)
THEOREM AggregatesAgree ==
  ASSUME Resend = FALSE PROVE Spec => []SettlementAgrees
<1>1. GrantKept /\ InOrder => SettlementAgrees
  BY DEF InOrder, Rests, SettlementAgrees, CountedUse, ReturnedUse
<1> QED
  BY <1>1, AlwaysInOrder, PTL

(* A running service leaves no execution past its dispatch boundary without *)
(* a thread: every exception and every crash ends in a settlement.          *)
THEOREM NothingStranded ==
  ASSUME Resend = FALSE PROVE Spec => []NoneStranded
<1>1. GrantKept /\ InOrder => NoneStranded
  BY DEF InOrder, Attended, Unfinished, NoneStranded
<1> QED
  BY <1>1, AlwaysInOrder, PTL

(* An open reservation nobody works on belongs to an execution a retry      *)
(* resumes or to one recorded as indeterminate.                             *)
THEOREM NoPhantomAuthority ==
  ASSUME Resend = FALSE PROVE Spec => []NoPhantomReservation
<1>1. GrantKept /\ InOrder => NoPhantomReservation
  <2> SUFFICES ASSUME GrantKept, InOrder, mode = "up", NEW x \in Execution,
                      reservation[x] = "open", ~Running(x)
               PROVE  tool[x] \in {"admitted", "indeterminate"}
    BY DEF NoPhantomReservation
  <2>1. ~Unfinished(x) /\ Rests(x) /\ ~IsSettled(x)
    BY DEF InOrder, Attended, IsSettled
  <2>2. tool[x] \in DOMAIN Transitions \cup TerminalStates \cup {"absent"}
    BY DEF GrantKept, TypeOK
  <2> QED
    BY <2>1, <2>2 DEF Unfinished, Orphan, Crossed, Rests, Transitions, TerminalStates
<1> QED
  BY <1>1, AlwaysInOrder, PTL
=============================================================================
