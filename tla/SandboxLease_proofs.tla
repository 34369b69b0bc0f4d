------------------------ MODULE SandboxLease_proofs ------------------------
(***************************************************************************)
(* The invariants of SandboxLease for every set of requests.               *)
(*                                                                         *)
(* Placed says in which state an execution is at each label; on it rests   *)
(* OneContainer (only the request that reserved the lease creates, and     *)
(* only before it is known to have), on that Names (what is bound exists   *)
(* or is gone for good), and beside them Spent (uses and executions).      *)
(* Unended keeps track, until the first restart, of the commands nobody    *)
(* waits for, and Stands, over all restarts, of the lease one of them left *)
(* out of use.                                                             *)
(***************************************************************************)
EXTENDS SandboxLease, TLAPS

LeaseState ==
  {"absent", "reserved", "created", "running", "closing", "closed", "indeterminate"}
ToolState ==
  {"absent", "prepared", "admitted", "dispatching", "effect_observed",
   "completed", "failed", "indeterminate"}
Settled == {"succeeded", "failed", "indeterminate"}
Result == {"none", "succeeded", "failed", "indeterminate", "exec_termination_unknown"}
Label ==
  {"idle", "preflight", "reserve", "lease", "begin", "admit", "dispatch",
   "create", "observe", "start", "exec", "command",
   "close", "inspect", "remove", "settle", "terminate"}

Types ==
  /\ lease \in LeaseState /\ creator \in Request \cup {None}
  /\ tool \in [Request -> ToolState]
  /\ use \in [Request -> Settled \cup {"none", "open"}]
  /\ container \in {"absent", "created", "running", "exited"} /\ creations \in Nat
  /\ pc \in [Request -> Label]
  /\ result \in [Request -> Result]
  /\ cache \in [Request -> {"none", "identity", "closed"}]
  /\ mode \in {"up", "leases", "tools"} /\ crashes \in Nat

(* The state of an execution, and what was answered, at each label.        *)
Place(r) ==
  /\ pc[r] # "idle" => mode = "up"
  /\ pc[r] \in {"preflight", "reserve"} => tool[r] = "prepared"
  /\ pc[r] \in {"lease", "begin", "admit"} => tool[r] \in {"prepared", "admitted"}
  /\ pc[r] = "dispatch" => tool[r] = "admitted"
  /\ pc[r] \in {"create", "observe", "exec", "close"} => tool[r] = "dispatching"
  /\ pc[r] \in {"start", "command", "inspect", "remove"} => tool[r] = "effect_observed"
  /\ pc[r] \in {"settle", "terminate"} => tool[r] \in Crossed /\ result[r] # "none"
  /\ pc[r] \in {"create", "observe", "start"} => Op[r] = "create"
  /\ pc[r] \in {"exec", "command", "terminate"} => Op[r] = "exec"
  /\ pc[r] \in {"begin", "close", "inspect", "remove"} => Op[r] = "close"
  /\ pc[r] = "settle" /\ Op[r] # "exec" => result[r] \in {"succeeded", "indeterminate"}
  /\ pc[r] = "settle" /\ Op[r] = "create" /\ result[r] = "succeeded"
       => tool[r] = "effect_observed"

Placed == \A r \in Request : Place(r)

Inv1 == Types /\ Placed

LEMMA Inv1Init == Init => Inv1
BY SandboxAssumption
DEF Init, Inv1, Types, Placed, Place, LeaseState, ToolState, Settled, Result, Label, Crossed

LEMMA Inv1Execute ==
  ASSUME Inv1, NEW r \in Request, Execute(r)
  PROVE  Inv1'
<1> USE SandboxAssumption DEF Inv1, Types, Placed, Place, LeaseState, ToolState, Settled,
      Result, Label, Crossed, Proceed, Return, Answer, Goto, MoveTool, SetTool, leaseVars,
      ledger, docker, service
<1>1. CASE Call(r)  BY <1>1 DEF Call
<1>2. CASE Preflight(r)  BY <1>2 DEF Preflight
<1>3. CASE ReserveUse(r)  BY <1>3 DEF ReserveUse
<1>4. CASE ReserveLease(r)  BY <1>4 DEF ReserveLease
<1>5. CASE LookForClose(r)  BY <1>5 DEF LookForClose
<1>6. CASE BeginClose(r)  BY <1>6 DEF BeginClose, SetLease
<1>7. CASE SkipLease(r)  BY <1>7 DEF SkipLease
<1>8. CASE Admit(r)  BY <1>8 DEF Admit
<1>9. CASE Dispatch(r)  BY <1>9 DEF Dispatch
<1>10. CASE Create(r)  BY <1>10 DEF Create
<1>11. CASE ObserveCreate(r)  BY <1>11 DEF ObserveCreate
<1>12. CASE StartContainer(r)  BY <1>12 DEF StartContainer
<1>13. CASE StartExec(r)  BY <1>13 DEF StartExec
<1>14. CASE Command(r)  BY <1>14 DEF Command
<1>15. CASE StartClose(r)  BY <1>15 DEF StartClose
<1>16. CASE InspectForClose(r)  BY <1>16 DEF InspectForClose
<1>17. CASE Remove(r)  BY <1>17 DEF Remove
<1>18. CASE SettleCreate(r)
  BY <1>18 DEF SettleCreate, Settlement, SettlementRaises, SetLease, Outcome, StateFor
<1>19. CASE SettleQuarantine(r)
  BY <1>19 DEF SettleQuarantine, Quarantines, Settlement, SettlementRaises, SetLease, Outcome, StateFor
<1>20. CASE SettleClose(r)
  BY <1>20 DEF SettleClose, Settlement, SettlementRaises, SetLease, Outcome, StateFor
<1>21. CASE FinalizeExec(r)  BY <1>21 DEF FinalizeExec, Outcome
<1>22. CASE TerminateExec(r)  BY <1>22 DEF TerminateExec, Outcome, StateFor
<1>23. QED
  BY <1>1, <1>2, <1>3, <1>4, <1>5, <1>6, <1>7, <1>8, <1>9, <1>10, <1>11, <1>12, <1>13,
     <1>14, <1>15, <1>16, <1>17, <1>18, <1>19, <1>20, <1>21, <1>22 DEF Execute

LEMMA Inv1Recover ==
  ASSUME Inv1, NEW r \in Request, RecoverTool(r)
  PROVE  Inv1'
BY SandboxAssumption
DEF RecoverTool, Inv1, Types, Placed, Place, LeaseState, ToolState, Settled, Result, Label,
  Crossed, SetTool, leaseVars, docker, local

(* What the reconciler does to the lease.                                  *)
LEMMA ReconcilerStates ==
  ASSUME lease \in LeaseState, NEW seen, ReconcileOne(seen)
  PROVE  /\ lease' \in LeaseState /\ creator' = creator
         /\ lease = "absent" <=> lease' = "absent"
BY DEF ReconcileOne, ReconcileReserved, ReconcileClosing, ReconcileSeen, Once, Leave,
  Quarantine, SetLease, leaseVars, LeaseState

LEMMA Inv1Next == Inv1 /\ [Next]_vars => Inv1'
<1> SUFFICES ASSUME Inv1, [Next]_vars PROVE Inv1'
  OBVIOUS
<1> USE SandboxAssumption DEF Inv1, Types, Placed, Place, LeaseState, ToolState, Settled,
      Result, Label, Crossed
<1>1. CASE \E r \in Request : Execute(r)  BY <1>1, Inv1Execute
<1>2. CASE \E r \in Request : RecoverTool(r)  BY <1>2, Inv1Recover
<1>3. CASE ContainerExits \/ CommandEnds \/ Expire
  BY <1>3 DEF ContainerExits, CommandEnds, Expire, ledger, leaseVars, docker, local, service
<1>4. CASE Crash  BY <1>4 DEF Crash, ledger, leaseVars
<1>5. CASE ReconcileLease
  BY <1>5, ReconcilerStates DEF ReconcileLease, docker, local
<1>6. CASE Serve  BY <1>6 DEF Serve, ledger, leaseVars, docker, local
<1>7. CASE UNCHANGED vars
  BY <1>7 DEF vars, ledger, leaseVars, docker, local, service
<1>8. QED
  BY <1>1, <1>2, <1>3, <1>4, <1>5, <1>6, <1>7 DEF Next
-----------------------------------------------------------------------------
(* Only the request that reserved the lease gets to docker create, and     *)
(* from then on its execution never looks resumable again.                 *)
OneContainer ==
  /\ creator = None <=> lease = "absent"
  /\ creator # None => Op[creator] = "create"
  /\ \A r \in Request :
       /\ Op[r] = "create"
       /\ \/ pc[r] \in {"admit", "dispatch", "create", "observe", "start", "settle"}
          \/ tool[r] \in {"admitted", "completed", "indeterminate"} \cup Crossed
       => creator = r
  /\ creations \in {0, 1}
  /\ creations = 1 =>
       /\ creator \in Request
       /\ tool[creator] \in {"completed", "indeterminate"} \cup Crossed
       /\ pc[creator] # "create"
  /\ container # "absent" => creations = 1

LEMMA OneContainerInit == Init => OneContainer
BY SandboxAssumption DEF Init, OneContainer, Crossed

LEMMA OneContainerExecute ==
  ASSUME Inv1, OneContainer, NEW r \in Request, Execute(r)
  PROVE  OneContainer'
<1> USE SandboxAssumption DEF Inv1, Types, Placed, Place, ToolState, Label, Result,
      OneContainer, Crossed, Proceed, Return, Answer, Goto, MoveTool, SetTool, leaseVars,
      ledger, docker, service
<1>1. CASE Call(r)  BY <1>1 DEF Call
<1>2. CASE Preflight(r)  BY <1>2 DEF Preflight
<1>3. CASE ReserveUse(r)  BY <1>3 DEF ReserveUse
<1>4. CASE ReserveLease(r)  BY <1>4 DEF ReserveLease
<1>5. CASE LookForClose(r)  BY <1>5 DEF LookForClose
<1>6. CASE BeginClose(r)  BY <1>6 DEF BeginClose, SetLease
<1>7. CASE SkipLease(r)  BY <1>7 DEF SkipLease
<1>8. CASE Admit(r)  BY <1>8 DEF Admit
<1>9. CASE Dispatch(r)  BY <1>9 DEF Dispatch
<1>10. CASE Create(r)  BY <1>10 DEF Create
<1>11. CASE ObserveCreate(r)  BY <1>11 DEF ObserveCreate
<1>12. CASE StartContainer(r)  BY <1>12 DEF StartContainer
<1>13. CASE StartExec(r)  BY <1>13 DEF StartExec
<1>14. CASE Command(r)  BY <1>14 DEF Command
<1>15. CASE StartClose(r)  BY <1>15 DEF StartClose
<1>16. CASE InspectForClose(r)  BY <1>16 DEF InspectForClose
<1>17. CASE Remove(r)  BY <1>17 DEF Remove
<1>18. CASE SettleCreate(r)
  BY <1>18 DEF SettleCreate, Settlement, SettlementRaises, SetLease, Outcome, StateFor
<1>19. CASE SettleQuarantine(r)
  BY <1>19 DEF SettleQuarantine, Quarantines, Settlement, SettlementRaises, SetLease, Outcome, StateFor
<1>20. CASE SettleClose(r)
  BY <1>20 DEF SettleClose, Settlement, SettlementRaises, SetLease, Outcome, StateFor
<1>21. CASE FinalizeExec(r)  BY <1>21 DEF FinalizeExec, Outcome
<1>22. CASE TerminateExec(r)  BY <1>22 DEF TerminateExec, Outcome, StateFor
<1>23. QED
  BY <1>1, <1>2, <1>3, <1>4, <1>5, <1>6, <1>7, <1>8, <1>9, <1>10, <1>11, <1>12, <1>13,
     <1>14, <1>15, <1>16, <1>17, <1>18, <1>19, <1>20, <1>21, <1>22 DEF Execute

LEMMA OneContainerRecover ==
  ASSUME Inv1, OneContainer, NEW r \in Request, RecoverTool(r)
  PROVE  OneContainer'
BY SandboxAssumption
DEF RecoverTool, Inv1, Types, Placed, Place, ToolState, Label, OneContainer, Crossed,
  SetTool, leaseVars, docker, local

LEMMA OneContainerNext == Inv1 /\ OneContainer /\ [Next]_vars => OneContainer'
<1> SUFFICES ASSUME Inv1, OneContainer, [Next]_vars PROVE OneContainer'
  OBVIOUS
<1> USE SandboxAssumption DEF Inv1, Types, Placed, Place, ToolState, Label, OneContainer,
      Crossed
<1>1. CASE \E r \in Request : Execute(r)  BY <1>1, OneContainerExecute
<1>2. CASE \E r \in Request : RecoverTool(r)  BY <1>2, OneContainerRecover
<1>3. CASE ContainerExits \/ CommandEnds \/ Expire
  BY <1>3 DEF ContainerExits, CommandEnds, Expire, ledger, leaseVars, docker, local, service
<1>4. CASE Crash  BY <1>4 DEF Crash, ledger, leaseVars
<1>5. CASE ReconcileLease
  BY <1>5, ReconcilerStates DEF ReconcileLease, docker, local
<1>6. CASE Serve  BY <1>6 DEF Serve, ledger, leaseVars, docker, local
<1>7. CASE UNCHANGED vars
  BY <1>7 DEF vars, ledger, leaseVars, docker, local, service
<1>8. QED
  BY <1>1, <1>2, <1>3, <1>4, <1>5, <1>6, <1>7 DEF Next

(* Inv1 and OneContainer hold together.                                    *)
LEMMA OneContainerHolds == Spec => [](Inv1 /\ OneContainer)
<1>1. Init => Inv1 /\ OneContainer  BY Inv1Init, OneContainerInit
<1>2. Inv1 /\ OneContainer /\ [Next]_vars => (Inv1 /\ OneContainer)'
  BY Inv1Next, OneContainerNext
<1>3. QED  BY <1>1, <1>2, PTL DEF Spec

(* For every set of requests and every number of restarts a lease has at   *)
(* most one container made for it, a creation is never sent twice, and a   *)
(* container always has its lease in the ledger, with the request that     *)
(* made it.                                                                *)
THEOREM OneCreation == Spec => []CreatedOnce
<1>1. Inv1 /\ OneContainer => CreatedOnce
  BY SandboxAssumption DEF Inv1, Types, OneContainer, CreatedOnce
<1>2. QED  BY <1>1, OneContainerHolds, PTL
-----------------------------------------------------------------------------
(* What a lease names was made and, once the lease is closed, is gone for  *)
(* good: nothing can be created a second time.                             *)
Names ==
  /\ bound => creations = 1
  /\ lease \in {"absent", "reserved"} => ~bound
  /\ lease = "created" => bound
  /\ lease = "closed" /\ bound => container = "absent"
  /\ \A r \in Request :
       /\ pc[r] \in {"observe", "remove"} => creations = 1
       /\ cache[r] = "closed" => lease = "closed"
       /\ pc[r] = "settle" /\ Op[r] = "close" /\ result[r] = "succeeded" =>
            lease = "closed" \/ (container = "absent" /\ creations = 1)
       /\ tool[r] = "completed" /\ Op[r] = "create" => bound
       /\ tool[r] = "completed" /\ Op[r] = "close" => lease = "closed"

LEMMA NamesInit == Init => Names
BY SandboxAssumption DEF Init, Names

LEMMA NamesExecute ==
  ASSUME Inv1, OneContainer, Names, NEW r \in Request, Execute(r)
  PROVE  Names'
<1> USE SandboxAssumption DEF Inv1, Types, Placed, Place, ToolState, Label, Result,
      OneContainer, Names, Crossed, Proceed, Return, Answer, Goto, MoveTool, SetTool, leaseVars,
      ledger, docker, service
<1>1. CASE Call(r)  BY <1>1 DEF Call
<1>2. CASE Preflight(r)  BY <1>2 DEF Preflight
<1>3. CASE ReserveUse(r)  BY <1>3 DEF ReserveUse
<1>4. CASE ReserveLease(r)  BY <1>4 DEF ReserveLease
<1>5. CASE LookForClose(r)  BY <1>5 DEF LookForClose
<1>6. CASE BeginClose(r)  BY <1>6 DEF BeginClose, SetLease
<1>7. CASE SkipLease(r)  BY <1>7 DEF SkipLease
<1>8. CASE Admit(r)  BY <1>8 DEF Admit
<1>9. CASE Dispatch(r)  BY <1>9 DEF Dispatch
<1>10. CASE Create(r)  BY <1>10 DEF Create
<1>11. CASE ObserveCreate(r)  BY <1>11 DEF ObserveCreate
<1>12. CASE StartContainer(r)  BY <1>12 DEF StartContainer
<1>13. CASE StartExec(r)  BY <1>13 DEF StartExec
<1>14. CASE Command(r)  BY <1>14 DEF Command
<1>15. CASE StartClose(r)  BY <1>15 DEF StartClose
<1>16. CASE InspectForClose(r)  BY <1>16 DEF InspectForClose
<1>17. CASE Remove(r)  BY <1>17 DEF Remove
<1>18. CASE SettleCreate(r)
  BY <1>18 DEF SettleCreate, Settlement, SettlementRaises, SetLease, Outcome, StateFor
<1>19. CASE SettleQuarantine(r)
  BY <1>19 DEF SettleQuarantine, Quarantines, Settlement, SettlementRaises, SetLease, Outcome, StateFor
<1>20. CASE SettleClose(r)
  BY <1>20 DEF SettleClose, Settlement, SettlementRaises, SetLease, Outcome, StateFor
<1>21. CASE FinalizeExec(r)  BY <1>21 DEF FinalizeExec, Outcome
<1>22. CASE TerminateExec(r)  BY <1>22 DEF TerminateExec, Outcome, StateFor
<1>23. QED
  BY <1>1, <1>2, <1>3, <1>4, <1>5, <1>6, <1>7, <1>8, <1>9, <1>10, <1>11, <1>12, <1>13,
     <1>14, <1>15, <1>16, <1>17, <1>18, <1>19, <1>20, <1>21, <1>22 DEF Execute

LEMMA NamesRecover ==
  ASSUME Inv1, Names, NEW r \in Request, RecoverTool(r)
  PROVE  Names'
BY SandboxAssumption
DEF RecoverTool, Inv1, Types, ToolState, Names, Crossed, SetTool, leaseVars, docker, local

(* The reconciler closes a named container only when it saw none, and      *)
(* names one only when it saw it.                                          *)
LEMMA ReconcilerNames ==
  ASSUME Inv1, OneContainer, Names, NEW seen \in {container, "unreachable"},
         ReconcileOne(seen)
  PROVE  /\ bound' => creations = 1
         /\ bound => bound'
         /\ lease' \in {"absent", "reserved"} => ~bound'
         /\ lease' = "created" => bound'
         /\ lease' = "closed" /\ bound' => container = "absent"
         /\ lease = "closed" => lease' = "closed"
<1> USE DEF Inv1, Types, OneContainer, Names, LeaseState, leaseVars
<1>1. CASE Leave  BY <1>1 DEF Leave
<1>2. CASE ReconcileReserved /\ lease = "reserved"
  BY <1>2 DEF ReconcileReserved, Leave, Quarantine, Once, SetLease
<1>3. CASE ReconcileClosing(seen) /\ lease = "closing"
  BY <1>3 DEF ReconcileClosing, Leave, Quarantine, Once, SetLease
<1>4. CASE ReconcileSeen(seen) /\ lease \in {"created", "running", "indeterminate"}
  BY <1>4 DEF ReconcileSeen, Leave, Quarantine, Once, SetLease
<1>5. CASE SetLease("indeterminate", "other") /\ lease \in {"created", "running"}
  BY <1>5 DEF SetLease
<1>6. QED  BY <1>1, <1>2, <1>3, <1>4, <1>5 DEF ReconcileOne

LEMMA NamesNext == Inv1 /\ OneContainer /\ Names /\ [Next]_vars => Names'
<1> SUFFICES ASSUME Inv1, OneContainer, Names, [Next]_vars PROVE Names'
  OBVIOUS
<1> USE SandboxAssumption DEF Inv1, Types, OneContainer, Names, Crossed
<1>1. CASE \E r \in Request : Execute(r)  BY <1>1, NamesExecute
<1>2. CASE \E r \in Request : RecoverTool(r)  BY <1>2, NamesRecover
<1>3. CASE ContainerExits \/ CommandEnds \/ Expire
  BY <1>3 DEF ContainerExits, CommandEnds, Expire, ledger, leaseVars, docker, local, service
<1>4. CASE Crash  BY <1>4 DEF Crash, ledger, leaseVars
<1>5. CASE ReconcileLease
  BY <1>5, ReconcilerNames DEF ReconcileLease, docker, local
<1>6. CASE Serve  BY <1>6 DEF Serve, ledger, leaseVars, docker, local
<1>7. CASE UNCHANGED vars
  BY <1>7 DEF vars, ledger, leaseVars, docker, local, service
<1>8. QED
  BY <1>1, <1>2, <1>3, <1>4, <1>5, <1>6, <1>7 DEF Next

(* What was closed while it named a container has none left, whatever      *)
(* order the broker, the restarts and Docker took.                         *)
THEOREM ClosedIsRemoved == Spec => []ClosedMeansRemoved
<1>1. Init => Names  BY NamesInit
<1>2. Inv1 /\ OneContainer /\ Names /\ [Next]_vars => Names'  BY NamesNext
<1>3. Names => ClosedMeansRemoved  BY DEF Names, ClosedMeansRemoved
<1>4. QED  BY <1>1, <1>2, <1>3, OneContainerHolds, PTL DEF Spec
-----------------------------------------------------------------------------
(* The use of a creation or a close is spent with its execution; only the  *)
(* recovery takes two commits, and is not over between them.               *)
Spent ==
  \A r \in Request : Op[r] # "exec" =>
    /\ use[r] = "open" => tool[r] \notin {"completed", "indeterminate"}
    /\ use[r] \in Settled =>
         \/ StateFor(use[r]) = tool[r]
         \/ /\ use[r] = "indeterminate" /\ tool[r] \in Crossed
            /\ mode = "leases" \/ (mode = "tools" /\ r \in todo)

LEMMA SpentInit == Init => Spent
BY SandboxAssumption DEF Init, Spent, Settled

LEMMA SpentExecute ==
  ASSUME Inv1, Spent, NEW r \in Request, Execute(r)
  PROVE  Spent'
<1> USE SandboxAssumption DEF Inv1, Types, Placed, Place, ToolState, Label, Result,
      Spent, Settled, StateFor, Crossed, Proceed, Return, Answer, Goto, MoveTool, SetTool, leaseVars,
      ledger, docker, service
<1>1. CASE Call(r)  BY <1>1 DEF Call
<1>2. CASE Preflight(r)  BY <1>2 DEF Preflight
<1>3. CASE ReserveUse(r)  BY <1>3 DEF ReserveUse
<1>4. CASE ReserveLease(r)  BY <1>4 DEF ReserveLease
<1>5. CASE LookForClose(r)  BY <1>5 DEF LookForClose
<1>6. CASE BeginClose(r)  BY <1>6 DEF BeginClose, SetLease
<1>7. CASE SkipLease(r)  BY <1>7 DEF SkipLease
<1>8. CASE Admit(r)  BY <1>8 DEF Admit
<1>9. CASE Dispatch(r)  BY <1>9 DEF Dispatch
<1>10. CASE Create(r)  BY <1>10 DEF Create
<1>11. CASE ObserveCreate(r)  BY <1>11 DEF ObserveCreate
<1>12. CASE StartContainer(r)  BY <1>12 DEF StartContainer
<1>13. CASE StartExec(r)  BY <1>13 DEF StartExec
<1>14. CASE Command(r)  BY <1>14 DEF Command
<1>15. CASE StartClose(r)  BY <1>15 DEF StartClose
<1>16. CASE InspectForClose(r)  BY <1>16 DEF InspectForClose
<1>17. CASE Remove(r)  BY <1>17 DEF Remove
<1>18. CASE SettleCreate(r)
  BY <1>18 DEF SettleCreate, Settlement, SettlementRaises, SetLease, Outcome, StateFor
<1>19. CASE SettleQuarantine(r)
  BY <1>19 DEF SettleQuarantine, Quarantines, Settlement, SettlementRaises, SetLease, Outcome, StateFor
<1>20. CASE SettleClose(r)
  BY <1>20 DEF SettleClose, Settlement, SettlementRaises, SetLease, Outcome, StateFor
<1>21. CASE FinalizeExec(r)  BY <1>21 DEF FinalizeExec, Outcome
<1>22. CASE TerminateExec(r)  BY <1>22 DEF TerminateExec, Outcome, StateFor
<1>23. QED
  BY <1>1, <1>2, <1>3, <1>4, <1>5, <1>6, <1>7, <1>8, <1>9, <1>10, <1>11, <1>12, <1>13,
     <1>14, <1>15, <1>16, <1>17, <1>18, <1>19, <1>20, <1>21, <1>22 DEF Execute

LEMMA SpentRecover ==
  ASSUME Inv1, Spent, NEW r \in Request, RecoverTool(r)
  PROVE  Spent'
BY SandboxAssumption
DEF RecoverTool, Inv1, Types, ToolState, Spent, Settled, StateFor, Crossed, SetTool,
  leaseVars, docker, local

LEMMA SpentNext == Inv1 /\ Spent /\ [Next]_vars => Spent'
<1> SUFFICES ASSUME Inv1, Spent, [Next]_vars PROVE Spent'
  OBVIOUS
<1> USE SandboxAssumption DEF Inv1, Types, ToolState, Spent, Settled, StateFor, Crossed
<1>1. CASE \E r \in Request : Execute(r)  BY <1>1, SpentExecute
<1>2. CASE \E r \in Request : RecoverTool(r)  BY <1>2, SpentRecover
<1>3. CASE ContainerExits \/ CommandEnds \/ Expire
  BY <1>3 DEF ContainerExits, CommandEnds, Expire, ledger, leaseVars, docker, local, service
<1>4. CASE Crash  BY <1>4 DEF Crash, ledger, leaseVars
<1>5. CASE ReconcileLease
  BY <1>5 DEF ReconcileLease, docker, local
<1>6. CASE Serve  BY <1>6 DEF Serve, ledger, leaseVars, docker, local
<1>7. CASE UNCHANGED vars
  BY <1>7 DEF vars, ledger, leaseVars, docker, local, service
<1>8. QED
  BY <1>1, <1>2, <1>3, <1>4, <1>5, <1>6, <1>7 DEF Next

(* Whenever the service serves, the three records of a creation or a close *)
(* that was settled say the same, through any number of restarts.          *)
THEOREM SettlementsDoAgree == Spec => []SettlementsAgree
<1>1. Init => Names /\ Spent  BY NamesInit, SpentInit
<1>2. Inv1 /\ OneContainer /\ Names /\ Spent /\ [Next]_vars => (Names /\ Spent)'
  BY NamesNext, SpentNext
<1>3. Inv1 /\ OneContainer /\ Names /\ Spent => SettlementsAgree
  BY DEF OneContainer, Names, Spent, Settled, SettlementsAgree
<1>4. QED  BY <1>1, <1>2, <1>3, OneContainerHolds, PTL DEF Spec
-----------------------------------------------------------------------------
(* Before the first restart a command can only have been left running by   *)
(* a lease that was running, and never comes back to be so.                *)
Used == {"running", "closing", "indeterminate", "closed"}

Unended ==
  crashes = 0 =>
    /\ mode = "up"
    /\ commands \subseteq Request
    /\ \A r \in Request :
         /\ Op[r] = "exec" /\ cache[r] = "identity" => lease \in Used
         /\ pc[r] = "command" => lease \in Used
         /\ r \in commands =>
              /\ Op[r] = "exec" /\ lease \in Used
              /\ tool[r] \in {"effect_observed", "indeterminate"}
              /\ \/ pc[r] = "idle"
                 \/ pc[r] = "settle" /\ result[r] = "exec_termination_unknown"
         /\ r \in commands /\ lease = "running" => tool[r] # "indeterminate"

LEMMA UnendedInit == Init => Unended
BY SandboxAssumption DEF Init, Unended

LEMMA UnendedExecute ==
  ASSUME Inv1, Unended, NEW r \in Request, Execute(r)
  PROVE  Unended'
<1> USE SandboxAssumption DEF Inv1, Types, Placed, Place, ToolState, Label, Result,
      Unended, Used, Crossed, Proceed, Return, Answer, Goto, MoveTool, SetTool, leaseVars,
      ledger, docker, service
<1>0. Op[r] = "exec" /\ InContext(r) => lease = "running"  BY DEF InContext
<1>1. CASE Call(r)  BY <1>1 DEF Call
<1>2. CASE Preflight(r)  BY <1>0, <1>2 DEF Preflight
<1>3. CASE ReserveUse(r)  BY <1>3 DEF ReserveUse
<1>4. CASE ReserveLease(r)  BY <1>4 DEF ReserveLease
<1>5. CASE LookForClose(r)  BY <1>5 DEF LookForClose
<1>6. CASE BeginClose(r)  BY <1>6 DEF BeginClose, SetLease
<1>7. CASE SkipLease(r)  BY <1>7 DEF SkipLease
<1>8. CASE Admit(r)  BY <1>8 DEF Admit
<1>9. CASE Dispatch(r)  BY <1>9 DEF Dispatch
<1>10. CASE Create(r)  BY <1>10 DEF Create
<1>11. CASE ObserveCreate(r)  BY <1>11 DEF ObserveCreate
<1>12. CASE StartContainer(r)  BY <1>12 DEF StartContainer
<1>13. CASE StartExec(r)  BY <1>0, <1>13 DEF StartExec
<1>14. CASE Command(r)  BY <1>14 DEF Command
<1>15. CASE StartClose(r)  BY <1>15 DEF StartClose
<1>16. CASE InspectForClose(r)  BY <1>16 DEF InspectForClose
<1>17. CASE Remove(r)  BY <1>17 DEF Remove
<1>18. CASE SettleCreate(r)
  BY <1>18 DEF SettleCreate, Settlement, SettlementRaises, SetLease, Outcome, StateFor
<1>19. CASE SettleQuarantine(r)
  BY <1>19 DEF SettleQuarantine, Quarantines, Settlement, SettlementRaises, SetLease, Outcome, StateFor
<1>20. CASE SettleClose(r)
  BY <1>20 DEF SettleClose, Settlement, SettlementRaises, SetLease, Outcome, StateFor
<1>21. CASE FinalizeExec(r)  BY <1>21 DEF FinalizeExec, Quarantines, Outcome
<1>22. CASE TerminateExec(r)  BY <1>22 DEF TerminateExec, Outcome, StateFor
<1>23. QED
  BY <1>1, <1>2, <1>3, <1>4, <1>5, <1>6, <1>7, <1>8, <1>9, <1>10, <1>11, <1>12, <1>13,
     <1>14, <1>15, <1>16, <1>17, <1>18, <1>19, <1>20, <1>21, <1>22 DEF Execute

LEMMA UnendedNext == Inv1 /\ Unended /\ [Next]_vars => Unended'
<1> SUFFICES ASSUME Inv1, Unended, [Next]_vars PROVE Unended'
  OBVIOUS
<1> USE SandboxAssumption DEF Inv1, Types, Unended, Used, Crossed
<1>1. CASE \E r \in Request : Execute(r)  BY <1>1, UnendedExecute
<1>2. CASE \E r \in Request : RecoverTool(r)  BY <1>2 DEF RecoverTool
<1>3. CASE ContainerExits \/ CommandEnds \/ Expire
  BY <1>3 DEF ContainerExits, CommandEnds, Expire, ledger, leaseVars, docker, local, service
<1>4. CASE Crash  BY <1>4 DEF Crash
<1>5. CASE ReconcileLease
  BY <1>5 DEF ReconcileLease
<1>6. CASE Serve  BY <1>6 DEF Serve, ledger, leaseVars, docker, local
<1>7. CASE UNCHANGED vars
  BY <1>7 DEF vars, ledger, leaseVars, docker, local, service
<1>8. QED
  BY <1>1, <1>2, <1>3, <1>4, <1>5, <1>6, <1>7 DEF Next

(* Until a restart, a lease is not running where a command left on it was  *)
(* settled as unknown.                                                     *)
UnknownEndQuarantines ==
  crashes = 0 /\ lease = "running" => \A r \in commands : tool[r] # "indeterminate"

LEMMA UnendedHolds == Spec => [](Inv1 /\ Unended)
<1>1. Init => Inv1 /\ Unended  BY Inv1Init, UnendedInit
<1>2. Inv1 /\ Unended /\ [Next]_vars => (Inv1 /\ Unended)'  BY Inv1Next, UnendedNext
<1>3. QED  BY <1>1, <1>2, PTL DEF Spec

(* The settlement of an unknown end takes the lease out of use in the same *)
(* commit, and nothing puts it back (services.py, the quarantine patch).   *)
THEOREM UnknownEndDoesQuarantine == Spec => []UnknownEndQuarantines
<1>1. Unended => UnknownEndQuarantines  BY DEF Unended, UnknownEndQuarantines
<1>2. QED  BY <1>1, UnendedHolds, PTL

(* A lease that stands for a command of unknown end is out of use, over    *)
(* any number of restarts.                                                 *)
Stands == reason = "exec_termination_unknown" => lease \in {"indeterminate", "closing", "closed"}

(* Only a close takes the reason away.                                     *)
ReasonStays == reason = "exec_termination_unknown" /\ reason' # reason => lease = "closing"

LEMMA StandsExecute ==
  ASSUME Stands, NEW r \in Request, Execute(r)
  PROVE  Stands' /\ ReasonStays
<1> USE DEF Stands, ReasonStays, MoveTool, SetTool, SetLease, Settlement, SettlementRaises,
      leaseVars, ledger
<1>1. CASE Call(r)  BY <1>1 DEF Call
<1>2. CASE Preflight(r)  BY <1>2 DEF Preflight
<1>3. CASE ReserveUse(r)  BY <1>3 DEF ReserveUse
<1>4. CASE ReserveLease(r)  BY <1>4 DEF ReserveLease
<1>5. CASE LookForClose(r)  BY <1>5 DEF LookForClose
<1>6. CASE BeginClose(r)  BY <1>6 DEF BeginClose
<1>7. CASE SkipLease(r)  BY <1>7 DEF SkipLease
<1>8. CASE Admit(r)  BY <1>8 DEF Admit
<1>9. CASE Dispatch(r)  BY <1>9 DEF Dispatch
<1>10. CASE Create(r)  BY <1>10 DEF Create
<1>11. CASE ObserveCreate(r)  BY <1>11 DEF ObserveCreate
<1>12. CASE StartContainer(r)  BY <1>12 DEF StartContainer
<1>13. CASE StartExec(r)  BY <1>13 DEF StartExec
<1>14. CASE Command(r)  BY <1>14 DEF Command
<1>15. CASE StartClose(r)  BY <1>15 DEF StartClose
<1>16. CASE InspectForClose(r)  BY <1>16 DEF InspectForClose
<1>17. CASE Remove(r)  BY <1>17 DEF Remove
<1>18. CASE SettleCreate(r)  BY <1>18 DEF SettleCreate
<1>19. CASE SettleQuarantine(r)  BY <1>19 DEF SettleQuarantine
<1>20. CASE SettleClose(r)  BY <1>20 DEF SettleClose
<1>21. CASE FinalizeExec(r)  BY <1>21 DEF FinalizeExec
<1>22. CASE TerminateExec(r)  BY <1>22 DEF TerminateExec
<1>23. QED
  BY <1>1, <1>2, <1>3, <1>4, <1>5, <1>6, <1>7, <1>8, <1>9, <1>10, <1>11, <1>12, <1>13,
     <1>14, <1>15, <1>16, <1>17, <1>18, <1>19, <1>20, <1>21, <1>22 DEF Execute

LEMMA StandsNext == Stands /\ [Next]_vars => Stands' /\ ReasonStays
<1> SUFFICES ASSUME Stands, [Next]_vars PROVE Stands' /\ ReasonStays
  OBVIOUS
<1> USE DEF Stands, ReasonStays, leaseVars, ledger
<1>1. CASE \E r \in Request : Execute(r)  BY <1>1, StandsExecute
<1>2. CASE \E r \in Request : RecoverTool(r)  BY <1>2 DEF RecoverTool
<1>3. CASE ContainerExits \/ CommandEnds \/ Expire
  BY <1>3 DEF ContainerExits, CommandEnds, Expire
<1>4. CASE Crash  BY <1>4 DEF Crash
<1>5. CASE ReconcileLease
  <2>1. PICK seen \in {container, "unreachable"} : ReconcileOne(seen)
    BY <1>5 DEF ReconcileLease
  <2>2. QED
    BY <2>1 DEF ReconcileOne, ReconcileReserved, ReconcileClosing, ReconcileSeen, Once,
                Leave, Quarantine, SetLease
<1>6. CASE Serve  BY <1>6 DEF Serve
<1>7. CASE UNCHANGED vars  BY <1>7 DEF vars
<1>8. QED
  BY <1>1, <1>2, <1>3, <1>4, <1>5, <1>6, <1>7 DEF Next

(* A step of one request moves no other.                                   *)
LEMMA OthersStay ==
  ASSUME Inv1, NEW r \in Request, NEW s \in Request \ {r}, Execute(r)
  PROVE  pc'[s] = pc[s]
<1>1. \A label : Goto(r, label) => pc'[s] = pc[s]
  BY DEF Inv1, Types, Goto
<1>2. \A from, to : Proceed(r, from, to) => pc'[s] = pc[s]
  BY <1>1 DEF Proceed
<1>3. \A from : Return(r, from) => pc'[s] = pc[s]
  BY <1>1 DEF Return
<1>4. \A from, status : Answer(r, from, status) => pc'[s] = pc[s]
  BY <1>1 DEF Answer
<1>5. QED
  BY <1>1, <1>2, <1>3, <1>4
  DEF Execute, Call, Preflight, ReserveUse, ReserveLease, LookForClose, BeginClose,
    SkipLease, Admit, Dispatch, Create, ObserveCreate, StartContainer, StartExec, Command,
    StartClose, InspectForClose, Remove, SettleCreate, SettleQuarantine, SettleClose,
    Settlement, SettlementRaises, FinalizeExec, TerminateExec

(* A lease that is not running lets no command in.                         *)
LEMMA EntryNeedsLease ==
  ASSUME Inv1, [Next]_vars, lease # "running"
  PROVE  NobodyEnters
<1> SUFFICES ASSUME NEW r \in Request, Op[r] = "exec", pc'[r] \in Underway, pc[r] \notin Underway
             PROVE  FALSE
  BY DEF NobodyEnters
<1> USE DEF Inv1, Types, Label, Underway
<1>1. CASE \E s \in Request : Execute(s)
  <2>1. PICK s \in Request : Execute(s)
    BY <1>1
  <2>2. CASE s = r
    <3> USE DEF Proceed, Return, Answer, Goto, InContext
    <3>1. ~Call(r) /\ ~Preflight(r)
      BY <2>2 DEF Call, Preflight
    <3>2. ~ReserveUse(r) /\ ~SkipLease(r) /\ ~Admit(r) /\ ~Dispatch(r) /\ ~StartExec(r)
      BY DEF ReserveUse, SkipLease, Admit, Dispatch, StartExec
    <3>3. ~ReserveLease(r) /\ ~LookForClose(r) /\ ~BeginClose(r)
      BY DEF ReserveLease, LookForClose, BeginClose, Placed, Place
    <3>4. ~Create(r) /\ ~ObserveCreate(r) /\ ~StartContainer(r) /\ ~Command(r)
      BY DEF Create, ObserveCreate, StartContainer, Command
    <3>5. ~StartClose(r) /\ ~InspectForClose(r) /\ ~Remove(r)
      BY DEF StartClose, InspectForClose, Remove
    <3>6. ~SettleCreate(r) /\ ~SettleQuarantine(r) /\ ~SettleClose(r)
      BY DEF SettleCreate, SettleQuarantine, SettleClose, Settlement, SettlementRaises
    <3>7. ~FinalizeExec(r) /\ ~TerminateExec(r)
      BY DEF FinalizeExec, TerminateExec
    <3>8. QED
      BY <2>1, <2>2, <3>1, <3>2, <3>3, <3>4, <3>5, <3>6, <3>7 DEF Execute
  <2>3. CASE s # r
    BY <2>1, <2>3, OthersStay
  <2>4. QED  BY <2>2, <2>3
<1>2. CASE \E s \in Request : RecoverTool(s)  BY <1>2 DEF RecoverTool, local
<1>3. CASE ContainerExits \/ CommandEnds \/ Expire
  BY <1>3 DEF ContainerExits, CommandEnds, Expire, local
<1>4. CASE Crash  BY <1>4 DEF Crash
<1>5. CASE ReconcileLease  BY <1>5 DEF ReconcileLease, local
<1>6. CASE Serve  BY <1>6 DEF Serve, local
<1>7. CASE UNCHANGED vars  BY <1>7 DEF vars, local
<1>8. QED
  BY <1>1, <1>2, <1>3, <1>4, <1>5, <1>6, <1>7 DEF Next

(* No command gets past its preflight beside one of unknown end, and the   *)
(* reason that keeps it out outlives every restart until a close takes it  *)
(* (_require_lease of the terminal adapter, reconcile_one).                *)
THEOREM UnknownEndDoesKeepOut == Spec => UnknownEndKeepsOut
<1>1. Init => Stands  BY DEF Init, Stands
<1>2. Inv1 /\ Unended /\ Stands /\ KeepsOut => lease # "running"
  BY DEF Unended, Stands, KeepsOut
<1>3. Inv1 /\ Unended /\ Stands /\ [Next]_vars =>
        /\ KeepsOut => NobodyEnters
        /\ reason = "exec_termination_unknown" /\ reason' # reason => lease = "closing"
  BY <1>2, StandsNext, EntryNeedsLease DEF ReasonStays
<1>4. QED  BY <1>1, <1>3, StandsNext, UnendedHolds, PTL DEF Spec, UnknownEndKeepsOut
=============================================================================
