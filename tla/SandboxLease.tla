---------------------------- MODULE SandboxLease ----------------------------
(***************************************************************************)
(* One persistent sandbox: its lease (aggregates/sandbox_lease.py), the    *)
(* container it stands for, and the tool requests that create it, execute  *)
(* in it and close it (tool_broker.py with the two inversion_sandbox       *)
(* adapters), each executed by a thread of its own.  At a restart of the   *)
(* service sandbox_reconciliation.py compares the lease with the container *)
(* and reconcile_stranded settles the requests, before anybody is served.  *)
(*                                                                         *)
(* A call of a service is one step, as StoreImplementsAtomicLedger allows. *)
(* Docker is external.  Guardian and network of an allowlist profile share *)
(* the fate of the container and are left out, and so are the denials of   *)
(* the broker that ToolBroker models.                                      *)
(***************************************************************************)
EXTENDS Naturals

CONSTANTS
  Request,
  Op,          \* Op[r]: the operation r asks for
  None,
  MaxCrashes   \* bound on restarts of the service

ASSUME SandboxAssumption ==
  /\ Op \in [Request -> {"create", "exec", "close"}]
  /\ None \notin Request
  /\ MaxCrashes \in Nat

VARIABLES
  lease,       \* its state, or "absent"
  reason,      \* its reconciliationReason
  creator,     \* its creationToolExecutionId
  bound,       \* does it name the container?
  expired,     \* has its expiresAt passed?
  tool, use,   \* each request's ToolExecution and reservation
  begun,       \* requests whose begin-sandbox-close is recorded
  reconciled,  \* keys the reconciler has used: what it did, on what evidence
  container,   \* in Docker
  creations,   \* containers created
  commands,    \* requests whose command runs on and nobody waits for it
  pc,          \* each thread's place
  result,      \* what its adapter answered
  cache,       \* what its adapter remembers of the preflight
  mode, todo,  \* start of the service, requests still to recover
  report,      \* the state of the lease the reconciler reports, or "none"
  crashes

leaseVars == <<lease, reason, creator, bound>>
ledger == <<leaseVars, tool, use, begun, reconciled>>
docker == <<container, creations, commands>>
local == <<pc, result, cache>>
service == <<mode, todo, report, crashes>>
vars == <<ledger, expired, docker, local, service>>

Init ==
  /\ lease = "absent" /\ reason = "none" /\ creator = None /\ bound = FALSE
  /\ expired = FALSE
  /\ tool = [r \in Request |-> "absent"] /\ use = [r \in Request |-> "none"]
  /\ begun = {} /\ reconciled = {}
  /\ container = "absent" /\ creations = 0 /\ commands = {}
  /\ pc = [r \in Request |-> "idle"]
  /\ result = [r \in Request |-> "none"]
  /\ cache = [r \in Request |-> "none"]
  /\ mode = "up" /\ todo = {} /\ report = "none" /\ crashes = 0
-----------------------------------------------------------------------------
Crossed == {"dispatching", "effect_observed"}
Terminal == {"completed", "failed", "indeterminate"}

Goto(r, label) ==
  /\ pc' = [pc EXCEPT ![r] = label]
  /\ UNCHANGED <<expired, service>>

Proceed(r, from, to) ==
  /\ pc[r] = from /\ Goto(r, to)
  /\ UNCHANGED <<result, cache>>

(* execute() returns, or an exception leaves it. *)
Return(r, from) ==
  /\ pc[r] = from /\ Goto(r, "idle")
  /\ result' = [result EXCEPT ![r] = "none"]
  /\ cache' = [cache EXCEPT ![r] = "none"]

(* The adapter answers, or raises behind the dispatch boundary.            *)
Answer(r, from, status) ==
  /\ pc[r] = from /\ Goto(r, "settle")
  /\ result' = [result EXCEPT ![r] = status]
  /\ UNCHANGED cache

SetTool(r, state) ==
  /\ tool' = [tool EXCEPT ![r] = state]
  /\ UNCHANGED <<begun, reconciled>>

MoveTool(r, state) == SetTool(r, state) /\ UNCHANGED <<leaseVars, use>>

SetLease(state, why) ==
  /\ lease' = state /\ reason' = why
  /\ UNCHANGED <<creator, bound>>

(* validate_sandbox_context, validate_persistent_exec_context              *)
InContext(r) ==
  CASE Op[r] = "create" -> TRUE
    [] Op[r] = "exec" -> lease = "running" /\ ~expired
    [] Op[r] = "close" -> lease # "absent"

\* Mutant: a request that crossed the boundary is resumed as well.
Call_ResumesCrossed(r) ==
  /\ mode = "up"
  /\ \/ /\ tool[r] = "absent" /\ MoveTool(r, "prepared")
        /\ Proceed(r, "idle", "preflight")
     \/ /\ tool[r] \in {"admitted", "dispatching"} /\ UNCHANGED ledger
        /\ Proceed(r, "idle", "lease")
  /\ UNCHANGED docker

(* execute(): a new request is prepared, a prepared or admitted one resumed. *)
Call(r) ==
  /\ mode = "up"
  /\ \/ /\ tool[r] = "absent" /\ MoveTool(r, "prepared")
        /\ Proceed(r, "idle", "preflight")
     \/ /\ tool[r] = "prepared" /\ UNCHANGED ledger
        /\ Proceed(r, "idle", "preflight")
     \/ /\ tool[r] = "admitted" /\ InContext(r) /\ UNCHANGED ledger
        /\ Proceed(r, "idle", "lease")
  /\ UNCHANGED docker

(* What the preflight of the adapters looks at; Docker may fail any of it. *)
MayPass(r) ==
  CASE Op[r] = "create" -> TRUE
    [] Op[r] = "exec" -> bound /\ container = "running"
    [] Op[r] = "close" ->
         \/ lease = "closed"
         \/ lease = "indeterminate" /\ bound
         \/ lease \in {"created", "running", "closing"} /\ bound /\ container # "absent"

LooksAtDocker(r) ==
  Op[r] = "close" => lease \in {"created", "running", "closing"}

Preflight(r) ==
  /\ \/ /\ ~InContext(r) /\ UNCHANGED ledger
        /\ Return(r, "preflight")
     \/ /\ InContext(r) /\ MayPass(r) /\ UNCHANGED <<ledger, result>>
        /\ pc[r] = "preflight" /\ Goto(r, "reserve")
        /\ cache' = [cache EXCEPT ![r] =
                       IF Op[r] = "close" /\ lease = "closed" THEN "closed" ELSE "identity"]
     \/ /\ InContext(r) /\ (LooksAtDocker(r) \/ ~MayPass(r))
        /\ MoveTool(r, "failed")
        /\ Return(r, "preflight")
  /\ UNCHANGED docker

(* reserve_use, which an exhausted or revoked grant makes raise.           *)
ReserveUse(r) ==
  /\ \/ /\ Proceed(r, "reserve", "lease")
        /\ use' = [use EXCEPT ![r] = "open"]
        /\ UNCHANGED <<leaseVars, tool, begun, reconciled>>
     \/ /\ use[r] # "open" /\ UNCHANGED ledger
        /\ Return(r, "reserve")
  /\ UNCHANGED docker
-----------------------------------------------------------------------------
(* reserve_sandbox_lease, under a key of the request: an id that exists is *)
(* refused, unless it was this request that reserved it.                   *)
ReserveLease(r) ==
  /\ Op[r] = "create"
  /\ \/ /\ lease = "absent" /\ lease' = "reserved" /\ creator' = r
        /\ Proceed(r, "lease", "admit")
        /\ UNCHANGED <<reason, bound, tool, use, begun, reconciled>>
     \/ /\ creator = r /\ UNCHANGED ledger
        /\ Proceed(r, "lease", "admit")
     \/ /\ creator # r /\ UNCHANGED ledger
        /\ Return(r, "lease")
  /\ UNCHANGED docker

(* begin_sandbox_close_patch, then begin_sandbox_close on what it is now.  *)
LookForClose(r) ==
  /\ Op[r] = "close" /\ UNCHANGED <<ledger, docker>>
  /\ \/ lease \in {"closing", "closed"} /\ Proceed(r, "lease", "admit")
     \/ lease \in {"created", "running", "indeterminate"} /\ Proceed(r, "lease", "begin")
     \/ lease = "reserved" /\ Return(r, "lease")

BeginClose(r) ==
  /\ \/ /\ r \in begun /\ UNCHANGED ledger
        /\ Proceed(r, "begin", "admit")
     \/ /\ r \notin begun /\ lease \in {"created", "running", "indeterminate"}
        /\ SetLease("closing", reason) /\ begun' = begun \cup {r}
        /\ Proceed(r, "begin", "admit")
        /\ UNCHANGED <<tool, use, reconciled>>
     \/ /\ r \notin begun /\ lease \notin {"created", "running", "indeterminate"}
        /\ UNCHANGED ledger
        /\ Return(r, "begin")
  /\ UNCHANGED docker

SkipLease(r) ==
  /\ Op[r] = "exec" /\ UNCHANGED <<ledger, docker>>
  /\ Proceed(r, "lease", "admit")

Admit(r) ==
  /\ Proceed(r, "admit", "dispatch")
  /\ IF tool[r] = "prepared" THEN MoveTool(r, "admitted") ELSE UNCHANGED ledger
  /\ UNCHANGED docker

Dispatch(r) ==
  /\ Proceed(r, "dispatch", Op[r])
  /\ MoveTool(r, "dispatching")
  /\ UNCHANGED docker
-----------------------------------------------------------------------------
(* create_persistent_stopped.  Where it raises, docker create may have     *)
(* timed out and still made the container, or its clean-up have failed.    *)
Create(r) ==
  /\ UNCHANGED <<ledger, commands>>
  /\ \/ /\ container' = "created" /\ creations' = creations + 1
        /\ Proceed(r, "create", "observe") \/ Answer(r, "create", "indeterminate")
     \/ /\ UNCHANGED <<container, creations>>
        /\ Answer(r, "create", "indeterminate")

(* observe_sandbox_create_effect: execution and lease in one commit.       *)
ObserveCreate(r) ==
  /\ \/ /\ lease = "reserved" /\ lease' = "created" /\ bound' = TRUE
        /\ SetTool(r, "effect_observed")
        /\ Proceed(r, "observe", "start")
        /\ UNCHANGED <<reason, creator, use>>
     \/ /\ lease # "reserved" /\ UNCHANGED ledger
        /\ Answer(r, "observe", "indeterminate")
  /\ UNCHANGED docker

StartContainer(r) ==
  /\ UNCHANGED <<ledger, creations, commands>>
  /\ \/ /\ container = "created" /\ container' = "running"
        /\ Answer(r, "start", "succeeded") \/ Answer(r, "start", "indeterminate")
     \/ UNCHANGED container /\ Answer(r, "start", "indeterminate")

(* exec_persistent inspects, then publishes the effect.  Without what the  *)
(* preflight left the lease is read again, otherwise it is not.            *)
StartExec(r) ==
  /\ \/ /\ container = "running" /\ (cache[r] = "identity" \/ InContext(r))
        /\ MoveTool(r, "effect_observed")
        /\ Proceed(r, "exec", "command")
     \/ UNCHANGED ledger /\ Answer(r, "exec", "indeterminate")
  /\ UNCHANGED docker

(* _exec_exact.  A time-out does not say whether the command has ended.    *)
Command(r) ==
  /\ UNCHANGED <<ledger, container, creations>>
  /\ \/ /\ \/ container = "running" /\ Answer(r, "command", "succeeded")
           \/ Answer(r, "command", "failed")
           \/ Answer(r, "command", "indeterminate")
        /\ UNCHANGED commands
     \/ /\ Answer(r, "command", "exec_termination_unknown")
        /\ commands' \in IF container = "running"
                         THEN {commands, commands \cup {r}} ELSE {commands}

(* A lease found closed by the preflight is not touched.                   *)
StartClose(r) ==
  /\ \/ /\ cache[r] = "closed" /\ UNCHANGED ledger
        /\ Answer(r, "close", "succeeded")
     \/ /\ cache[r] # "closed" /\ (cache[r] = "identity" \/ bound)
        /\ MoveTool(r, "effect_observed")
        /\ Proceed(r, "close", "inspect")
     \/ /\ cache[r] = "none" /\ ~bound /\ UNCHANGED ledger
        /\ Answer(r, "close", "indeterminate")
  /\ UNCHANGED docker

(* close_persistent inspects the container before it removes it.           *)
InspectForClose(r) ==
  /\ \/ container # "absent" /\ Proceed(r, "inspect", "remove")
     \/ Answer(r, "inspect", "indeterminate")
  /\ UNCHANGED <<ledger, docker>>

\* Mutant: success is reported without the proof of absence.
Remove_Unproven(r) ==
  /\ \/ /\ container' = "absent" /\ commands' = {}
        /\ Answer(r, "remove", "succeeded") \/ Answer(r, "remove", "indeterminate")
     \/ UNCHANGED <<container, commands>> /\ Answer(r, "remove", "succeeded")
  /\ UNCHANGED <<ledger, creations>>

Remove(r) ==
  /\ \/ /\ container' = "absent" /\ commands' = {}
        /\ Answer(r, "remove", "succeeded") \/ Answer(r, "remove", "indeterminate")
     \/ UNCHANGED <<container, commands>> /\ Answer(r, "remove", "indeterminate")
  /\ UNCHANGED <<ledger, creations>>
-----------------------------------------------------------------------------
Outcome(r) ==
  IF result[r] = "exec_termination_unknown" THEN "indeterminate" ELSE result[r]

StateFor(status) == IF status = "succeeded" THEN "completed" ELSE status

\* Mutant: the lease is left to a commit of its own.
Settlement_Split(r, state, why) ==
  /\ Return(r, "settle")
  /\ use[r] = "open"
  /\ use' = [use EXCEPT ![r] = Outcome(r)]
  /\ SetTool(r, StateFor(Outcome(r)))
  /\ UNCHANGED <<leaseVars, docker>>

(* Consumption, execution and lease are settled in one commit.             *)
Settlement(r, state, why) ==
  /\ Return(r, "settle")
  /\ use[r] = "open"
  /\ use' = [use EXCEPT ![r] = Outcome(r)]
  /\ SetTool(r, StateFor(Outcome(r)))
  /\ SetLease(state, why)
  /\ UNCHANGED docker

(* A settlement the states do not allow raises and leaves execute(), and   *)
(* so does one whose streams, the grant's among them, moved meanwhile.     *)
SettlementRaises(r) ==
  /\ Return(r, "settle") /\ UNCHANGED <<ledger, docker>>

SettleCreate(r) ==
  /\ Op[r] = "create"
  /\ \/ /\ tool[r] = "effect_observed" /\ lease = "created"
        /\ \/ result[r] = "succeeded" /\ Settlement(r, "running", reason)
           \/ result[r] = "indeterminate" /\ Settlement(r, "indeterminate", "other")
     \/ /\ tool[r] = "dispatching" /\ lease = "reserved"
        /\ Settlement(r, "indeterminate", "other")
     \/ SettlementRaises(r)

(* Only an unknown outcome of an observed effect quarantines the lease.    *)
Quarantines(r) ==
  /\ Op[r] = "exec" /\ Outcome(r) = "indeterminate"
  /\ tool[r] = "effect_observed"

\* Mutant: the lease is left as it is.
SettleQuarantine_ToolOnly(r) ==
  /\ Quarantines(r)
  /\ \/ lease = "running" /\ Settlement(r, lease, reason)
     \/ SettlementRaises(r)

SettleQuarantine(r) ==
  /\ Quarantines(r)
  /\ \/ /\ lease = "running"
        /\ Settlement(r, "indeterminate",
             IF result[r] = "indeterminate" THEN "other" ELSE result[r])
     \/ SettlementRaises(r)

(* Any other command: finalize_use, which may raise, then the execution.   *)
FinalizeExec(r) ==
  /\ Op[r] = "exec" /\ ~Quarantines(r)
  /\ \/ /\ Proceed(r, "settle", "terminate")
        /\ use' = [use EXCEPT ![r] = Outcome(r)]
        /\ UNCHANGED <<leaseVars, tool, begun, reconciled>>
     \/ /\ UNCHANGED ledger /\ pc[r] = "settle" /\ Goto(r, "terminate")
        /\ result' = [result EXCEPT ![r] = "indeterminate"] /\ UNCHANGED cache
  /\ UNCHANGED docker

TerminateExec(r) ==
  /\ Return(r, "terminate")
  /\ MoveTool(r, StateFor(Outcome(r)))
  /\ UNCHANGED docker

SettleClose(r) ==
  /\ Op[r] = "close"
  /\ \/ /\ result[r] = "succeeded" /\ lease \in {"closing", "closed"}
        /\ Settlement(r, "closed", reason)
     \/ /\ result[r] = "indeterminate" /\ lease = "closing"
        /\ Settlement(r, "indeterminate", "other")
     \/ SettlementRaises(r)

Execute(r) ==
  \/ Call(r) \/ Preflight(r) \/ ReserveUse(r)
  \/ ReserveLease(r) \/ LookForClose(r) \/ BeginClose(r) \/ SkipLease(r)
  \/ Admit(r) \/ Dispatch(r)
  \/ Create(r) \/ ObserveCreate(r) \/ StartContainer(r)
  \/ StartExec(r) \/ Command(r)
  \/ StartClose(r) \/ InspectForClose(r) \/ Remove(r)
  \/ SettleCreate(r) \/ SettleQuarantine(r) \/ SettleClose(r)
  \/ FinalizeExec(r) \/ TerminateExec(r)
-----------------------------------------------------------------------------
(* External: a container stops, a command ends, time passes.               *)
ContainerExits ==
  /\ container = "running" /\ container' = "exited" /\ commands' = {}
  /\ UNCHANGED <<ledger, expired, creations, local, service>>

CommandEnds ==
  /\ \E r \in commands : commands' = commands \ {r}
  /\ UNCHANGED <<ledger, expired, container, creations, local, service>>

Expire ==
  /\ ~expired /\ lease # "absent" /\ expired' = TRUE
  /\ UNCHANGED <<ledger, docker, local, service>>

(* The service dies and starts again; what Docker was told to do goes on.  *)
Crash ==
  /\ crashes < MaxCrashes /\ crashes' = crashes + 1
  /\ mode' = "leases" /\ todo' = {} /\ report' = "none"
  /\ pc' = [r \in Request |-> "idle"]
  /\ result' = [r \in Request |-> "none"]
  /\ cache' = [r \in Request |-> "none"]
  /\ commands' \in IF container = "running"
       THEN {commands \cup R : R \in SUBSET {r \in Request : pc[r] = "command"}}
       ELSE {commands}
  /\ UNCHANGED <<ledger, expired, container, creations>>
-----------------------------------------------------------------------------
(* One transition of the lease by the reconciler.  The key is made of the  *)
(* action and its evidence: the second time the commit is a replay, which  *)
(* is reported like the first.                                             *)
Once(action, evidence, state) ==
  /\ report' = state
  /\ IF <<action, evidence>> \in reconciled THEN UNCHANGED <<leaseVars, reconciled>>
     ELSE /\ SetLease(state, "other")
          /\ reconciled' = reconciled \cup {<<action, evidence>>}

Leave == report' = "none" /\ UNCHANGED <<leaseVars, reconciled>>
Quarantine(evidence) == Once("quarantine", evidence, "indeterminate")

(* A reserved lease: closed on the proof that Docker has nothing of it,    *)
(* created if there is exactly its container, never started.               *)
ReconcileReserved ==
  \/ Leave
  \/ container = "absent" /\ Once("close", container, "closed")
  \/ /\ container = "created"
     /\ lease' = "created" /\ reason' = "other" /\ bound' = TRUE
     /\ report' = "created" /\ UNCHANGED <<creator, reconciled>>
  \/ container # "absent" /\ Quarantine("ambiguous")

ReconcileClosing(seen) ==
  \/ seen = "absent" /\ Once("close", seen, "closed")
  \/ seen \in {"absent", "unreachable"} /\ Quarantine(seen)
  \/ seen \notin {"absent", "unreachable"} /\ Leave

ReconcileSeen(seen) ==
  CASE lease = "created" /\ seen = "running" -> Once("start", seen, "running")
    [] lease = "created" /\ seen = "created" -> Leave
    [] lease = "running" /\ seen = "running" -> Leave
    [] lease = "indeterminate" /\ seen = "running" -> Once("resume", seen, "running")
    [] lease = "indeterminate" /\ seen # "running" -> Leave
    [] OTHER -> Quarantine(seen)

(* reconcile_one: what Docker shows may be the container or nothing.       *)
ReconcileOne(seen) ==
  CASE lease \in {"absent", "closed"} -> Leave
    [] lease = "reserved" -> ReconcileReserved
    [] lease \notin {"absent", "closed", "reserved"} /\ ~bound -> Leave
    [] lease = "closing" /\ bound -> ReconcileClosing(seen)
    [] lease = "indeterminate" /\ bound /\ (expired \/ reason = "exec_termination_unknown") ->
         Leave
    [] lease \in {"created", "running"} /\ bound /\ expired ->
         SetLease("indeterminate", "other") /\ report' = lease' /\ UNCHANGED reconciled
    [] OTHER -> ReconcileSeen(seen)

ReconcileLease ==
  /\ mode = "leases" /\ mode' = "tools"
  /\ todo' = {r \in Request : tool[r] # "absent"}
  /\ \E seen \in {container, "unreachable"} : ReconcileOne(seen)
  /\ UNCHANGED <<tool, use, begun, expired, docker, local, crashes>>

(* reconcile_stranded: the lease is not looked at.                         *)
RecoverTool(r) ==
  /\ mode = "tools" /\ r \in todo
  /\ \/ /\ tool[r] = "prepared" /\ use[r] = "open"
        /\ use' = [use EXCEPT ![r] = "failed"] /\ SetTool(r, "failed")
        /\ todo' = todo \ {r}
     \/ /\ tool[r] \in Crossed /\ use[r] = "open"
        /\ use' = [use EXCEPT ![r] = "indeterminate"]
        /\ UNCHANGED <<tool, begun, reconciled, todo>>
     \/ /\ tool[r] \in Crossed /\ use[r] # "open"
        /\ SetTool(r, "indeterminate") /\ UNCHANGED use
        /\ todo' = todo \ {r}
     \/ /\ tool[r] \notin Crossed /\ ~(tool[r] = "prepared" /\ use[r] = "open")
        /\ UNCHANGED <<tool, use, begun, reconciled>>
        /\ todo' = todo \ {r}
  /\ UNCHANGED <<leaseVars, expired, docker, local, mode, report, crashes>>

Serve ==
  /\ mode = "tools" /\ todo = {} /\ mode' = "up" /\ report' = "none"
  /\ UNCHANGED <<ledger, expired, docker, local, todo, crashes>>

Next ==
  \/ \E r \in Request : Execute(r) \/ RecoverTool(r)
  \/ ContainerExits \/ CommandEnds \/ Expire
  \/ Crash \/ ReconcileLease \/ Serve

Spec == Init /\ [][Next]_vars
-----------------------------------------------------------------------------
(* Docker makes at most one container for a lease: reservation, boundary   *)
(* and restart never let a creation be sent twice.  And there is no        *)
(* container the ledger does not know of: the lease is durable before      *)
(* docker create and never forgotten.                                      *)
CreatedOnce ==
  /\ creations <= 1
  /\ container # "absent" => lease # "absent" /\ creator # None

(* A closed lease that names a container has none left: removal and proof  *)
(* come before "closed" on every path, of the broker and of the restart.   *)
ClosedMeansRemoved == lease = "closed" /\ bound => container = "absent"

(* The three records of a settlement agree while the service is up: the    *)
(* use of a creation or a close is spent exactly with the execution, a     *)
(* completed creation left a named container, a completed close a closed   *)
(* lease.                                                                  *)
SettlementsAgree ==
  /\ \A r \in Request : tool[r] = "completed" =>
       /\ Op[r] = "create" => creator = r /\ bound
       /\ Op[r] = "close" => lease = "closed"
  /\ mode = "up" => \A r \in Request : Op[r] # "exec" =>
       /\ use[r] = "open" => tool[r] \notin {"completed", "indeterminate"}
       /\ use[r] \in {"succeeded", "failed", "indeterminate"} =>
            StateFor(use[r]) = tool[r]

(* A command of unknown end keeps others out.  While the lease stands for  *)
(* one, over any restart, and until the first restart also after a failed  *)
(* close has put its own reason there, no other command is resumed or      *)
(* passes the check of the lease in its preflight; and only a close takes  *)
(* that reason away.  A command that is past this check does not read the  *)
(* lease again, and may still join it (UnknownEndAlone).                   *)
KeepsOut ==
  \/ reason = "exec_termination_unknown"
  \/ crashes = 0 /\ \E q \in commands : tool[q] = "indeterminate"

Underway == {"reserve", "lease", "admit", "dispatch", "exec", "command"}

NobodyEnters ==
  \A r \in Request : Op[r] = "exec" /\ pc'[r] \in Underway => pc[r] \in Underway

UnknownEndKeepsOut ==
  [][/\ KeepsOut => NobodyEnters
     /\ reason = "exec_termination_unknown" /\ reason' # reason => lease = "closing"]_vars

(* Promised by the design and not kept, see the findings.  A closed lease   *)
(* has no container; a lease is not taken back beside a command that may   *)
(* still run; a time-out takes the lease out of use; a command is never    *)
(* joined by one that passed its preflight before; a lease the reconciler  *)
(* reports as quarantined is; a request that failed holds no use.          *)
ClosedMeansAbsent == lease = "closed" => container = "absent"

UnknownEndStays ==
  [][lease = "indeterminate" /\ lease' = "running" =>
       \A r \in commands : tool[r] # "indeterminate"]_vars

UnknownEndBlocks ==
  mode = "up" /\ lease = "running" =>
    commands \subseteq {r \in Request : pc[r] = "settle"}

UnknownEndAlone ==
  [][\A r \in Request : pc[r] = "exec" /\ pc'[r] = "command" =>
       \A q \in commands : tool[q] # "indeterminate"]_vars

ReportIsTrue == mode = "tools" /\ report # "none" => lease = report

FailedReleases == \A r \in Request : tool[r] = "failed" => use[r] # "open"
=============================================================================
