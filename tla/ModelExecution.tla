--------------------------- MODULE ModelExecution ---------------------------
(***************************************************************************)
(* One approved execution of a model: run_approved_hermes_inspection of    *)
(* desktop/m1_command_service.py, _execute_approved_hermes and the         *)
(* recovery at start of desktop/capt_runtime_service.py, the admission and *)
(* boundary calls of capt_runtime/services.py, the DriverRun aggregate and *)
(* the request path of capt_runtime/drivers/provider.py.                   *)
(*                                                                         *)
(* The approval names one run and one task; commands with keys of their    *)
(* own, each sent any number of times, compete for it.  A service call is  *)
(* one step (StoreImplementsAtomicLedger, EventStore_proofs), the calls of *)
(* one execution are separate steps: the service can die, and the operator *)
(* can intervene, between any two of them.                                 *)
(***************************************************************************)
EXTENDS Naturals, FiniteSets

CONSTANTS
  Worker,       \* threads of the service
  Command,      \* operator commands, each with its idempotency key
  Limit,        \* providerHttpRequestLimit of the approval
  None,
  MaxCrashes    \* bound on crashes of the service

ASSUME ExecutionAssumption ==
  /\ Limit \in 1..24 /\ MaxCrashes \in Nat /\ None \notin Command

VARIABLES
  approval,    \* state of the HumanApproval
  expired,     \* has the clock passed its expiry?
  run,         \* state of the DriverRun, or "absent"
  boundary,    \* its dispatchBoundary
  attempts,    \* its providerHttpRequestAttempts
  task,        \* state of the Task, or "absent"
  tools,       \* the grant the model's tool calls run under
  use,         \* the one reservation of the dispatch grant, or its outcome
  claim,       \* kind of the proposed claim
  receipt,     \* receipt[c]: what the idempotency key of c is bound to
  dispatches,  \* calls of host.dispatch
  sent,        \* requests that left for the provider
  pc, cmd,     \* each worker's place in the execution, and its command
  mode,        \* "up", or the place of the recovery at start
  crashes

ledger == <<approval, run, boundary, attempts, task, tools, use, claim, receipt>>
outside == <<dispatches, sent, expired>>
threads == <<pc, cmd>>
service == <<mode, crashes>>
vars == <<ledger, outside, threads, service>>

(* aggregates/claim_driver.py, DRIVER_TRANSITIONS: the states a run leaves *)
(* for one that somebody still works on or has to reconcile.               *)
Live == {"created", "submitted", "running", "suspended"}
BoundaryOrder ==
  [not_dispatched |-> 0, prepared |-> 1, request_started |-> 2,
   response_started |-> 3, response_completed |-> 4, result_persisted |-> 5]

(* Boundaries that prove that nothing left.                                *)
Undispatched == {"not_dispatched", "prepared", "budget_rejected"}

Init ==
  /\ approval = "approved" /\ expired = FALSE
  /\ run = "absent" /\ boundary = "not_dispatched" /\ attempts = 0
  /\ task = "absent" /\ tools = "none" /\ use = "none" /\ claim = "none"
  /\ receipt = [c \in Command |-> "none"]
  /\ dispatches = 0 /\ sent = 0
  /\ pc = [w \in Worker |-> "idle"] /\ cmd = [w \in Worker |-> None]
  /\ mode = "up" /\ crashes = 0
-----------------------------------------------------------------------------
Goto(w, label) == pc' = [pc EXCEPT ![w] = label] /\ UNCHANGED cmd

Return(w) ==
  /\ pc' = [pc EXCEPT ![w] = "idle"]
  /\ cmd' = [cmd EXCEPT ![w] = None]

At(w, label) == mode = "up" /\ pc[w] = label /\ UNCHANGED service

(* The command arrives.  A key that is bound already is answered with what *)
(* it is bound to, before anything is prepared.                            *)
Submit(w, c) ==
  /\ At(w, "idle")
  /\ receipt[c] = "none"
  /\ pc' = [pc EXCEPT ![w] = "admit"]
  /\ cmd' = [cmd EXCEPT ![w] = c]
  /\ UNCHANGED <<ledger, outside>>

(* What admission asks of the approval and the run under the store lock.   *)
Admissible == approval = "approved" /\ ~expired /\ run = "absent"

(* admit_approved_model_execution: consumption of the approval, the run    *)
(* and the key in one commit.  The key bound meanwhile is answered.        *)
Admit(w) ==
  /\ At(w, "admit")
  /\ \/ receipt[cmd[w]] # "none" /\ Return(w) /\ UNCHANGED ledger
     \/ /\ receipt[cmd[w]] = "none"
        /\ Admissible
        /\ approval' = "consumed"
        /\ run' = "created"
        /\ receipt' = [receipt EXCEPT ![cmd[w]] = "admitted"]
        /\ Goto(w, "load")
        /\ UNCHANGED <<boundary, attempts, task, tools, use, claim>>
  /\ UNCHANGED outside

(* The run was committed by this very call: another state than created is  *)
(* the operator's cancellation, and is answered without a dispatch.        *)
LoadRun(w) ==
  /\ At(w, "load")
  /\ \/ run = "created" /\ Goto(w, "plan") /\ UNCHANGED receipt
     \/ /\ run # "created"
        /\ receipt' = [receipt EXCEPT ![cmd[w]] = "not_repeated"]
        /\ Return(w)
  /\ UNCHANGED <<approval, run, boundary, attempts, task, tools, use, claim, outside>>

(* create_mission_with_approval or plan_task_for_existing_mission.         *)
PlanTask(w) ==
  /\ At(w, "plan") /\ task = "absent"
  /\ task' = "pending" /\ Goto(w, "ready")
  /\ UNCHANGED <<approval, run, boundary, attempts, tools, use, claim, receipt, outside>>

(* transition_task of the execution: legal only from the state before.     *)
MoveTask(w, label, from, to, next) ==
  /\ At(w, label) /\ task = from
  /\ task' = to /\ Goto(w, next)
  /\ UNCHANGED <<approval, run, boundary, attempts, tools, use, claim, receipt, outside>>

StartTask(w) ==
  \/ MoveTask(w, "ready", "pending", "ready", "assigned")
  \/ MoveTask(w, "assigned", "ready", "assigned", "running")
  \/ MoveTask(w, "running", "assigned", "running", "tools")

(* Policy decision, grant and lease of the dispatch, and the separate grant *)
(* of the model's tools, if it gets any.                                   *)
IssueTools(w) ==
  /\ At(w, "tools")
  /\ tools' \in {"none", "active"}
  /\ Goto(w, "submitted")
  /\ UNCHANGED <<approval, run, boundary, attempts, task, use, claim, receipt, outside>>

MoveRun(w, label, from, to, next) ==
  /\ At(w, label) /\ run = from
  /\ run' = to /\ Goto(w, next)
  /\ UNCHANGED <<approval, boundary, attempts, task, tools, use, claim, receipt, outside>>

StartRun(w) ==
  \/ MoveRun(w, "submitted", "created", "submitted", "started")
  \/ MoveRun(w, "started", "submitted", "running", "reserve")

(* The baseline of the worktree, then the use of the one-use grant.        *)
ReserveUse(w) ==
  /\ At(w, "reserve")
  /\ use' = "open" /\ Goto(w, "dispatch")
  /\ UNCHANGED <<approval, run, boundary, attempts, task, tools, claim, receipt, outside>>
-----------------------------------------------------------------------------
(* DriverRunAggregate.record_dispatch_boundary.  The run's state is not    *)
(* looked at.                                                              *)
CanRecord(b) ==
  IF b = boundary THEN b # "request_started"
  ELSE IF b = "budget_rejected" THEN boundary \in {"not_dispatched", "prepared"}
  ELSE /\ boundary # "budget_rejected"
       /\ \/ BoundaryOrder[b] > BoundaryOrder[boundary]
          \/ b = "request_started" /\ boundary = "response_completed"
       /\ b = "request_started" => attempts < Limit

Record(b) ==
  /\ CanRecord(b)
  /\ boundary' = b
  /\ attempts' = attempts + (IF b = "request_started" THEN 1 ELSE 0)
  /\ UNCHANGED <<approval, run, task, tools, use, claim, receipt>>

RecordAt(w, label, b, next) ==
  At(w, label) /\ Record(b) /\ Goto(w, next) /\ UNCHANGED outside

(* ProviderDriver._execute: the budget is checked before anything leaves.  *)
Dispatch(w) ==
  /\ At(w, "dispatch")
  /\ dispatches' = dispatches + 1
  /\ \/ Goto(w, "request") /\ UNCHANGED <<boundary, attempts>>
     \/ boundary' = "budget_rejected" /\ CanRecord("budget_rejected")
        /\ UNCHANGED attempts /\ Goto(w, "abort")
  /\ UNCHANGED <<approval, run, task, tools, use, claim, receipt, sent, expired>>

\* Mutant: one idempotency key per boundary name answers the second record.
RecordRequest_OneKey(w) ==
  \/ attempts = 0 /\ RecordAt(w, "request", "request_started", "send")
  \/ /\ attempts > 0 /\ At(w, "request") /\ Goto(w, "send")
     /\ UNCHANGED <<ledger, outside>>

(* _post_json: the boundary is durable before the request leaves.          *)
RecordRequest(w) == RecordAt(w, "request", "request_started", "send")

Send(w) ==
  /\ At(w, "send")
  /\ sent' = sent + 1 /\ Goto(w, "headers")
  /\ UNCHANGED <<ledger, dispatches, expired>>

(* After a completed response a tool round asks again.                     *)
Receive(w) ==
  \/ RecordAt(w, "headers", "response_started", "body")
  \/ RecordAt(w, "body", "response_completed", "request")
  \/ RecordAt(w, "body", "response_completed", "persist")
  \/ RecordAt(w, "persist", "result_persisted", "close")

InDriver == {"dispatch", "request", "send", "headers", "body", "persist"}

(* The finally clause: the model's tools are revoked however dispatch ends. *)
CloseTools(w) ==
  /\ pc[w] \in {"close", "abort"} /\ At(w, pc[w])
  /\ tools' = IF tools = "active" THEN "revoked" ELSE tools
  /\ Goto(w, IF pc[w] = "close" THEN "complete" ELSE "unknown")
  /\ UNCHANGED <<approval, run, boundary, attempts, task, use, claim, receipt, outside>>
-----------------------------------------------------------------------------
SettleUse(w, label, outcome, next) ==
  /\ At(w, label) /\ use = "open"
  /\ use' = outcome /\ Goto(w, next)
  /\ UNCHANGED <<approval, run, boundary, attempts, task, tools, claim, receipt, outside>>

\* Mutant: the run is given up before its use is settled.
Abandon_RunFirst(w) ==
  \/ MoveRun(w, "unknown", "running", "lost", "lose")
  \/ SettleUse(w, "lose", "indeterminate", "suspend")
  \/ MoveTask(w, "suspend", "running", "suspended", "raise")

(* Dispatch raised: the outcome is unknown, the use is spent, the run lost *)
(* and the task suspended; then the exception is raised again.             *)
Abandon(w) ==
  \/ SettleUse(w, "unknown", "indeterminate", "lose")
  \/ MoveRun(w, "lose", "running", "lost", "suspend")
  \/ MoveTask(w, "suspend", "running", "suspended", "raise")

(* propose_claim_with_evidence: an observation when an output gate failed. *)
ProposeClaim(w) ==
  /\ At(w, "claim")
  /\ claim' \in {"observation", "completion"}
  /\ Goto(w, IF claim' = "completion" THEN "await" ELSE "reject")
  /\ UNCHANGED <<approval, run, boundary, attempts, task, tools, use, receipt, outside>>

\* Mutant: the claim is proposed before the use is settled.
Complete_Unspent(w) ==
  \/ MoveRun(w, "complete", "running", "completed", "claim")
  \/ ProposeClaim(w)
  \/ MoveTask(w, "await", "running", "awaiting_verification", "receipt")
  \/ MoveTask(w, "reject", "running", "failed", "receipt")

Complete(w) ==
  \/ MoveRun(w, "complete", "running", "completed", "spend")
  \/ SettleUse(w, "spend", "succeeded", "claim")
  \/ ProposeClaim(w)
  \/ MoveTask(w, "await", "running", "awaiting_verification", "receipt")
  \/ MoveTask(w, "reject", "running", "failed", "receipt")

(* complete_claimed_command, once in the execution and once in execute().  *)
WriteReceipt(w) ==
  /\ At(w, "receipt")
  /\ receipt' = [receipt EXCEPT ![cmd[w]] = "done"]
  /\ Return(w)
  /\ UNCHANGED <<approval, run, boundary, attempts, task, tools, use, claim, outside>>

\* Mutant: a driver that raised is entered again.
Raise_Retried(w) ==
  /\ pc[w] # "idle" /\ At(w, pc[w])
  /\ \/ pc[w] \in InDriver /\ Goto(w, "dispatch")
     \/ pc[w] \in {"close", "abort"} /\ Goto(w, "unknown")
     \/ pc[w] \notin InDriver \cup {"close", "abort"} /\ Return(w)
  /\ UNCHANGED <<ledger, outside>>

(* Any call may raise (a conflict with the operator, a lapsed grant, the   *)
(* provider, the disk).  Only what the driver and the closing of its tools *)
(* raise is caught.                                                        *)
Raise(w) ==
  /\ pc[w] # "idle" /\ At(w, pc[w])
  /\ \/ pc[w] \in InDriver /\ Goto(w, "abort")
     \/ pc[w] \in {"close", "abort"} /\ Goto(w, "unknown")
     \/ pc[w] \notin InDriver \cup {"close", "abort"} /\ Return(w)
  /\ UNCHANGED <<ledger, outside>>
-----------------------------------------------------------------------------
(* cancel_driver_run and cancel_task: nobody tells the driver.             *)
CancelRun ==
  /\ mode = "up" /\ run \in Live
  /\ run' = "cancelled"
  /\ UNCHANGED <<approval, boundary, attempts, task, tools, use, claim, receipt>>
  /\ UNCHANGED <<outside, threads, service>>

CancelTask ==
  /\ mode = "up"
  /\ task \in {"pending", "ready", "assigned", "running", "suspended",
               "awaiting_verification"}
  /\ task' = "cancelled"
  /\ UNCHANGED <<approval, run, boundary, attempts, tools, use, claim, receipt>>
  /\ UNCHANGED <<outside, threads, service>>

RevokeApproval ==
  /\ mode = "up" /\ approval = "approved"
  /\ approval' = "revoked"
  /\ UNCHANGED <<run, boundary, attempts, task, tools, use, claim, receipt>>
  /\ UNCHANGED <<outside, threads, service>>

Expire ==
  /\ ~expired /\ expired' = TRUE
  /\ UNCHANGED <<ledger, dispatches, sent, threads, service>>
-----------------------------------------------------------------------------
(* The service dies at any step, recovery included, and starts again.      *)
Crash ==
  /\ crashes < MaxCrashes /\ crashes' = crashes + 1
  /\ mode' = "load"
  /\ pc' = [w \in Worker |-> "idle"]
  /\ cmd' = [w \in Worker |-> None]
  /\ UNCHANGED <<ledger, outside>>

Booting(label, next) == mode = label /\ mode' = next /\ UNCHANGED <<crashes, threads, outside>>

\* States a run is visited in at start.
Visited == Live \cup {"completed"}

\* Mutant: a run that was submitted but not running is left alone.
BootLoad_RunningOnly ==
  \/ /\ run = "created" /\ boundary \in Undispatched
     /\ Booting("load", "fail task") /\ run' = "failed"
     /\ UNCHANGED <<approval, boundary, attempts, task, tools, use, claim, receipt>>
  \/ /\ run \in Visited \ {"created", "submitted"}
     /\ Booting("load", "settle use") /\ UNCHANGED ledger
  \/ /\ run \notin Visited \/ run = "submitted" \/ (run = "created" /\ boundary \notin Undispatched)
     /\ Booting("load", "up") /\ UNCHANGED ledger

(* _reconcile_stranded_driver_runs: a run that was never submitted has     *)
(* failed, unless its boundary says otherwise; of every other one the      *)
(* outcome is unknown.                                                     *)
BootLoad ==
  \/ /\ run = "created" /\ boundary \in Undispatched
     /\ Booting("load", "fail task") /\ run' = "failed"
     /\ UNCHANGED <<approval, boundary, attempts, task, tools, use, claim, receipt>>
  \/ /\ run \in Visited \ {"created"}
     /\ Booting("load", "settle use") /\ UNCHANGED ledger
  \/ /\ run \notin Visited \/ (run = "created" /\ boundary \notin Undispatched)
     /\ Booting("load", "up") /\ UNCHANGED ledger

BootSettleUse ==
  /\ Booting("settle use", "settle run")
  /\ use' = IF use = "open" THEN "indeterminate" ELSE use
  /\ UNCHANGED <<approval, run, boundary, attempts, task, tools, claim, receipt>>

\* Mutant: a run that was running when the service died has failed.
BootSettleRun_Failed ==
  /\ Booting("settle run", "suspend task")
  /\ run' = IF run \in {"submitted", "running"} THEN "failed" ELSE run
  /\ UNCHANGED <<approval, boundary, attempts, task, tools, use, claim, receipt>>

BootSettleRun ==
  /\ Booting("settle run", "suspend task")
  /\ run' = IF run \in {"submitted", "running"} THEN "lost" ELSE run
  /\ UNCHANGED <<approval, boundary, attempts, task, tools, use, claim, receipt>>

BootSettleTask ==
  /\ \/ /\ Booting("suspend task", "up")
        /\ task' = IF task = "running" THEN "suspended" ELSE task
     \/ /\ Booting("fail task", "up")
        /\ task' = IF task \in {"assigned", "running"} THEN "failed" ELSE task
  /\ UNCHANGED <<approval, run, boundary, attempts, tools, use, claim, receipt>>

Boot == BootLoad \/ BootSettleUse \/ BootSettleRun \/ BootSettleTask
-----------------------------------------------------------------------------
Execute(w) ==
  \/ Admit(w) \/ LoadRun(w) \/ PlanTask(w) \/ StartTask(w) \/ IssueTools(w)
  \/ StartRun(w) \/ ReserveUse(w) \/ Dispatch(w) \/ RecordRequest(w) \/ Send(w)
  \/ Receive(w) \/ CloseTools(w) \/ Abandon(w) \/ Complete(w) \/ WriteReceipt(w)
  \/ Raise(w)

Operator == CancelRun \/ CancelTask \/ RevokeApproval \/ Expire

Next ==
  \/ \E w \in Worker, c \in Command : Submit(w, c)
  \/ \E w \in Worker : Execute(w)
  \/ Operator \/ Crash \/ Boot

Spec == Init /\ [][Next]_vars

(* A thread that is in a call goes on: every request carries a deadline.   *)
(* serve() runs recovery to its end before it listens.                     *)
FairSpec == Spec /\ (\A w \in Worker : WF_vars(Execute(w))) /\ WF_vars(Boot)
-----------------------------------------------------------------------------
Label == {"idle", "admit", "load", "plan", "ready", "assigned", "running", "tools",
          "submitted", "started", "reserve", "close", "abort", "unknown", "lose",
          "suspend", "raise", "complete", "spend", "claim", "await", "reject",
          "receipt"} \cup InDriver

(* Types; and the process-local state that belongs together: a thread has  *)
(* a command exactly while it is in a call, and none while recovery runs.  *)
ExecTypeOK ==
  /\ approval \in {"approved", "consumed", "revoked"} /\ expired \in BOOLEAN
  /\ run \in Live \cup {"absent", "completed", "failed", "lost", "cancelled"}
  /\ boundary \in DOMAIN BoundaryOrder \cup {"budget_rejected"}
  /\ attempts \in Nat /\ dispatches \in Nat /\ sent \in Nat /\ crashes \in Nat
  /\ task \in {"absent", "pending", "ready", "assigned", "running", "suspended",
               "awaiting_verification", "failed", "cancelled"}
  /\ tools \in {"none", "active", "revoked"}
  /\ use \in {"none", "open", "succeeded", "indeterminate"}
  /\ claim \in {"none", "observation", "completion"}
  /\ receipt \in [Command -> {"none", "admitted", "not_repeated", "done"}]
  /\ pc \in [Worker -> Label]
  /\ cmd \in [Worker -> Command \cup {None}]
  /\ mode \in {"up", "load", "settle use", "settle run", "suspend task", "fail task"}
  /\ \A w \in Worker : (cmd[w] = None) <=> (pc[w] = "idle")
  /\ mode # "up" => \A w \in Worker : pc[w] = "idle"

(* One approval buys one dispatch: whatever commands compete for it, are   *)
(* sent again, crash or are recovered, the driver is entered at most once. *)
DispatchedOnce == dispatches <= 1

(* The durable count never understates what left for the provider, and     *)
(* stays within what the human approved (_post_json, "recorded BEFORE").   *)
RequestsRecorded ==
  /\ sent <= attempts /\ attempts <= Limit
  /\ sent > 0 => boundary \notin Undispatched

(* A run is called failed only if nothing was dispatched: when the outcome *)
(* is unknown it is lost, never failed.                                    *)
FailedMeansUndispatched == run = "failed" => dispatches = 0 /\ sent = 0

(* An open use always belongs to a run that recovery visits, so that no    *)
(* crash leaves it open for ever.  A run the operator cancelled under a    *)
(* working driver is the exception: nothing closes its use.                *)
OpenUseFindable == use = "open" => run \in {"running", "completed", "cancelled"}

(* "model tool authority closes before any normal completion can be        *)
(* recorded" (_execute_approved_hermes).                                   *)
ToolsClosed == run = "completed" => tools # "active"

(* What downstream readers take a result from: a task awaiting             *)
(* verification has a completion claim, a claim a completed run whose use  *)
(* is spent, and a finished receipt a claim and a settled task; and the    *)
(* tools of a completed run are closed.                                    *)
ResultSupported ==
  /\ ToolsClosed
  /\ task = "awaiting_verification" => claim = "completion"
  /\ claim # "none" => run = "completed" /\ use = "succeeded"
  /\ \A c \in Command : receipt[c] = "done" => claim # "none" /\ task # "running"

(* Every start settles the run it finds, however often recovery is killed. *)
Recovered == mode # "up" ~> mode = "up" /\ run \notin {"created", "submitted", "running"}

(* When no thread and no recovery is at work, a task that is running has a *)
(* run the next start will visit.                                          *)
TaskNotStranded ==
  (mode = "up" /\ task = "running" /\ \A w \in Worker : pc[w] = "idle")
    => run \in Visited \cup {"cancelled"}
=============================================================================
