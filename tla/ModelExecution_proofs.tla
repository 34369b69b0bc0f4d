------------------------ MODULE ModelExecution_proofs ------------------------
(***************************************************************************)
(* Proofs about ModelExecution, for any number of threads and commands,    *)
(* any limit of provider requests and any number of crashes.               *)
(***************************************************************************)
EXTENDS ModelExecution, TLAPS

Active(w) == pc[w] \notin {"idle", "admit"}

(* Places before the reservation, with the reservation held, and after the *)
(* run has completed.                                                      *)
Planning == {"load", "plan", "ready", "assigned", "running", "tools", "submitted"}
Working == InDriver \cup {"reserve", "close", "abort", "unknown", "lose", "complete"}
Reporting == {"spend", "claim", "await", "reject", "receipt"}

(* Until the approval is consumed nothing has happened.                    *)
Fresh ==
  approval # "consumed" =>
    /\ run = "absent" /\ boundary = "not_dispatched" /\ attempts = 0
    /\ use = "none" /\ claim = "none" /\ dispatches = 0 /\ sent = 0
    /\ \A w \in Worker : ~Active(w)

(* One thread executes: the admission picks it.                            *)
OneExecutes == \A v, w \in Worker : Active(v) /\ Active(w) => v = w

(* The state of the run at each place of the execution ...                 *)
RunAt(w) ==
  /\ pc[w] \in Planning => run \in {"created", "cancelled"}
  /\ pc[w] = "started" => run \in {"submitted", "cancelled"}
  /\ pc[w] \in Working => run \in {"running", "cancelled"}
  /\ pc[w] \in {"suspend", "raise"} => run = "lost"
  /\ pc[w] \in Reporting => run = "completed"

(* ... and what it has dispatched, reserved and claimed.                   *)
DoneAt(w) ==
  /\ pc[w] \in Planning \cup {"started", "reserve"} =>
       boundary = "not_dispatched" /\ attempts = 0 /\ use = "none"
  /\ pc[w] \in Planning \cup {"started", "reserve", "dispatch"} => dispatches = 0 /\ sent = 0
  /\ pc[w] = "send" => sent < attempts /\ boundary \notin Undispatched
  /\ pc[w] \in {"lose", "suspend", "raise"} => use # "open"
  /\ pc[w] \in Planning \cup {"started", "suspend", "raise", "spend", "claim"} \cup Working =>
       claim = "none"
  /\ pc[w] \in {"claim", "await", "reject", "receipt"} => use = "succeeded"
  /\ pc[w] = "await" => claim = "completion"
  /\ pc[w] \in {"reject", "receipt"} => claim # "none"
  /\ pc[w] = "receipt" => task # "running"
  /\ pc[w] = "complete" => tools # "active"

Phases == \A w \in Worker : RunAt(w) /\ DoneAt(w)

(* A run that was not yet started, or was called failed, sent nothing and  *)
(* holds no use; recovery closes the use before it gives the run up.       *)
Unstarted ==
  run \in {"absent", "created", "submitted", "failed"} =>
    dispatches = 0 /\ sent = 0 /\ use # "open"
UseClosedFirst == mode = "settle run" => use # "open"

Safe ==
  /\ DispatchedOnce /\ RequestsRecorded /\ OpenUseFindable
  /\ ResultSupported /\ ToolsClosed

IInv ==
  /\ ExecTypeOK /\ Fresh /\ OneExecutes /\ Phases /\ Unstarted /\ UseClosedFirst /\ Safe
-----------------------------------------------------------------------------
(* The initial state satisfies the invariant. *)
LEMMA InitIInv == Init => IInv
<1> SUFFICES ASSUME Init PROVE IInv
  OBVIOUS
<1> USE ExecutionAssumption DEF Init
<1>1. ExecTypeOK
  BY DEF ExecTypeOK, Live, BoundaryOrder, Label
<1>2. Fresh /\ OneExecutes /\ Phases
  BY DEF Fresh, OneExecutes, Phases, RunAt, DoneAt, Active, Planning, Working, Reporting, InDriver
<1>3. Unstarted /\ UseClosedFirst
  BY DEF Unstarted, UseClosedFirst
<1>4. Safe
  BY DEF Safe, DispatchedOnce, RequestsRecorded, OpenUseFindable, ResultSupported, ToolsClosed
<1> QED
  BY <1>1, <1>2, <1>3, <1>4 DEF IInv

(* What is known of the thread that executes. *)
LEMMA Executing ==
  ASSUME IInv, NEW w \in Worker, Active(w)
  PROVE  /\ approval = "consumed" /\ RunAt(w) /\ DoneAt(w)
         /\ \A v \in Worker : Active(v) => v = w
         /\ cmd[w] \in Command /\ cmd[w] # None
<1>1. approval = "consumed" /\ RunAt(w) /\ DoneAt(w) /\ \A v \in Worker : Active(v) => v = w
  BY DEF IInv, Fresh, OneExecutes, Phases
<1>2. cmd[w] \in Command /\ cmd[w] # None
  BY DEF IInv, ExecTypeOK, Active
<1> QED
  BY <1>1, <1>2

(* A step of that thread keeps the invariant if it keeps the types, its    *)
(* own place and what is said of the whole.                                *)
LEMMA ExecutionStep ==
  ASSUME IInv, NEW w \in Worker, Active(w),
         \A v \in Worker : v # w => pc'[v] = pc[v],
         approval' = approval, mode' = "up",
         ExecTypeOK', RunAt(w)', DoneAt(w)', Unstarted', Safe'
  PROVE  IInv'
<1>1. Fresh'
  BY Executing DEF Fresh
<1>2. \A v \in Worker : v # w => ~Active(v)
  BY Executing
<1>3. OneExecutes'
  BY <1>2 DEF OneExecutes, Active
<1>4. Phases'
  <2> SUFFICES ASSUME NEW v \in Worker PROVE RunAt(v)' /\ DoneAt(v)'
    BY DEF Phases
  <2>1. CASE v = w
    BY <2>1
  <2>2. CASE v # w
    <3>1. pc'[v] \in {"idle", "admit"}
      BY <1>2, <2>2 DEF Active
    <3> QED
      BY <3>1 DEF RunAt, DoneAt, Planning, Working, Reporting, InDriver
  <2> QED
    BY <2>1, <2>2
<1>5. UseClosedFirst'
  BY DEF UseClosedFirst
<1> QED
  BY <1>1, <1>3, <1>4, <1>5 DEF IInv

(* A thread that is outside of the execution, or leaves it, is quiet.      *)
LEMMA OutsideStep ==
  ASSUME IInv, NEW w \in Worker, pc'[w] \in {"idle", "admit"},
         \A v \in Worker : v # w => pc'[v] = pc[v],
         UNCHANGED <<ledger, outside, mode>>, ExecTypeOK'
  PROVE  IInv'
<1> USE DEF ledger, outside
<1>1. \A v \in Worker : /\ Active(v)' => Active(v) /\ pc'[v] = pc[v]
                        /\ ~Active(v)' => pc'[v] \in {"idle", "admit"}
  BY DEF Active
<1>2. Fresh' /\ OneExecutes'
  BY <1>1 DEF IInv, Fresh, OneExecutes
<1>3. Phases'
  <2> SUFFICES ASSUME NEW v \in Worker PROVE RunAt(v)' /\ DoneAt(v)'
    BY DEF Phases
  <2>1. CASE Active(v)'
    <3>1. RunAt(v) /\ DoneAt(v) /\ pc'[v] = pc[v]
      BY <1>1, <2>1 DEF IInv, Phases
    <3> QED
      BY <3>1 DEF RunAt, DoneAt
  <2>2. CASE ~Active(v)'
    BY <1>1, <2>2 DEF RunAt, DoneAt, Planning, Working, Reporting, InDriver
  <2> QED
    BY <2>1, <2>2
<1>4. Unstarted' /\ UseClosedFirst'
  BY DEF IInv, Unstarted, UseClosedFirst
<1>5. Safe'
  BY DEF IInv, Safe, DispatchedOnce, RequestsRecorded, OpenUseFindable, ResultSupported,
         ToolsClosed
<1> QED
  BY <1>2, <1>3, <1>4, <1>5 DEF IInv

LEMMA Boundaries ==
  /\ DOMAIN BoundaryOrder = {"not_dispatched", "prepared", "request_started",
                             "response_started", "response_completed", "result_persisted"}
  /\ Undispatched = {"not_dispatched", "prepared", "budget_rejected"}
  BY DEF BoundaryOrder, Undispatched

(* The boundaries of a response count no request. *)
LEMMA ResponseRecorded ==
  ASSUME IInv, NEW w \in Worker, NEW label, NEW next,
         NEW b \in {"response_started", "response_completed", "result_persisted"},
         RecordAt(w, label, b, next)
  PROVE  /\ mode = "up" /\ pc[w] = label /\ pc' = [pc EXCEPT ![w] = next]
         /\ boundary' = b
         /\ UNCHANGED <<approval, run, attempts, task, tools, use, claim, receipt, dispatches,
                        sent, expired, cmd, mode, crashes>>
<1>1. /\ mode = "up" /\ pc[w] = label /\ pc' = [pc EXCEPT ![w] = next]
      /\ boundary' = b /\ attempts' = attempts + (IF b = "request_started" THEN 1 ELSE 0)
      /\ UNCHANGED <<approval, run, task, tools, use, claim, receipt, dispatches,
                     sent, expired, cmd, mode, crashes>>
  BY DEF RecordAt, Record, At, Goto, outside, service
<1>2. b # "request_started" /\ attempts \in Nat
  BY DEF IInv, ExecTypeOK
<1> QED
  BY <1>1, <1>2

(* A run cancelled before it is loaded is not executed. *)
LEMMA LoadRunStep ==
  ASSUME IInv, NEW w \in Worker, LoadRun(w)
  PROVE  IInv'
<1>1. ASSUME run = "created" PROVE IInv'
  <2>1. /\ mode = "up" /\ pc[w] = "load" /\ pc' = [pc EXCEPT ![w] = "plan"]
        /\ UNCHANGED <<approval, run, boundary, attempts, task, tools, use, claim, receipt, dispatches, sent, expired, cmd, mode, crashes>>
    BY <1>1 DEF LoadRun, At, Goto, Return, ledger, outside, service
  <2>2. /\ pc'[w] = "plan" /\ \A v \in Worker : v # w => pc'[v] = pc[v]
    BY <2>1 DEF IInv, ExecTypeOK
  <2>3. Active(w)
    BY <2>1 DEF Active
  <2>4. /\ run \in {"created", "cancelled"} /\ claim = "none" /\ use = "none"
        /\ boundary = "not_dispatched" /\ attempts = 0 /\ dispatches = 0 /\ sent = 0
    BY <2>1, <2>3, Executing DEF RunAt, DoneAt, Planning, Working, Reporting, InDriver
  <2>5. ExecTypeOK'
    BY <2>1, <2>2, <2>3, <2>4 DEF IInv, ExecTypeOK, Label, InDriver
  <2>6. RunAt(w)' /\ DoneAt(w)'
    BY <2>1, <2>2, <2>3, <2>4 DEF RunAt, DoneAt, Planning, Working, Reporting, InDriver
  <2>7. Unstarted'
    BY <2>1, <2>2, <2>3, <2>4 DEF IInv, Unstarted
  <2>8. Safe'
    BY <2>1, <2>2, <2>3, <2>4 DEF IInv, Safe, DispatchedOnce, RequestsRecorded, OpenUseFindable, ResultSupported, ToolsClosed
  <2> QED
    BY <2>1, <2>2, <2>3, <2>5, <2>6, <2>7, <2>8, ExecutionStep
<1>2. ASSUME run # "created" PROVE IInv'
  <2>1. /\ mode = "up" /\ pc[w] = "load" /\ pc' = [pc EXCEPT ![w] = "idle"]
        /\ receipt' = [receipt EXCEPT ![cmd[w]] = "not_repeated"]
        /\ cmd' = [cmd EXCEPT ![w] = None]
        /\ UNCHANGED <<approval, run, boundary, attempts, task, tools, use, claim, dispatches, sent, expired, mode, crashes>>
    BY <1>2 DEF LoadRun, At, Goto, Return, ledger, outside, service
  <2>2. /\ pc'[w] = "idle" /\ \A v \in Worker : v # w => pc'[v] = pc[v]
        /\ cmd'[w] = None /\ \A v \in Worker : v # w => cmd'[v] = cmd[v]
    BY <2>1 DEF IInv, ExecTypeOK
  <2>3. Active(w)
    BY <2>1 DEF Active
  <2>4. /\ run \in {"created", "cancelled"} /\ claim = "none" /\ use = "none"
        /\ boundary = "not_dispatched" /\ attempts = 0 /\ dispatches = 0 /\ sent = 0
        /\ cmd[w] \in Command
        /\ \A c \in Command : receipt'[c] = "done" => receipt[c] = "done"
    BY <2>1, <2>3, Executing DEF RunAt, DoneAt, Planning, Working, Reporting, InDriver
  <2>5. ExecTypeOK'
    BY <2>1, <2>2, <2>3, <2>4 DEF IInv, ExecTypeOK, Label, InDriver
  <2>6. RunAt(w)' /\ DoneAt(w)'
    BY <2>1, <2>2, <2>3, <2>4 DEF RunAt, DoneAt, Planning, Working, Reporting, InDriver
  <2>7. Unstarted'
    BY <2>1, <2>2, <2>3, <2>4 DEF IInv, Unstarted
  <2>8. Safe'
    BY <2>1, <2>2, <2>3, <2>4 DEF IInv, Safe, DispatchedOnce, RequestsRecorded, OpenUseFindable, ResultSupported, ToolsClosed
  <2> QED
    BY <2>1, <2>2, <2>3, <2>5, <2>6, <2>7, <2>8, ExecutionStep
<1> QED
  BY <1>1, <1>2 DEF LoadRun, At, Goto, Return, ledger, outside, service

(* The task is planned. *)
LEMMA PlanTaskStep ==
  ASSUME IInv, NEW w \in Worker, PlanTask(w)
  PROVE  IInv'
<1>1. /\ mode = "up" /\ pc[w] = "plan" /\ pc' = [pc EXCEPT ![w] = "ready"]
      /\ task = "absent"
      /\ task' = "pending"
      /\ UNCHANGED <<approval, run, boundary, attempts, tools, use, claim, receipt, dispatches, sent, expired, cmd, mode, crashes>>
  BY DEF PlanTask, At, Goto, Return, ledger, outside, service
<1>2. /\ pc'[w] = "ready" /\ \A v \in Worker : v # w => pc'[v] = pc[v]
  BY <1>1 DEF IInv, ExecTypeOK
<1>3. Active(w)
  BY <1>1 DEF Active
<1>4. /\ run \in {"created", "cancelled"} /\ claim = "none" /\ use = "none"
      /\ boundary = "not_dispatched" /\ attempts = 0 /\ dispatches = 0 /\ sent = 0
  BY <1>1, <1>3, Executing DEF RunAt, DoneAt, Planning, Working, Reporting, InDriver
<1>5. ExecTypeOK'
  BY <1>1, <1>2, <1>3, <1>4 DEF IInv, ExecTypeOK, Label, InDriver
<1>6. RunAt(w)' /\ DoneAt(w)'
  BY <1>1, <1>2, <1>3, <1>4 DEF RunAt, DoneAt, Planning, Working, Reporting, InDriver
<1>7. Unstarted'
  BY <1>1, <1>2, <1>3, <1>4 DEF IInv, Unstarted
<1>8. Safe'
  BY <1>1, <1>2, <1>3, <1>4 DEF IInv, Safe, DispatchedOnce, RequestsRecorded, OpenUseFindable, ResultSupported, ToolsClosed
<1> QED
  BY <1>1, <1>2, <1>3, <1>5, <1>6, <1>7, <1>8, ExecutionStep

(* No receipt is finished when a task starts, for nothing is claimed. *)
LEMMA StartTaskStep ==
  ASSUME IInv, NEW w \in Worker, StartTask(w)
  PROVE  IInv'
<1>1. ASSUME pc[w] = "ready" PROVE IInv'
  <2>1. /\ mode = "up" /\ pc[w] = "ready" /\ pc' = [pc EXCEPT ![w] = "assigned"]
        /\ task = "pending"
        /\ task' = "ready"
        /\ UNCHANGED <<approval, run, boundary, attempts, tools, use, claim, receipt, dispatches, sent, expired, cmd, mode, crashes>>
    BY <1>1 DEF StartTask, MoveTask, At, Goto, Return, ledger, outside, service
  <2>2. /\ pc'[w] = "assigned" /\ \A v \in Worker : v # w => pc'[v] = pc[v]
    BY <2>1 DEF IInv, ExecTypeOK
  <2>3. Active(w)
    BY <2>1 DEF Active
  <2>4. /\ run \in {"created", "cancelled"} /\ claim = "none" /\ use = "none"
        /\ boundary = "not_dispatched" /\ attempts = 0 /\ dispatches = 0 /\ sent = 0
    BY <2>1, <2>3, Executing DEF RunAt, DoneAt, Planning, Working, Reporting, InDriver
  <2>5. ExecTypeOK'
    BY <2>1, <2>2, <2>3, <2>4 DEF IInv, ExecTypeOK, Label, InDriver
  <2>6. RunAt(w)' /\ DoneAt(w)'
    BY <2>1, <2>2, <2>3, <2>4 DEF RunAt, DoneAt, Planning, Working, Reporting, InDriver
  <2>7. Unstarted'
    BY <2>1, <2>2, <2>3, <2>4 DEF IInv, Unstarted
  <2>8. Safe'
    BY <2>1, <2>2, <2>3, <2>4 DEF IInv, Safe, DispatchedOnce, RequestsRecorded, OpenUseFindable, ResultSupported, ToolsClosed
  <2> QED
    BY <2>1, <2>2, <2>3, <2>5, <2>6, <2>7, <2>8, ExecutionStep
<1>2. ASSUME pc[w] = "assigned" PROVE IInv'
  <2>1. /\ mode = "up" /\ pc[w] = "assigned" /\ pc' = [pc EXCEPT ![w] = "running"]
        /\ task = "ready"
        /\ task' = "assigned"
        /\ UNCHANGED <<approval, run, boundary, attempts, tools, use, claim, receipt, dispatches, sent, expired, cmd, mode, crashes>>
    BY <1>2 DEF StartTask, MoveTask, At, Goto, Return, ledger, outside, service
  <2>2. /\ pc'[w] = "running" /\ \A v \in Worker : v # w => pc'[v] = pc[v]
    BY <2>1 DEF IInv, ExecTypeOK
  <2>3. Active(w)
    BY <2>1 DEF Active
  <2>4. /\ run \in {"created", "cancelled"} /\ claim = "none" /\ use = "none"
        /\ boundary = "not_dispatched" /\ attempts = 0 /\ dispatches = 0 /\ sent = 0
    BY <2>1, <2>3, Executing DEF RunAt, DoneAt, Planning, Working, Reporting, InDriver
  <2>5. ExecTypeOK'
    BY <2>1, <2>2, <2>3, <2>4 DEF IInv, ExecTypeOK, Label, InDriver
  <2>6. RunAt(w)' /\ DoneAt(w)'
    BY <2>1, <2>2, <2>3, <2>4 DEF RunAt, DoneAt, Planning, Working, Reporting, InDriver
  <2>7. Unstarted'
    BY <2>1, <2>2, <2>3, <2>4 DEF IInv, Unstarted
  <2>8. Safe'
    BY <2>1, <2>2, <2>3, <2>4 DEF IInv, Safe, DispatchedOnce, RequestsRecorded, OpenUseFindable, ResultSupported, ToolsClosed
  <2> QED
    BY <2>1, <2>2, <2>3, <2>5, <2>6, <2>7, <2>8, ExecutionStep
<1>3. ASSUME pc[w] = "running" PROVE IInv'
  <2>1. /\ mode = "up" /\ pc[w] = "running" /\ pc' = [pc EXCEPT ![w] = "tools"]
        /\ task = "assigned"
        /\ task' = "running"
        /\ UNCHANGED <<approval, run, boundary, attempts, tools, use, claim, receipt, dispatches, sent, expired, cmd, mode, crashes>>
    BY <1>3 DEF StartTask, MoveTask, At, Goto, Return, ledger, outside, service
  <2>2. /\ pc'[w] = "tools" /\ \A v \in Worker : v # w => pc'[v] = pc[v]
    BY <2>1 DEF IInv, ExecTypeOK
  <2>3. Active(w)
    BY <2>1 DEF Active
  <2>4. /\ run \in {"created", "cancelled"} /\ claim = "none" /\ use = "none"
        /\ boundary = "not_dispatched" /\ attempts = 0 /\ dispatches = 0 /\ sent = 0
    BY <2>1, <2>3, Executing DEF RunAt, DoneAt, Planning, Working, Reporting, InDriver
  <2>5. ExecTypeOK'
    BY <2>1, <2>2, <2>3, <2>4 DEF IInv, ExecTypeOK, Label, InDriver
  <2>6. RunAt(w)' /\ DoneAt(w)'
    BY <2>1, <2>2, <2>3, <2>4 DEF RunAt, DoneAt, Planning, Working, Reporting, InDriver
  <2>7. Unstarted'
    BY <2>1, <2>2, <2>3, <2>4 DEF IInv, Unstarted
  <2>8. Safe'
    BY <2>1, <2>2, <2>3, <2>4 DEF IInv, Safe, DispatchedOnce, RequestsRecorded, OpenUseFindable, ResultSupported, ToolsClosed
  <2> QED
    BY <2>1, <2>2, <2>3, <2>5, <2>6, <2>7, <2>8, ExecutionStep
<1> QED
  BY <1>1, <1>2, <1>3 DEF StartTask, MoveTask, At, Goto, Return, ledger, outside, service

(* The run has not completed when its tools are granted. *)
LEMMA IssueToolsStep ==
  ASSUME IInv, NEW w \in Worker, IssueTools(w)
  PROVE  IInv'
<1>1. /\ mode = "up" /\ pc[w] = "tools" /\ pc' = [pc EXCEPT ![w] = "submitted"]
      /\ tools' \in {"none", "active"}
      /\ UNCHANGED <<approval, run, boundary, attempts, task, use, claim, receipt, dispatches, sent, expired, cmd, mode, crashes>>
  BY DEF IssueTools, At, Goto, Return, ledger, outside, service
<1>2. /\ pc'[w] = "submitted" /\ \A v \in Worker : v # w => pc'[v] = pc[v]
  BY <1>1 DEF IInv, ExecTypeOK
<1>3. Active(w)
  BY <1>1 DEF Active
<1>4. /\ run \in {"created", "cancelled"} /\ claim = "none" /\ use = "none"
      /\ boundary = "not_dispatched" /\ attempts = 0 /\ dispatches = 0 /\ sent = 0
  BY <1>1, <1>3, Executing DEF RunAt, DoneAt, Planning, Working, Reporting, InDriver
<1>5. ExecTypeOK'
  BY <1>1, <1>2, <1>3, <1>4 DEF IInv, ExecTypeOK, Label, InDriver
<1>6. RunAt(w)' /\ DoneAt(w)'
  BY <1>1, <1>2, <1>3, <1>4 DEF RunAt, DoneAt, Planning, Working, Reporting, InDriver
<1>7. Unstarted'
  BY <1>1, <1>2, <1>3, <1>4 DEF IInv, Unstarted
<1>8. Safe'
  BY <1>1, <1>2, <1>3, <1>4 DEF IInv, Safe, DispatchedOnce, RequestsRecorded, OpenUseFindable, ResultSupported, ToolsClosed
<1> QED
  BY <1>1, <1>2, <1>3, <1>5, <1>6, <1>7, <1>8, ExecutionStep

(* The run starts before anything is dispatched. *)
LEMMA StartRunStep ==
  ASSUME IInv, NEW w \in Worker, StartRun(w)
  PROVE  IInv'
<1>1. ASSUME pc[w] = "submitted" PROVE IInv'
  <2>1. /\ mode = "up" /\ pc[w] = "submitted" /\ pc' = [pc EXCEPT ![w] = "started"]
        /\ run = "created"
        /\ run' = "submitted"
        /\ UNCHANGED <<approval, boundary, attempts, task, tools, use, claim, receipt, dispatches, sent, expired, cmd, mode, crashes>>
    BY <1>1 DEF StartRun, MoveRun, At, Goto, Return, ledger, outside, service
  <2>2. /\ pc'[w] = "started" /\ \A v \in Worker : v # w => pc'[v] = pc[v]
    BY <2>1 DEF IInv, ExecTypeOK
  <2>3. Active(w)
    BY <2>1 DEF Active
  <2>4. /\ run \in {"created", "cancelled"} /\ claim = "none" /\ use = "none"
        /\ boundary = "not_dispatched" /\ attempts = 0 /\ dispatches = 0 /\ sent = 0
    BY <2>1, <2>3, Executing DEF RunAt, DoneAt, Planning, Working, Reporting, InDriver
  <2>5. ExecTypeOK'
    BY <2>1, <2>2, <2>3, <2>4 DEF IInv, ExecTypeOK, Label, InDriver, Live
  <2>6. RunAt(w)' /\ DoneAt(w)'
    BY <2>1, <2>2, <2>3, <2>4 DEF RunAt, DoneAt, Planning, Working, Reporting, InDriver
  <2>7. Unstarted'
    BY <2>1, <2>2, <2>3, <2>4 DEF IInv, Unstarted
  <2>8. Safe'
    BY <2>1, <2>2, <2>3, <2>4 DEF IInv, Safe, DispatchedOnce, RequestsRecorded, OpenUseFindable, ResultSupported, ToolsClosed
  <2> QED
    BY <2>1, <2>2, <2>3, <2>5, <2>6, <2>7, <2>8, ExecutionStep
<1>2. ASSUME pc[w] = "started" PROVE IInv'
  <2>1. /\ mode = "up" /\ pc[w] = "started" /\ pc' = [pc EXCEPT ![w] = "reserve"]
        /\ run = "submitted"
        /\ run' = "running"
        /\ UNCHANGED <<approval, boundary, attempts, task, tools, use, claim, receipt, dispatches, sent, expired, cmd, mode, crashes>>
    BY <1>2 DEF StartRun, MoveRun, At, Goto, Return, ledger, outside, service
  <2>2. /\ pc'[w] = "reserve" /\ \A v \in Worker : v # w => pc'[v] = pc[v]
    BY <2>1 DEF IInv, ExecTypeOK
  <2>3. Active(w)
    BY <2>1 DEF Active
  <2>4. /\ run \in {"submitted", "cancelled"}
        /\ claim = "none" /\ use = "none"
        /\ boundary = "not_dispatched" /\ attempts = 0 /\ dispatches = 0 /\ sent = 0
    BY <2>1, <2>3, Executing DEF RunAt, DoneAt, Planning, Working, Reporting, InDriver
  <2>5. ExecTypeOK'
    BY <2>1, <2>2, <2>3, <2>4 DEF IInv, ExecTypeOK, Label, InDriver, Live
  <2>6. RunAt(w)' /\ DoneAt(w)'
    BY <2>1, <2>2, <2>3, <2>4 DEF RunAt, DoneAt, Planning, Working, Reporting, InDriver
  <2>7. Unstarted'
    BY <2>1, <2>2, <2>3, <2>4 DEF IInv, Unstarted
  <2>8. Safe'
    BY <2>1, <2>2, <2>3, <2>4 DEF IInv, Safe, DispatchedOnce, RequestsRecorded, OpenUseFindable, ResultSupported, ToolsClosed
  <2> QED
    BY <2>1, <2>2, <2>3, <2>5, <2>6, <2>7, <2>8, ExecutionStep
<1> QED
  BY <1>1, <1>2 DEF StartRun, MoveRun, At, Goto, Return, ledger, outside, service

(* The use is reserved under a running run. *)
LEMMA ReserveUseStep ==
  ASSUME IInv, NEW w \in Worker, ReserveUse(w)
  PROVE  IInv'
<1>1. /\ mode = "up" /\ pc[w] = "reserve" /\ pc' = [pc EXCEPT ![w] = "dispatch"]
      /\ use' = "open"
      /\ UNCHANGED <<approval, run, boundary, attempts, task, tools, claim, receipt, dispatches, sent, expired, cmd, mode, crashes>>
  BY DEF ReserveUse, At, Goto, Return, ledger, outside, service
<1>2. /\ pc'[w] = "dispatch" /\ \A v \in Worker : v # w => pc'[v] = pc[v]
  BY <1>1 DEF IInv, ExecTypeOK
<1>3. Active(w)
  BY <1>1 DEF Active
<1>4. /\ run \in {"running", "cancelled"} /\ claim = "none" /\ use = "none"
      /\ boundary = "not_dispatched" /\ attempts = 0 /\ dispatches = 0 /\ sent = 0
  BY <1>1, <1>3, Executing DEF RunAt, DoneAt, Planning, Working, Reporting, InDriver
<1>5. ExecTypeOK'
  BY <1>1, <1>2, <1>3, <1>4 DEF IInv, ExecTypeOK, Label, InDriver
<1>6. RunAt(w)' /\ DoneAt(w)'
  BY <1>1, <1>2, <1>3, <1>4 DEF RunAt, DoneAt, Planning, Working, Reporting, InDriver
<1>7. Unstarted'
  BY <1>1, <1>2, <1>3, <1>4 DEF IInv, Unstarted
<1>8. Safe'
  BY <1>1, <1>2, <1>3, <1>4 DEF IInv, Safe, DispatchedOnce, RequestsRecorded, OpenUseFindable, ResultSupported, ToolsClosed
<1> QED
  BY <1>1, <1>2, <1>3, <1>5, <1>6, <1>7, <1>8, ExecutionStep

(* The driver is entered for the first time. *)
LEMMA DispatchStep ==
  ASSUME IInv, NEW w \in Worker, Dispatch(w)
  PROVE  IInv'
<1>1. ASSUME pc'[w] = "request" PROVE IInv'
  <2>1. /\ mode = "up" /\ pc[w] = "dispatch" /\ pc' = [pc EXCEPT ![w] = "request"]
        /\ dispatches' = dispatches + 1
        /\ UNCHANGED <<approval, run, boundary, attempts, task, tools, use, claim, receipt, sent, expired, cmd, mode, crashes>>
    BY <1>1 DEF Dispatch, CanRecord, Undispatched, ExecTypeOK, IInv, At, Goto, Return, ledger, outside, service
  <2>2. /\ pc'[w] = "request" /\ \A v \in Worker : v # w => pc'[v] = pc[v]
    BY <2>1 DEF IInv, ExecTypeOK
  <2>3. Active(w)
    BY <2>1 DEF Active
  <2>4. /\ run \in {"running", "cancelled"} /\ claim = "none" /\ dispatches = 0 /\ sent = 0
        /\ dispatches' = 1
    BY <2>1, <2>3, Executing DEF RunAt, DoneAt, Planning, Working, Reporting, InDriver
  <2>5. ExecTypeOK'
    BY <2>1, <2>2, <2>3, <2>4 DEF IInv, ExecTypeOK, Label, InDriver
  <2>6. RunAt(w)' /\ DoneAt(w)'
    BY <2>1, <2>2, <2>3, <2>4 DEF RunAt, DoneAt, Planning, Working, Reporting, InDriver
  <2>7. Unstarted'
    BY <2>1, <2>2, <2>3, <2>4 DEF IInv, Unstarted
  <2>8. Safe'
    BY <2>1, <2>2, <2>3, <2>4 DEF IInv, Safe, DispatchedOnce, RequestsRecorded, OpenUseFindable, ResultSupported, ToolsClosed
  <2> QED
    BY <2>1, <2>2, <2>3, <2>5, <2>6, <2>7, <2>8, ExecutionStep
<1>2. ASSUME pc'[w] # "request" PROVE IInv'
  <2>1. /\ mode = "up" /\ pc[w] = "dispatch" /\ pc' = [pc EXCEPT ![w] = "abort"]
        /\ boundary \in Undispatched
        /\ dispatches' = dispatches + 1
        /\ boundary' = "budget_rejected"
        /\ UNCHANGED <<approval, run, attempts, task, tools, use, claim, receipt, sent, expired, cmd, mode, crashes>>
    BY <1>2 DEF Dispatch, CanRecord, Undispatched, ExecTypeOK, IInv, At, Goto, Return, ledger, outside, service
  <2>2. /\ pc'[w] = "abort" /\ \A v \in Worker : v # w => pc'[v] = pc[v]
    BY <2>1 DEF IInv, ExecTypeOK
  <2>3. Active(w)
    BY <2>1 DEF Active
  <2>4. /\ run \in {"running", "cancelled"} /\ claim = "none" /\ dispatches = 0 /\ sent = 0
        /\ dispatches' = 1
    BY <2>1, <2>3, Executing DEF RunAt, DoneAt, Planning, Working, Reporting, InDriver
  <2>5. ExecTypeOK'
    BY <2>1, <2>2, <2>3, <2>4, Boundaries DEF IInv, ExecTypeOK, Label, InDriver
  <2>6. RunAt(w)' /\ DoneAt(w)'
    BY <2>1, <2>2, <2>3, <2>4 DEF RunAt, DoneAt, Planning, Working, Reporting, InDriver
  <2>7. Unstarted'
    BY <2>1, <2>2, <2>3, <2>4 DEF IInv, Unstarted
  <2>8. Safe'
    BY <2>1, <2>2, <2>3, <2>4 DEF IInv, Safe, DispatchedOnce, RequestsRecorded, OpenUseFindable, ResultSupported, ToolsClosed, Undispatched
  <2> QED
    BY <2>1, <2>2, <2>3, <2>5, <2>6, <2>7, <2>8, ExecutionStep
<1> QED
  BY <1>1, <1>2 DEF Dispatch, CanRecord, Undispatched, ExecTypeOK, IInv, At, Goto, Return, ledger, outside, service

(* The request is counted before it leaves. *)
LEMMA RecordRequestStep ==
  ASSUME IInv, NEW w \in Worker, RecordRequest(w)
  PROVE  IInv'
<1>1. /\ mode = "up" /\ pc[w] = "request" /\ pc' = [pc EXCEPT ![w] = "send"]
      /\ attempts < Limit
      /\ boundary' = "request_started"
      /\ attempts' = attempts + 1
      /\ UNCHANGED <<approval, run, task, tools, use, claim, receipt, dispatches, sent, expired, cmd, mode, crashes>>
  BY DEF RecordRequest, RecordAt, Record, CanRecord, At, Goto, Return, ledger, outside, service
<1>2. /\ pc'[w] = "send" /\ \A v \in Worker : v # w => pc'[v] = pc[v]
  BY <1>1 DEF IInv, ExecTypeOK
<1>3. Active(w)
  BY <1>1 DEF Active
<1>4. /\ run \in {"running", "cancelled"} /\ claim = "none"
  BY <1>1, <1>3, Executing DEF RunAt, DoneAt, Planning, Working, Reporting, InDriver
<1>a. attempts \in Nat /\ sent \in Nat /\ sent <= attempts /\ Limit \in Nat
  <2>1. attempts \in Nat /\ sent \in Nat
    BY DEF IInv, ExecTypeOK
  <2>2. Limit \in Nat
    BY ExecutionAssumption
  <2> QED
    BY <2>1, <2>2 DEF IInv, Safe, RequestsRecorded
<1>5. ExecTypeOK'
  BY <1>1, <1>2, <1>3, <1>4, <1>a, Boundaries DEF IInv, ExecTypeOK, Label, InDriver
<1>6. RunAt(w)' /\ DoneAt(w)'
  BY <1>1, <1>2, <1>3, <1>4, <1>a DEF RunAt, DoneAt, Planning, Working, Reporting, InDriver, Undispatched
<1>7. Unstarted'
  BY <1>1, <1>2, <1>3, <1>4, <1>a DEF IInv, Unstarted
<1>8. Safe'
  BY <1>1, <1>2, <1>3, <1>4, <1>a DEF IInv, Safe, DispatchedOnce, RequestsRecorded, OpenUseFindable, ResultSupported, ToolsClosed, Undispatched
<1> QED
  BY <1>1, <1>2, <1>3, <1>5, <1>6, <1>7, <1>8, ExecutionStep

(* The request that leaves was counted. *)
LEMMA SendStep ==
  ASSUME IInv, NEW w \in Worker, Send(w)
  PROVE  IInv'
<1>1. /\ mode = "up" /\ pc[w] = "send" /\ pc' = [pc EXCEPT ![w] = "headers"]
      /\ sent' = sent + 1
      /\ UNCHANGED <<approval, run, boundary, attempts, task, tools, use, claim, receipt, dispatches, expired, cmd, mode, crashes>>
  BY DEF Send, At, Goto, Return, ledger, outside, service
<1>2. /\ pc'[w] = "headers" /\ \A v \in Worker : v # w => pc'[v] = pc[v]
  BY <1>1 DEF IInv, ExecTypeOK
<1>3. Active(w)
  BY <1>1 DEF Active
<1>4. /\ run \in {"running", "cancelled"} /\ claim = "none"
      /\ sent < attempts /\ boundary \notin Undispatched
  BY <1>1, <1>3, Executing DEF RunAt, DoneAt, Planning, Working, Reporting, InDriver
<1>a. attempts \in Nat /\ sent \in Nat /\ sent <= attempts /\ Limit \in Nat
  <2>1. attempts \in Nat /\ sent \in Nat
    BY DEF IInv, ExecTypeOK
  <2>2. Limit \in Nat
    BY ExecutionAssumption
  <2> QED
    BY <2>1, <2>2 DEF IInv, Safe, RequestsRecorded
<1>5. ExecTypeOK'
  BY <1>1, <1>2, <1>3, <1>4, <1>a DEF IInv, ExecTypeOK, Label, InDriver
<1>6. RunAt(w)' /\ DoneAt(w)'
  BY <1>1, <1>2, <1>3, <1>4, <1>a DEF RunAt, DoneAt, Planning, Working, Reporting, InDriver
<1>7. Unstarted'
  BY <1>1, <1>2, <1>3, <1>4, <1>a DEF IInv, Unstarted
<1>8. Safe'
  BY <1>1, <1>2, <1>3, <1>4, <1>a DEF IInv, Safe, DispatchedOnce, RequestsRecorded, OpenUseFindable, ResultSupported, ToolsClosed
<1> QED
  BY <1>1, <1>2, <1>3, <1>5, <1>6, <1>7, <1>8, ExecutionStep

(* Boundaries of a response. *)
LEMMA ReceiveStep ==
  ASSUME IInv, NEW w \in Worker, Receive(w)
  PROVE  IInv'
<1>1. ASSUME RecordAt(w, "headers", "response_started", "body") PROVE IInv'
  <2>1. /\ mode = "up" /\ pc[w] = "headers" /\ pc' = [pc EXCEPT ![w] = "body"]
        /\ boundary' = "response_started"
        /\ UNCHANGED <<approval, run, attempts, task, tools, use, claim, receipt, dispatches, sent, expired, cmd, mode, crashes>>
    BY <1>1, ResponseRecorded
  <2>2. /\ pc'[w] = "body" /\ \A v \in Worker : v # w => pc'[v] = pc[v]
    BY <2>1 DEF IInv, ExecTypeOK
  <2>3. Active(w)
    BY <2>1 DEF Active
  <2>4. /\ run \in {"running", "cancelled"} /\ claim = "none"
    BY <2>1, <2>3, Executing DEF RunAt, DoneAt, Planning, Working, Reporting, InDriver
  <2>5. ExecTypeOK'
    BY <2>1, <2>2, <2>3, <2>4, Boundaries DEF IInv, ExecTypeOK, Label, InDriver
  <2>6. RunAt(w)' /\ DoneAt(w)'
    BY <2>1, <2>2, <2>3, <2>4 DEF RunAt, DoneAt, Planning, Working, Reporting, InDriver
  <2>7. Unstarted'
    BY <2>1, <2>2, <2>3, <2>4 DEF IInv, Unstarted
  <2>8. Safe'
    BY <2>1, <2>2, <2>3, <2>4 DEF IInv, Safe, DispatchedOnce, RequestsRecorded, OpenUseFindable, ResultSupported, ToolsClosed, Undispatched
  <2> QED
    BY <2>1, <2>2, <2>3, <2>5, <2>6, <2>7, <2>8, ExecutionStep
<1>2. ASSUME RecordAt(w, "body", "response_completed", "request") PROVE IInv'
  <2>1. /\ mode = "up" /\ pc[w] = "body" /\ pc' = [pc EXCEPT ![w] = "request"]
        /\ boundary' = "response_completed"
        /\ UNCHANGED <<approval, run, attempts, task, tools, use, claim, receipt, dispatches, sent, expired, cmd, mode, crashes>>
    BY <1>2, ResponseRecorded
  <2>2. /\ pc'[w] = "request" /\ \A v \in Worker : v # w => pc'[v] = pc[v]
    BY <2>1 DEF IInv, ExecTypeOK
  <2>3. Active(w)
    BY <2>1 DEF Active
  <2>4. /\ run \in {"running", "cancelled"} /\ claim = "none"
    BY <2>1, <2>3, Executing DEF RunAt, DoneAt, Planning, Working, Reporting, InDriver
  <2>5. ExecTypeOK'
    BY <2>1, <2>2, <2>3, <2>4, Boundaries DEF IInv, ExecTypeOK, Label, InDriver
  <2>6. RunAt(w)' /\ DoneAt(w)'
    BY <2>1, <2>2, <2>3, <2>4 DEF RunAt, DoneAt, Planning, Working, Reporting, InDriver
  <2>7. Unstarted'
    BY <2>1, <2>2, <2>3, <2>4 DEF IInv, Unstarted
  <2>8. Safe'
    BY <2>1, <2>2, <2>3, <2>4 DEF IInv, Safe, DispatchedOnce, RequestsRecorded, OpenUseFindable, ResultSupported, ToolsClosed, Undispatched
  <2> QED
    BY <2>1, <2>2, <2>3, <2>5, <2>6, <2>7, <2>8, ExecutionStep
<1>3. ASSUME RecordAt(w, "body", "response_completed", "persist") PROVE IInv'
  <2>1. /\ mode = "up" /\ pc[w] = "body" /\ pc' = [pc EXCEPT ![w] = "persist"]
        /\ boundary' = "response_completed"
        /\ UNCHANGED <<approval, run, attempts, task, tools, use, claim, receipt, dispatches, sent, expired, cmd, mode, crashes>>
    BY <1>3, ResponseRecorded
  <2>2. /\ pc'[w] = "persist" /\ \A v \in Worker : v # w => pc'[v] = pc[v]
    BY <2>1 DEF IInv, ExecTypeOK
  <2>3. Active(w)
    BY <2>1 DEF Active
  <2>4. /\ run \in {"running", "cancelled"} /\ claim = "none"
    BY <2>1, <2>3, Executing DEF RunAt, DoneAt, Planning, Working, Reporting, InDriver
  <2>5. ExecTypeOK'
    BY <2>1, <2>2, <2>3, <2>4, Boundaries DEF IInv, ExecTypeOK, Label, InDriver
  <2>6. RunAt(w)' /\ DoneAt(w)'
    BY <2>1, <2>2, <2>3, <2>4 DEF RunAt, DoneAt, Planning, Working, Reporting, InDriver
  <2>7. Unstarted'
    BY <2>1, <2>2, <2>3, <2>4 DEF IInv, Unstarted
  <2>8. Safe'
    BY <2>1, <2>2, <2>3, <2>4 DEF IInv, Safe, DispatchedOnce, RequestsRecorded, OpenUseFindable, ResultSupported, ToolsClosed, Undispatched
  <2> QED
    BY <2>1, <2>2, <2>3, <2>5, <2>6, <2>7, <2>8, ExecutionStep
<1>4. ASSUME RecordAt(w, "persist", "result_persisted", "close") PROVE IInv'
  <2>1. /\ mode = "up" /\ pc[w] = "persist" /\ pc' = [pc EXCEPT ![w] = "close"]
        /\ boundary' = "result_persisted"
        /\ UNCHANGED <<approval, run, attempts, task, tools, use, claim, receipt, dispatches, sent, expired, cmd, mode, crashes>>
    BY <1>4, ResponseRecorded
  <2>2. /\ pc'[w] = "close" /\ \A v \in Worker : v # w => pc'[v] = pc[v]
    BY <2>1 DEF IInv, ExecTypeOK
  <2>3. Active(w)
    BY <2>1 DEF Active
  <2>4. /\ run \in {"running", "cancelled"} /\ claim = "none"
    BY <2>1, <2>3, Executing DEF RunAt, DoneAt, Planning, Working, Reporting, InDriver
  <2>5. ExecTypeOK'
    BY <2>1, <2>2, <2>3, <2>4, Boundaries DEF IInv, ExecTypeOK, Label, InDriver
  <2>6. RunAt(w)' /\ DoneAt(w)'
    BY <2>1, <2>2, <2>3, <2>4 DEF RunAt, DoneAt, Planning, Working, Reporting, InDriver
  <2>7. Unstarted'
    BY <2>1, <2>2, <2>3, <2>4 DEF IInv, Unstarted
  <2>8. Safe'
    BY <2>1, <2>2, <2>3, <2>4 DEF IInv, Safe, DispatchedOnce, RequestsRecorded, OpenUseFindable, ResultSupported, ToolsClosed, Undispatched
  <2> QED
    BY <2>1, <2>2, <2>3, <2>5, <2>6, <2>7, <2>8, ExecutionStep
<1> QED
  BY <1>1, <1>2, <1>3, <1>4 DEF Receive, At, Goto, Return, ledger, outside, service

(* The tools are closed before the run can complete. *)
LEMMA CloseToolsStep ==
  ASSUME IInv, NEW w \in Worker, CloseTools(w)
  PROVE  IInv'
<1>1. ASSUME pc[w] = "close" PROVE IInv'
  <2>1. /\ mode = "up" /\ pc[w] = "close" /\ pc' = [pc EXCEPT ![w] = "complete"]
        /\ tools' = IF tools = "active" THEN "revoked" ELSE tools
        /\ UNCHANGED <<approval, run, boundary, attempts, task, use, claim, receipt, dispatches, sent, expired, cmd, mode, crashes>>
    BY <1>1 DEF CloseTools, At, Goto, Return, ledger, outside, service
  <2>2. /\ pc'[w] = "complete" /\ \A v \in Worker : v # w => pc'[v] = pc[v]
    BY <2>1 DEF IInv, ExecTypeOK
  <2>3. Active(w)
    BY <2>1 DEF Active
  <2>4. /\ run \in {"running", "cancelled"} /\ claim = "none"
        /\ tools' # "active" /\ tools' \in {"none", "revoked", tools}
    BY <2>1, <2>3, Executing DEF RunAt, DoneAt, Planning, Working, Reporting, InDriver
  <2>5. ExecTypeOK'
    BY <2>1, <2>2, <2>3, <2>4 DEF IInv, ExecTypeOK, Label, InDriver
  <2>6. RunAt(w)' /\ DoneAt(w)'
    BY <2>1, <2>2, <2>3, <2>4 DEF RunAt, DoneAt, Planning, Working, Reporting, InDriver
  <2>7. Unstarted'
    BY <2>1, <2>2, <2>3, <2>4 DEF IInv, Unstarted
  <2>8. Safe'
    BY <2>1, <2>2, <2>3, <2>4 DEF IInv, Safe, DispatchedOnce, RequestsRecorded, OpenUseFindable, ResultSupported, ToolsClosed
  <2> QED
    BY <2>1, <2>2, <2>3, <2>5, <2>6, <2>7, <2>8, ExecutionStep
<1>2. ASSUME pc[w] = "abort" PROVE IInv'
  <2>1. /\ mode = "up" /\ pc[w] = "abort" /\ pc' = [pc EXCEPT ![w] = "unknown"]
        /\ tools' = IF tools = "active" THEN "revoked" ELSE tools
        /\ UNCHANGED <<approval, run, boundary, attempts, task, use, claim, receipt, dispatches, sent, expired, cmd, mode, crashes>>
    BY <1>2 DEF CloseTools, At, Goto, Return, ledger, outside, service
  <2>2. /\ pc'[w] = "unknown" /\ \A v \in Worker : v # w => pc'[v] = pc[v]
    BY <2>1 DEF IInv, ExecTypeOK
  <2>3. Active(w)
    BY <2>1 DEF Active
  <2>4. /\ run \in {"running", "cancelled"} /\ claim = "none"
        /\ tools' # "active" /\ tools' \in {"none", "revoked", tools}
    BY <2>1, <2>3, Executing DEF RunAt, DoneAt, Planning, Working, Reporting, InDriver
  <2>5. ExecTypeOK'
    BY <2>1, <2>2, <2>3, <2>4 DEF IInv, ExecTypeOK, Label, InDriver
  <2>6. RunAt(w)' /\ DoneAt(w)'
    BY <2>1, <2>2, <2>3, <2>4 DEF RunAt, DoneAt, Planning, Working, Reporting, InDriver
  <2>7. Unstarted'
    BY <2>1, <2>2, <2>3, <2>4 DEF IInv, Unstarted
  <2>8. Safe'
    BY <2>1, <2>2, <2>3, <2>4 DEF IInv, Safe, DispatchedOnce, RequestsRecorded, OpenUseFindable, ResultSupported, ToolsClosed
  <2> QED
    BY <2>1, <2>2, <2>3, <2>5, <2>6, <2>7, <2>8, ExecutionStep
<1> QED
  BY <1>1, <1>2 DEF CloseTools, At, Goto, Return, ledger, outside, service

(* The use is closed before the run is given up. *)
LEMMA AbandonStep ==
  ASSUME IInv, NEW w \in Worker, Abandon(w)
  PROVE  IInv'
<1>1. ASSUME pc[w] = "unknown" PROVE IInv'
  <2>1. /\ mode = "up" /\ pc[w] = "unknown" /\ pc' = [pc EXCEPT ![w] = "lose"]
        /\ use = "open"
        /\ use' = "indeterminate"
        /\ UNCHANGED <<approval, run, boundary, attempts, task, tools, claim, receipt, dispatches, sent, expired, cmd, mode, crashes>>
    BY <1>1 DEF Abandon, SettleUse, MoveRun, MoveTask, At, Goto, Return, ledger, outside, service
  <2>2. /\ pc'[w] = "lose" /\ \A v \in Worker : v # w => pc'[v] = pc[v]
    BY <2>1 DEF IInv, ExecTypeOK
  <2>3. Active(w)
    BY <2>1 DEF Active
  <2>4. /\ run \in {"running", "cancelled"} /\ claim = "none"
    BY <2>1, <2>3, Executing DEF RunAt, DoneAt, Planning, Working, Reporting, InDriver
  <2>5. ExecTypeOK'
    BY <2>1, <2>2, <2>3, <2>4 DEF IInv, ExecTypeOK, Label, InDriver
  <2>6. RunAt(w)' /\ DoneAt(w)'
    BY <2>1, <2>2, <2>3, <2>4 DEF RunAt, DoneAt, Planning, Working, Reporting, InDriver
  <2>7. Unstarted'
    BY <2>1, <2>2, <2>3, <2>4 DEF IInv, Unstarted
  <2>8. Safe'
    BY <2>1, <2>2, <2>3, <2>4 DEF IInv, Safe, DispatchedOnce, RequestsRecorded, OpenUseFindable, ResultSupported, ToolsClosed
  <2> QED
    BY <2>1, <2>2, <2>3, <2>5, <2>6, <2>7, <2>8, ExecutionStep
<1>2. ASSUME pc[w] = "lose" PROVE IInv'
  <2>1. /\ mode = "up" /\ pc[w] = "lose" /\ pc' = [pc EXCEPT ![w] = "suspend"]
        /\ run = "running"
        /\ run' = "lost"
        /\ UNCHANGED <<approval, boundary, attempts, task, tools, use, claim, receipt, dispatches, sent, expired, cmd, mode, crashes>>
    BY <1>2 DEF Abandon, SettleUse, MoveRun, MoveTask, At, Goto, Return, ledger, outside, service
  <2>2. /\ pc'[w] = "suspend" /\ \A v \in Worker : v # w => pc'[v] = pc[v]
    BY <2>1 DEF IInv, ExecTypeOK
  <2>3. Active(w)
    BY <2>1 DEF Active
  <2>4. /\ run \in {"running", "cancelled"} /\ claim = "none"
        /\ use # "open"
    BY <2>1, <2>3, Executing DEF RunAt, DoneAt, Planning, Working, Reporting, InDriver
  <2>5. ExecTypeOK'
    BY <2>1, <2>2, <2>3, <2>4 DEF IInv, ExecTypeOK, Label, InDriver
  <2>6. RunAt(w)' /\ DoneAt(w)'
    BY <2>1, <2>2, <2>3, <2>4 DEF RunAt, DoneAt, Planning, Working, Reporting, InDriver
  <2>7. Unstarted'
    BY <2>1, <2>2, <2>3, <2>4 DEF IInv, Unstarted
  <2>8. Safe'
    BY <2>1, <2>2, <2>3, <2>4 DEF IInv, Safe, DispatchedOnce, RequestsRecorded, OpenUseFindable, ResultSupported, ToolsClosed
  <2> QED
    BY <2>1, <2>2, <2>3, <2>5, <2>6, <2>7, <2>8, ExecutionStep
<1>3. ASSUME pc[w] = "suspend" PROVE IInv'
  <2>1. /\ mode = "up" /\ pc[w] = "suspend" /\ pc' = [pc EXCEPT ![w] = "raise"]
        /\ task = "running"
        /\ task' = "suspended"
        /\ UNCHANGED <<approval, run, boundary, attempts, tools, use, claim, receipt, dispatches, sent, expired, cmd, mode, crashes>>
    BY <1>3 DEF Abandon, SettleUse, MoveRun, MoveTask, At, Goto, Return, ledger, outside, service
  <2>2. /\ pc'[w] = "raise" /\ \A v \in Worker : v # w => pc'[v] = pc[v]
    BY <2>1 DEF IInv, ExecTypeOK
  <2>3. Active(w)
    BY <2>1 DEF Active
  <2>4. /\ run = "lost" /\ use # "open" /\ claim = "none"
    BY <2>1, <2>3, Executing DEF RunAt, DoneAt, Planning, Working, Reporting, InDriver
  <2>5. ExecTypeOK'
    BY <2>1, <2>2, <2>3, <2>4 DEF IInv, ExecTypeOK, Label, InDriver
  <2>6. RunAt(w)' /\ DoneAt(w)'
    BY <2>1, <2>2, <2>3, <2>4 DEF RunAt, DoneAt, Planning, Working, Reporting, InDriver
  <2>7. Unstarted'
    BY <2>1, <2>2, <2>3, <2>4 DEF IInv, Unstarted
  <2>8. Safe'
    BY <2>1, <2>2, <2>3, <2>4 DEF IInv, Safe, DispatchedOnce, RequestsRecorded, OpenUseFindable, ResultSupported, ToolsClosed
  <2> QED
    BY <2>1, <2>2, <2>3, <2>5, <2>6, <2>7, <2>8, ExecutionStep
<1> QED
  BY <1>1, <1>2, <1>3 DEF Abandon, SettleUse, MoveRun, MoveTask, At, Goto, Return, ledger, outside, service

(* A result is spent, then claimed, then reported. *)
LEMMA CompleteStep ==
  ASSUME IInv, NEW w \in Worker, Complete(w)
  PROVE  IInv'
<1>1. ASSUME pc[w] = "complete" PROVE IInv'
  <2>1. /\ mode = "up" /\ pc[w] = "complete" /\ pc' = [pc EXCEPT ![w] = "spend"]
        /\ run = "running"
        /\ run' = "completed"
        /\ UNCHANGED <<approval, boundary, attempts, task, tools, use, claim, receipt, dispatches, sent, expired, cmd, mode, crashes>>
    BY <1>1 DEF Complete, SettleUse, MoveRun, MoveTask, ProposeClaim, At, Goto, Return, ledger, outside, service
  <2>2. /\ pc'[w] = "spend" /\ \A v \in Worker : v # w => pc'[v] = pc[v]
    BY <2>1 DEF IInv, ExecTypeOK
  <2>3. Active(w)
    BY <2>1 DEF Active
  <2>4. /\ run \in {"running", "cancelled"} /\ claim = "none"
        /\ tools # "active"
    BY <2>1, <2>3, Executing DEF RunAt, DoneAt, Planning, Working, Reporting, InDriver
  <2>5. ExecTypeOK'
    BY <2>1, <2>2, <2>3, <2>4 DEF IInv, ExecTypeOK, Label, InDriver
  <2>6. RunAt(w)' /\ DoneAt(w)'
    BY <2>1, <2>2, <2>3, <2>4 DEF RunAt, DoneAt, Planning, Working, Reporting, InDriver
  <2>7. Unstarted'
    BY <2>1, <2>2, <2>3, <2>4 DEF IInv, Unstarted
  <2>8. Safe'
    BY <2>1, <2>2, <2>3, <2>4 DEF IInv, Safe, DispatchedOnce, RequestsRecorded, OpenUseFindable, ResultSupported, ToolsClosed
  <2> QED
    BY <2>1, <2>2, <2>3, <2>5, <2>6, <2>7, <2>8, ExecutionStep
<1>2. ASSUME pc[w] = "spend" PROVE IInv'
  <2>1. /\ mode = "up" /\ pc[w] = "spend" /\ pc' = [pc EXCEPT ![w] = "claim"]
        /\ use = "open"
        /\ use' = "succeeded"
        /\ UNCHANGED <<approval, run, boundary, attempts, task, tools, claim, receipt, dispatches, sent, expired, cmd, mode, crashes>>
    BY <1>2 DEF Complete, SettleUse, MoveRun, MoveTask, ProposeClaim, At, Goto, Return, ledger, outside, service
  <2>2. /\ pc'[w] = "claim" /\ \A v \in Worker : v # w => pc'[v] = pc[v]
    BY <2>1 DEF IInv, ExecTypeOK
  <2>3. Active(w)
    BY <2>1 DEF Active
  <2>4. /\ run = "completed" /\ claim = "none"
    BY <2>1, <2>3, Executing DEF RunAt, DoneAt, Planning, Working, Reporting, InDriver
  <2>5. ExecTypeOK'
    BY <2>1, <2>2, <2>3, <2>4 DEF IInv, ExecTypeOK, Label, InDriver
  <2>6. RunAt(w)' /\ DoneAt(w)'
    BY <2>1, <2>2, <2>3, <2>4 DEF RunAt, DoneAt, Planning, Working, Reporting, InDriver
  <2>7. Unstarted'
    BY <2>1, <2>2, <2>3, <2>4 DEF IInv, Unstarted
  <2>8. Safe'
    BY <2>1, <2>2, <2>3, <2>4 DEF IInv, Safe, DispatchedOnce, RequestsRecorded, OpenUseFindable, ResultSupported, ToolsClosed
  <2> QED
    BY <2>1, <2>2, <2>3, <2>5, <2>6, <2>7, <2>8, ExecutionStep
<1>3. ASSUME pc[w] = "claim" /\ claim' = "completion" PROVE IInv'
  <2>1. /\ mode = "up" /\ pc[w] = "claim" /\ pc' = [pc EXCEPT ![w] = "await"]
        /\ claim' = "completion"
        /\ UNCHANGED <<approval, run, boundary, attempts, task, tools, use, receipt, dispatches, sent, expired, cmd, mode, crashes>>
    BY <1>3 DEF Complete, SettleUse, MoveRun, MoveTask, ProposeClaim, At, Goto, Return, ledger, outside, service
  <2>2. /\ pc'[w] = "await" /\ \A v \in Worker : v # w => pc'[v] = pc[v]
    BY <2>1 DEF IInv, ExecTypeOK
  <2>3. Active(w)
    BY <2>1 DEF Active
  <2>4. /\ run = "completed" /\ use = "succeeded"
        /\ claim = "none"
    BY <2>1, <2>3, Executing DEF RunAt, DoneAt, Planning, Working, Reporting, InDriver
  <2>5. ExecTypeOK'
    BY <2>1, <2>2, <2>3, <2>4 DEF IInv, ExecTypeOK, Label, InDriver
  <2>6. RunAt(w)' /\ DoneAt(w)'
    BY <2>1, <2>2, <2>3, <2>4 DEF RunAt, DoneAt, Planning, Working, Reporting, InDriver
  <2>7. Unstarted'
    BY <2>1, <2>2, <2>3, <2>4 DEF IInv, Unstarted
  <2>8. Safe'
    BY <2>1, <2>2, <2>3, <2>4 DEF IInv, Safe, DispatchedOnce, RequestsRecorded, OpenUseFindable, ResultSupported, ToolsClosed
  <2> QED
    BY <2>1, <2>2, <2>3, <2>5, <2>6, <2>7, <2>8, ExecutionStep
<1>4. ASSUME pc[w] = "claim" /\ claim' # "completion" PROVE IInv'
  <2>1. /\ mode = "up" /\ pc[w] = "claim" /\ pc' = [pc EXCEPT ![w] = "reject"]
        /\ claim' = "observation"
        /\ UNCHANGED <<approval, run, boundary, attempts, task, tools, use, receipt, dispatches, sent, expired, cmd, mode, crashes>>
    BY <1>4 DEF Complete, SettleUse, MoveRun, MoveTask, ProposeClaim, At, Goto, Return, ledger, outside, service
  <2>2. /\ pc'[w] = "reject" /\ \A v \in Worker : v # w => pc'[v] = pc[v]
    BY <2>1 DEF IInv, ExecTypeOK
  <2>3. Active(w)
    BY <2>1 DEF Active
  <2>4. /\ run = "completed" /\ use = "succeeded"
        /\ claim = "none"
    BY <2>1, <2>3, Executing DEF RunAt, DoneAt, Planning, Working, Reporting, InDriver
  <2>5. ExecTypeOK'
    BY <2>1, <2>2, <2>3, <2>4 DEF IInv, ExecTypeOK, Label, InDriver
  <2>6. RunAt(w)' /\ DoneAt(w)'
    BY <2>1, <2>2, <2>3, <2>4 DEF RunAt, DoneAt, Planning, Working, Reporting, InDriver
  <2>7. Unstarted'
    BY <2>1, <2>2, <2>3, <2>4 DEF IInv, Unstarted
  <2>8. Safe'
    BY <2>1, <2>2, <2>3, <2>4 DEF IInv, Safe, DispatchedOnce, RequestsRecorded, OpenUseFindable, ResultSupported, ToolsClosed
  <2> QED
    BY <2>1, <2>2, <2>3, <2>5, <2>6, <2>7, <2>8, ExecutionStep
<1>5. ASSUME pc[w] = "await" PROVE IInv'
  <2>1. /\ mode = "up" /\ pc[w] = "await" /\ pc' = [pc EXCEPT ![w] = "receipt"]
        /\ task = "running"
        /\ task' = "awaiting_verification"
        /\ UNCHANGED <<approval, run, boundary, attempts, tools, use, claim, receipt, dispatches, sent, expired, cmd, mode, crashes>>
    BY <1>5 DEF Complete, SettleUse, MoveRun, MoveTask, ProposeClaim, At, Goto, Return, ledger, outside, service
  <2>2. /\ pc'[w] = "receipt" /\ \A v \in Worker : v # w => pc'[v] = pc[v]
    BY <2>1 DEF IInv, ExecTypeOK
  <2>3. Active(w)
    BY <2>1 DEF Active
  <2>4. /\ run = "completed" /\ use = "succeeded"
        /\ claim = "completion"
    BY <2>1, <2>3, Executing DEF RunAt, DoneAt, Planning, Working, Reporting, InDriver
  <2>5. ExecTypeOK'
    BY <2>1, <2>2, <2>3, <2>4 DEF IInv, ExecTypeOK, Label, InDriver
  <2>6. RunAt(w)' /\ DoneAt(w)'
    BY <2>1, <2>2, <2>3, <2>4 DEF RunAt, DoneAt, Planning, Working, Reporting, InDriver
  <2>7. Unstarted'
    BY <2>1, <2>2, <2>3, <2>4 DEF IInv, Unstarted
  <2>8. Safe'
    BY <2>1, <2>2, <2>3, <2>4 DEF IInv, Safe, DispatchedOnce, RequestsRecorded, OpenUseFindable, ResultSupported, ToolsClosed
  <2> QED
    BY <2>1, <2>2, <2>3, <2>5, <2>6, <2>7, <2>8, ExecutionStep
<1>6. ASSUME pc[w] = "reject" PROVE IInv'
  <2>1. /\ mode = "up" /\ pc[w] = "reject" /\ pc' = [pc EXCEPT ![w] = "receipt"]
        /\ task = "running"
        /\ task' = "failed"
        /\ UNCHANGED <<approval, run, boundary, attempts, tools, use, claim, receipt, dispatches, sent, expired, cmd, mode, crashes>>
    BY <1>6 DEF Complete, SettleUse, MoveRun, MoveTask, ProposeClaim, At, Goto, Return, ledger, outside, service
  <2>2. /\ pc'[w] = "receipt" /\ \A v \in Worker : v # w => pc'[v] = pc[v]
    BY <2>1 DEF IInv, ExecTypeOK
  <2>3. Active(w)
    BY <2>1 DEF Active
  <2>4. /\ run = "completed" /\ use = "succeeded"
        /\ claim # "none"
    BY <2>1, <2>3, Executing DEF RunAt, DoneAt, Planning, Working, Reporting, InDriver
  <2>5. ExecTypeOK'
    BY <2>1, <2>2, <2>3, <2>4 DEF IInv, ExecTypeOK, Label, InDriver
  <2>6. RunAt(w)' /\ DoneAt(w)'
    BY <2>1, <2>2, <2>3, <2>4 DEF RunAt, DoneAt, Planning, Working, Reporting, InDriver
  <2>7. Unstarted'
    BY <2>1, <2>2, <2>3, <2>4 DEF IInv, Unstarted
  <2>8. Safe'
    BY <2>1, <2>2, <2>3, <2>4 DEF IInv, Safe, DispatchedOnce, RequestsRecorded, OpenUseFindable, ResultSupported, ToolsClosed
  <2> QED
    BY <2>1, <2>2, <2>3, <2>5, <2>6, <2>7, <2>8, ExecutionStep
<1> QED
  BY <1>1, <1>2, <1>3, <1>4, <1>5, <1>6 DEF Complete, SettleUse, MoveRun, MoveTask, ProposeClaim, At, Goto, Return, ledger, outside, service

(* What the receipt says has happened. *)
LEMMA WriteReceiptStep ==
  ASSUME IInv, NEW w \in Worker, WriteReceipt(w)
  PROVE  IInv'
<1>1. /\ mode = "up" /\ pc[w] = "receipt" /\ pc' = [pc EXCEPT ![w] = "idle"]
      /\ receipt' = [receipt EXCEPT ![cmd[w]] = "done"]
      /\ cmd' = [cmd EXCEPT ![w] = None]
      /\ UNCHANGED <<approval, run, boundary, attempts, task, tools, use, claim, dispatches, sent, expired, mode, crashes>>
  BY DEF WriteReceipt, At, Goto, Return, ledger, outside, service
<1>2. /\ pc'[w] = "idle" /\ \A v \in Worker : v # w => pc'[v] = pc[v]
      /\ cmd'[w] = None /\ \A v \in Worker : v # w => cmd'[v] = cmd[v]
  BY <1>1 DEF IInv, ExecTypeOK
<1>3. Active(w)
  BY <1>1 DEF Active
<1>4. /\ run = "completed" /\ use = "succeeded"
      /\ claim # "none" /\ task # "running" /\ cmd[w] \in Command
  BY <1>1, <1>3, Executing DEF RunAt, DoneAt, Planning, Working, Reporting, InDriver
<1>5. ExecTypeOK'
  BY <1>1, <1>2, <1>3, <1>4 DEF IInv, ExecTypeOK, Label, InDriver
<1>6. RunAt(w)' /\ DoneAt(w)'
  BY <1>1, <1>2, <1>3, <1>4 DEF RunAt, DoneAt, Planning, Working, Reporting, InDriver
<1>7. Unstarted'
  BY <1>1, <1>2, <1>3, <1>4 DEF IInv, Unstarted
<1>8. Safe'
  BY <1>1, <1>2, <1>3, <1>4 DEF IInv, Safe, DispatchedOnce, RequestsRecorded, OpenUseFindable, ResultSupported, ToolsClosed
<1> QED
  BY <1>1, <1>2, <1>3, <1>5, <1>6, <1>7, <1>8, ExecutionStep

(* What the driver raises is caught; what else raises leaves the call. *)
LEMMA RaiseStep ==
  ASSUME IInv, NEW w \in Worker, Raise(w)
  PROVE  IInv'
<1>1. ASSUME pc[w] \in InDriver PROVE IInv'
  <2>1. /\ mode = "up" /\ pc[w] \in InDriver /\ pc' = [pc EXCEPT ![w] = "abort"]
        /\ UNCHANGED <<approval, run, boundary, attempts, task, tools, use, claim, receipt, dispatches, sent, expired, cmd, mode, crashes>>
    BY <1>1 DEF Raise, InDriver, At, Goto, Return, ledger, outside, service
  <2>2. /\ pc'[w] = "abort" /\ \A v \in Worker : v # w => pc'[v] = pc[v]
    BY <2>1 DEF IInv, ExecTypeOK
  <2>3. Active(w)
    BY <2>1 DEF Active, InDriver
  <2>4. /\ run \in {"running", "cancelled"} /\ claim = "none"
    BY <2>1, <2>3, Executing DEF RunAt, DoneAt, Planning, Working, Reporting, InDriver
  <2>5. ExecTypeOK'
    BY <2>1, <2>2, <2>3, <2>4 DEF IInv, ExecTypeOK, Label, InDriver
  <2>6. RunAt(w)' /\ DoneAt(w)'
    BY <2>1, <2>2, <2>3, <2>4 DEF RunAt, DoneAt, Planning, Working, Reporting, InDriver
  <2>7. Unstarted'
    BY <2>1, <2>2, <2>3, <2>4 DEF IInv, Unstarted
  <2>8. Safe'
    BY <2>1, <2>2, <2>3, <2>4 DEF IInv, Safe, DispatchedOnce, RequestsRecorded, OpenUseFindable, ResultSupported, ToolsClosed
  <2> QED
    BY <2>1, <2>2, <2>3, <2>5, <2>6, <2>7, <2>8, ExecutionStep
<1>2. ASSUME pc[w] \in {"close", "abort"} PROVE IInv'
  <2>1. /\ mode = "up" /\ pc[w] \in {"close", "abort"} /\ pc' = [pc EXCEPT ![w] = "unknown"]
        /\ UNCHANGED <<approval, run, boundary, attempts, task, tools, use, claim, receipt, dispatches, sent, expired, cmd, mode, crashes>>
    BY <1>2 DEF Raise, InDriver, At, Goto, Return, ledger, outside, service
  <2>2. /\ pc'[w] = "unknown" /\ \A v \in Worker : v # w => pc'[v] = pc[v]
    BY <2>1 DEF IInv, ExecTypeOK
  <2>3. Active(w)
    BY <2>1 DEF Active
  <2>4. /\ run \in {"running", "cancelled"} /\ claim = "none"
    BY <2>1, <2>3, Executing DEF RunAt, DoneAt, Planning, Working, Reporting, InDriver
  <2>5. ExecTypeOK'
    BY <2>1, <2>2, <2>3, <2>4 DEF IInv, ExecTypeOK, Label, InDriver
  <2>6. RunAt(w)' /\ DoneAt(w)'
    BY <2>1, <2>2, <2>3, <2>4 DEF RunAt, DoneAt, Planning, Working, Reporting, InDriver
  <2>7. Unstarted'
    BY <2>1, <2>2, <2>3, <2>4 DEF IInv, Unstarted
  <2>8. Safe'
    BY <2>1, <2>2, <2>3, <2>4 DEF IInv, Safe, DispatchedOnce, RequestsRecorded, OpenUseFindable, ResultSupported, ToolsClosed
  <2> QED
    BY <2>1, <2>2, <2>3, <2>5, <2>6, <2>7, <2>8, ExecutionStep
<1>3. ASSUME pc[w] # "idle", pc[w] \notin InDriver, pc[w] \notin {"close", "abort"} PROVE IInv'
  <2>1. /\ pc' = [pc EXCEPT ![w] = "idle"] /\ cmd' = [cmd EXCEPT ![w] = None]
        /\ mode = "up" /\ UNCHANGED <<ledger, outside, mode, crashes>>
    BY <1>3 DEF Raise, At, Goto, Return, service, InDriver
  <2>2. /\ pc'[w] = "idle" /\ \A v \in Worker : v # w => pc'[v] = pc[v]
        /\ cmd'[w] = None /\ \A v \in Worker : v # w => cmd'[v] = cmd[v]
    BY <2>1 DEF IInv, ExecTypeOK
  <2>3. ExecTypeOK'
    BY <2>1, <2>2 DEF IInv, ExecTypeOK, Label, ledger, outside
  <2> QED
    BY <2>1, <2>2, <2>3, OutsideStep
<1>4. pc[w] # "idle"
  BY DEF Raise
<1> QED
  BY <1>1, <1>2, <1>3, <1>4
-----------------------------------------------------------------------------
(* A command that arrives changes nothing yet. *)
LEMMA SubmitStep ==
  ASSUME IInv, NEW w \in Worker, NEW c \in Command, Submit(w, c)
  PROVE  IInv'
<1>1. /\ pc' = [pc EXCEPT ![w] = "admit"] /\ cmd' = [cmd EXCEPT ![w] = c]
      /\ mode = "up" /\ UNCHANGED <<ledger, outside, mode, crashes>>
  BY DEF Submit, At, service
<1>2. /\ pc'[w] = "admit" /\ \A v \in Worker : v # w => pc'[v] = pc[v]
      /\ cmd'[w] = c /\ \A v \in Worker : v # w => cmd'[v] = cmd[v]
  BY <1>1 DEF IInv, ExecTypeOK
<1>3. ExecTypeOK'
  BY <1>1, <1>2, ExecutionAssumption DEF IInv, ExecTypeOK, Label, ledger, outside
<1> QED
  BY <1>1, <1>2, <1>3, OutsideStep

(* The approval is consumed when nobody executes: the admitted thread is   *)
(* the only one, and nothing has happened yet.                             *)
LEMMA AdmitStep ==
  ASSUME IInv, NEW w \in Worker, Admit(w)
  PROVE  IInv'
<1>0. mode = "up" /\ mode' = "up" /\ crashes' = crashes /\ pc[w] = "admit" /\ UNCHANGED outside
  BY DEF Admit, At, service
<1>1. CASE Return(w) /\ UNCHANGED ledger
  <2>1. /\ pc' = [pc EXCEPT ![w] = "idle"] /\ cmd' = [cmd EXCEPT ![w] = None]
    BY <1>1 DEF Return
  <2>2. /\ pc'[w] = "idle" /\ \A v \in Worker : v # w => pc'[v] = pc[v]
        /\ cmd'[w] = None /\ \A v \in Worker : v # w => cmd'[v] = cmd[v]
    BY <2>1 DEF IInv, ExecTypeOK
  <2>3. ExecTypeOK'
    BY <1>0, <1>1, <2>1, <2>2 DEF IInv, ExecTypeOK, Label, ledger, outside
  <2> QED
    BY <1>0, <1>1, <2>2, <2>3, OutsideStep
<1>2. ASSUME Admissible, approval' = "consumed", run' = "created",
             receipt' = [receipt EXCEPT ![cmd[w]] = "admitted"], Goto(w, "load"),
             UNCHANGED <<boundary, attempts, task, tools, use, claim>>
      PROVE  IInv'
  <2>1. /\ pc' = [pc EXCEPT ![w] = "load"] /\ UNCHANGED cmd
        /\ UNCHANGED <<dispatches, sent, expired>>
    BY <1>0, <1>2 DEF Goto, outside
  <2>2. pc'[w] = "load" /\ \A v \in Worker : v # w => pc'[v] = pc[v]
    BY <2>1 DEF IInv, ExecTypeOK
  <2>3. /\ boundary = "not_dispatched" /\ attempts = 0 /\ use = "none" /\ claim = "none"
        /\ dispatches = 0 /\ sent = 0 /\ \A v \in Worker : ~Active(v)
    BY <1>2 DEF Admissible, IInv, Fresh
  <2>4. ExecTypeOK'
    BY <1>0, <1>2, <2>1, <2>2 DEF IInv, ExecTypeOK, Label, Live
  <2>5. Fresh' /\ OneExecutes'
    BY <1>2, <2>2, <2>3 DEF Fresh, OneExecutes, Active
  <2>6. Phases'
    <3> SUFFICES ASSUME NEW v \in Worker PROVE RunAt(v)' /\ DoneAt(v)'
      BY DEF Phases
    <3>1. CASE v = w
      BY <1>2, <2>1, <2>2, <2>3, <3>1 DEF RunAt, DoneAt, Planning, Working, Reporting, InDriver
    <3>2. CASE v # w
      <4>1. pc'[v] \in {"idle", "admit"}
        BY <2>2, <2>3, <3>2 DEF Active
      <4> QED
        BY <4>1 DEF RunAt, DoneAt, Planning, Working, Reporting, InDriver
    <3> QED
      BY <3>1, <3>2
  <2>7. Unstarted' /\ UseClosedFirst'
    BY <1>0, <1>2, <2>1, <2>3 DEF Unstarted, UseClosedFirst
  <2>8. Safe'
    <3>1. \A c \in Command : receipt'[c] = "done" => receipt[c] = "done"
      BY <1>2 DEF IInv, ExecTypeOK
    <3> QED
      BY <1>2, <2>1, <2>3, <3>1, ExecutionAssumption
         DEF IInv, Safe, DispatchedOnce, RequestsRecorded, OpenUseFindable, ResultSupported,
             ToolsClosed
  <2> QED
    BY <2>4, <2>5, <2>6, <2>7, <2>8 DEF IInv
<1> QED
  BY <1>1, <1>2 DEF Admit

(* A step of nobody's thread keeps what is said of the threads. *)
LEMMA ThreadsKept ==
  ASSUME IInv, UNCHANGED threads, mode' \in {"up", mode} \/ mode # "up"
  PROVE  /\ pc' \in [Worker -> Label] /\ cmd' \in [Worker -> Command \cup {None}]
         /\ \A w \in Worker : (cmd'[w] = None) <=> (pc'[w] = "idle")
         /\ mode' # "up" => \A w \in Worker : pc'[w] = "idle"
<1>1. pc' = pc /\ cmd' = cmd
  BY DEF threads
<1>2. /\ pc \in [Worker -> Label] /\ cmd \in [Worker -> Command \cup {None}]
      /\ \A w \in Worker : (cmd[w] = None) <=> (pc[w] = "idle")
      /\ mode # "up" => \A w \in Worker : pc[w] = "idle"
  BY DEF IInv, ExecTypeOK
<1>3. mode' # "up" => mode # "up"
  OBVIOUS
<1> QED
  BY <1>1, <1>2, <1>3

(* The types of a step that moves no thread, or ends them all. *)
LEMMA TypesKept ==
  ASSUME IInv,
         approval' \in {approval, "revoked"}, expired' \in {expired, TRUE},
         run' \in {run, "cancelled", "failed", "lost"},
         task' \in {task, "cancelled", "suspended", "failed"},
         use' \in {use, "indeterminate"},
         UNCHANGED <<boundary, attempts, tools, claim, receipt, dispatches, sent>>,
         crashes' = crashes \/ crashes' \in Nat,
         mode' \in {mode, "up", "load", "settle use", "settle run", "suspend task", "fail task"},
         /\ pc' \in [Worker -> Label] /\ cmd' \in [Worker -> Command \cup {None}]
         /\ \A w \in Worker : (cmd'[w] = None) <=> (pc'[w] = "idle")
         /\ mode' # "up" => \A w \in Worker : pc'[w] = "idle"
  PROVE  ExecTypeOK'
<1>1. /\ approval' \in {"approved", "consumed", "revoked"}
      /\ run' \in Live \cup {"absent", "completed", "failed", "lost", "cancelled"}
      /\ boundary' \in DOMAIN BoundaryOrder \cup {"budget_rejected"}
  BY DEF IInv, ExecTypeOK
<1>2. expired' \in BOOLEAN
  BY DEF IInv, ExecTypeOK
<1>3. attempts' \in Nat /\ dispatches' \in Nat /\ sent' \in Nat /\ crashes' \in Nat
  <2>1. attempts \in Nat /\ dispatches \in Nat /\ sent \in Nat /\ crashes \in Nat
    BY DEF IInv, ExecTypeOK
  <2>2. CASE crashes' = crashes
    BY <2>1, <2>2
  <2>3. CASE crashes' \in Nat
    BY <2>1, <2>3
  <2> QED
    BY <2>2, <2>3
<1>4. /\ task' \in {"absent", "pending", "ready", "assigned", "running", "suspended",
                     "awaiting_verification", "failed", "cancelled"}
      /\ tools' \in {"none", "active", "revoked"}
      /\ use' \in {"none", "open", "succeeded", "indeterminate"}
      /\ claim' \in {"none", "observation", "completion"}
      /\ receipt' \in [Command -> {"none", "admitted", "not_repeated", "done"}]
  BY DEF IInv, ExecTypeOK
<1>5. mode' \in {"up", "load", "settle use", "settle run", "suspend task", "fail task"}
  BY DEF IInv, ExecTypeOK
<1> QED
  BY <1>1, <1>2, <1>3, <1>4, <1>5 DEF ExecTypeOK

(* The operator cancels only what has not completed, and revokes only what *)
(* was not consumed.                                                       *)
LEMMA OperatorStep ==
  ASSUME IInv, Operator
  PROVE  IInv'
<1> USE DEF ledger, outside, threads, service
<1>1. CASE CancelRun
  <2>1. /\ run \in Live /\ run' = "cancelled"
        /\ UNCHANGED <<approval, boundary, attempts, task, tools, use, claim, receipt,
                       outside, threads, service>>
    BY <1>1 DEF CancelRun
  <2>2. ExecTypeOK'
    BY <2>1, ThreadsKept, TypesKept
  <2>3. Fresh' /\ OneExecutes' /\ Unstarted' /\ UseClosedFirst'
    BY <2>1 DEF IInv, Fresh, OneExecutes, Active, Unstarted, UseClosedFirst, Live
  <2>4. Phases'
    <3> SUFFICES ASSUME NEW w \in Worker PROVE RunAt(w)' /\ DoneAt(w)'
      BY DEF Phases
    <3>1. RunAt(w) /\ DoneAt(w)
      BY DEF IInv, Phases
    <3> QED
      BY <2>1, <3>1 DEF RunAt, DoneAt, Live
  <2>5. Safe'
    BY <2>1 DEF IInv, Safe, DispatchedOnce, RequestsRecorded, OpenUseFindable,
                ResultSupported, ToolsClosed, Live
  <2> QED
    BY <2>2, <2>3, <2>4, <2>5 DEF IInv
<1>2. CASE CancelTask
  <2>1. /\ task' = "cancelled"
        /\ UNCHANGED <<approval, run, boundary, attempts, tools, use, claim, receipt,
                       outside, threads, service>>
    BY <1>2 DEF CancelTask
  <2>2. ExecTypeOK'
    BY <2>1, ThreadsKept, TypesKept
  <2>3. Fresh' /\ OneExecutes' /\ Unstarted' /\ UseClosedFirst'
    BY <2>1 DEF IInv, Fresh, OneExecutes, Active, Unstarted, UseClosedFirst
  <2>4. Phases'
    BY <2>1 DEF IInv, Phases, RunAt, DoneAt
  <2>5. Safe'
    BY <2>1 DEF IInv, Safe, DispatchedOnce, RequestsRecorded, OpenUseFindable,
                ResultSupported, ToolsClosed
  <2> QED
    BY <2>2, <2>3, <2>4, <2>5 DEF IInv
<1>3. CASE RevokeApproval \/ Expire
  <2>1. /\ approval' = approval \/ (approval = "approved" /\ approval' = "revoked")
        /\ expired' = expired \/ expired' = TRUE
        /\ UNCHANGED <<run, boundary, attempts, task, tools, use, claim, receipt,
                       dispatches, sent, pc, cmd, mode, crashes>>
    BY <1>3 DEF RevokeApproval, Expire
  <2>2. ExecTypeOK'
    BY <2>1, ThreadsKept, TypesKept
  <2>3. Fresh' /\ OneExecutes' /\ Unstarted' /\ UseClosedFirst'
    BY <2>1 DEF IInv, Fresh, OneExecutes, Active, Unstarted, UseClosedFirst
  <2>4. Phases'
    BY <2>1 DEF IInv, Phases, RunAt, DoneAt
  <2>5. Safe'
    BY <2>1 DEF IInv, Safe, DispatchedOnce, RequestsRecorded, OpenUseFindable,
                ResultSupported, ToolsClosed
  <2> QED
    BY <2>2, <2>3, <2>4, <2>5 DEF IInv
<1> QED
  BY <1>1, <1>2, <1>3 DEF Operator

(* With no thread in a call there is nothing to say of places. *)
LEMMA NoneExecute ==
  ASSUME \A w \in Worker : pc'[w] = "idle"
  PROVE  /\ OneExecutes' /\ Phases' /\ \A w \in Worker : ~Active(w)'
  BY DEF OneExecutes, Phases, Active, RunAt, DoneAt, Planning, Working, Reporting, InDriver

LEMMA CrashStep ==
  ASSUME IInv, Crash
  PROVE  IInv'
<1>1. /\ pc' = [w \in Worker |-> "idle"] /\ cmd' = [w \in Worker |-> None]
      /\ mode' = "load" /\ crashes' = crashes + 1 /\ UNCHANGED <<ledger, outside>>
  BY DEF Crash
<1>2. \A w \in Worker : pc'[w] = "idle" /\ cmd'[w] = None
  BY <1>1
<1>3. ExecTypeOK'
  <2>1. crashes' \in Nat
    <3>1. crashes \in Nat
      BY DEF IInv, ExecTypeOK
    <3> QED
      BY <1>1, <3>1
  <2>2. pc' \in [Worker -> Label] /\ cmd' \in [Worker -> Command \cup {None}]
    BY <1>1 DEF Label
  <2> QED
    BY <1>1, <1>2, <2>1, <2>2, TypesKept DEF ledger, outside
<1>4. Fresh' /\ OneExecutes' /\ Phases'
  BY <1>1, <1>2, NoneExecute DEF IInv, Fresh, ledger, outside
<1>5. Unstarted' /\ UseClosedFirst'
  BY <1>1 DEF IInv, Unstarted, UseClosedFirst, ledger, outside
<1>6. Safe'
  BY <1>1 DEF IInv, Safe, DispatchedOnce, RequestsRecorded, OpenUseFindable, ResultSupported,
              ToolsClosed, ledger, outside
<1> QED
  BY <1>3, <1>4, <1>5, <1>6 DEF IInv

(* Recovery calls a run failed only if it was never started, and gives it  *)
(* up only when its use is closed.                                         *)
LEMMA BootStep ==
  ASSUME IInv, Boot
  PROVE  IInv'
<1>1. /\ mode # "up" /\ UNCHANGED <<approval, boundary, attempts, tools, claim, receipt,
                                    dispatches, sent, expired, pc, cmd, crashes>>
      /\ mode' \in {"up", "settle use", "settle run", "suspend task", "fail task"}
      /\ \/ UNCHANGED <<run, use, task>> /\ mode' # "settle run"
         \/ run = "created" /\ run' = "failed" /\ UNCHANGED <<use, task>> /\ mode' # "settle run"
         \/ /\ use' = IF use = "open" THEN "indeterminate" ELSE use
            /\ UNCHANGED <<run, task>>
         \/ /\ mode = "settle run" /\ mode' # "settle run"
            /\ run' = run \/ (run \in {"submitted", "running"} /\ run' = "lost")
            /\ UNCHANGED <<use, task>>
         \/ /\ task' = task \/ task' \in {"suspended", "failed"}
            /\ UNCHANGED <<run, use>> /\ mode' # "settle run"
  BY DEF Boot, BootLoad, BootSettleUse, BootSettleRun, BootSettleTask, Booting, ledger,
         outside, threads
<1>2. \A w \in Worker : pc[w] = "idle" /\ pc'[w] = "idle" /\ ~Active(w)
  BY <1>1 DEF IInv, ExecTypeOK, Active
<1>3. ExecTypeOK'
  BY <1>1, ThreadsKept, TypesKept DEF threads
<1>4. Fresh' /\ OneExecutes' /\ Phases'
  <2>1. OneExecutes' /\ Phases' /\ \A w \in Worker : ~Active(w)'
    BY <1>2, NoneExecute
  <2> QED
    BY <1>1, <2>1 DEF IInv, Fresh, Safe, ExecTypeOK
<1>5. Unstarted' /\ UseClosedFirst'
  BY <1>1 DEF IInv, Unstarted, UseClosedFirst
<1>6. Safe'
  BY <1>1 DEF IInv, Safe, DispatchedOnce, RequestsRecorded, OpenUseFindable, ResultSupported,
              ToolsClosed, UseClosedFirst
<1> QED
  BY <1>3, <1>4, <1>5, <1>6 DEF IInv

(* Every step keeps the invariant. *)
LEMMA NextIInv == IInv /\ [Next]_vars => IInv'
<1> SUFFICES ASSUME IInv, [Next]_vars PROVE IInv'
  OBVIOUS
<1>1. ASSUME NEW w \in Worker, Execute(w) PROVE IInv'
  BY <1>1, AdmitStep, LoadRunStep, PlanTaskStep, StartTaskStep, IssueToolsStep, StartRunStep,
     ReserveUseStep, DispatchStep, RecordRequestStep, SendStep, ReceiveStep, CloseToolsStep,
     AbandonStep, CompleteStep, WriteReceiptStep, RaiseStep DEF Execute
<1>2. CASE UNCHANGED vars
  <2> USE <1>2 DEF vars, ledger, outside, threads, service
  <2>1. ExecTypeOK'
    BY ThreadsKept, TypesKept
  <2>2. Fresh' /\ OneExecutes' /\ Unstarted' /\ UseClosedFirst'
    BY DEF IInv, Fresh, OneExecutes, Active, Unstarted, UseClosedFirst
  <2>3. Phases'
    BY DEF IInv, Phases, RunAt, DoneAt
  <2>4. Safe'
    BY DEF IInv, Safe, DispatchedOnce, RequestsRecorded, OpenUseFindable, ResultSupported,
           ToolsClosed
  <2> QED
    BY <2>1, <2>2, <2>3, <2>4 DEF IInv
<1> QED
  BY <1>1, <1>2, SubmitStep, OperatorStep, CrashStep, BootStep DEF Next
-----------------------------------------------------------------------------
LEMMA SpecIInv == Spec => []IInv
  BY InitIInv, NextIInv, PTL DEF Spec

(* The variables of an execution keep their types, and a thread has a      *)
(* command exactly while it is in a call (handle_conn).                    *)
THEOREM ExecTypeOKTheorem == Spec => []ExecTypeOK
<1>1. IInv => ExecTypeOK
  BY DEF IInv
<1> QED
  BY <1>1, SpecIInv, PTL

(* One approval buys one dispatch, for any number of threads and commands  *)
(* (admit_approved_model_execution and its caller).                        *)
THEOREM DispatchedOnceTheorem == Spec => []DispatchedOnce
<1>1. IInv => DispatchedOnce
  BY DEF IInv, Safe
<1> QED
  BY <1>1, SpecIInv, PTL

(* No request leaves uncounted, and no more than the human approved are    *)
(* counted (record_driver_dispatch_boundary, _post_json).                  *)
THEOREM RequestsRecordedTheorem == Spec => []RequestsRecorded
<1>1. IInv => RequestsRecorded
  BY DEF IInv, Safe
<1> QED
  BY <1>1, SpecIInv, PTL

(* A run is called failed only if nothing was dispatched for it            *)
(* (_reconcile_stranded_driver_runs).                                      *)
THEOREM FailedMeansUndispatchedTheorem == Spec => []FailedMeansUndispatched
<1>1. IInv => FailedMeansUndispatched
  BY DEF IInv, Unstarted, FailedMeansUndispatched
<1> QED
  BY <1>1, SpecIInv, PTL

(* An open use belongs to a run that recovery visits, or that the operator *)
(* cancelled (finalize_use in the execution and in recovery).              *)
THEOREM OpenUseFindableTheorem == Spec => []OpenUseFindable
<1>1. IInv => OpenUseFindable
  BY DEF IInv, Safe
<1> QED
  BY <1>1, SpecIInv, PTL

(* A reported result has a claim, a completed run and a spent use, and a   *)
(* completed run has its model's tools closed (_execute_approved_hermes).  *)
THEOREM ResultSupportedTheorem == Spec => []ResultSupported
<1>1. IInv => ResultSupported
  BY DEF IInv, Safe
<1> QED
  BY <1>1, SpecIInv, PTL
=============================================================================
