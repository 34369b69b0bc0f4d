----------------------------- MODULE ToolBroker -----------------------------
(***************************************************************************)
(* capt_runtime/tool_broker.py: execute() carries a consequential tool     *)
(* request from its durable ToolExecution through lease check, use         *)
(* reservation, external effect and settlement; reconcile_stranded() runs  *)
(* alone at the start of the service, after a crash.                       *)
(*                                                                         *)
(* Composes Capability, whose one grant all executions spend, with the     *)
(* store: every service call is two steps, the read of versions and states *)
(* and the commit, between which other threads commit.  A commit whose     *)
(* idempotency key is known is answered with the recorded result and       *)
(* changes nothing; one whose streams moved raises ConcurrencyConflict.    *)
(*                                                                         *)
(* An execution x has the reservation x.  Requests of one idempotency key  *)
(* carry one fingerprint and one identity.  The adapter is external.       *)
(***************************************************************************)
EXTENDS Capability

CONSTANTS
  Worker,            \* threads that call execute()
  Boot,              \* the thread that starts the service
  RequestOperation,  \* the operation the requests are for
  CapStream,         \* the stream of the grant
  SharedTask,        \* may a DriverRun have the mission and task of the lease?
  Resend,            \* may a request be sent again while it is running?
  MaxCrashes         \* bound on crashes of the service

Actor == Worker \cup {Boot}
Execution == Reservation
Stream == Execution \cup {CapStream}

ASSUME BrokerAssumption ==
  /\ Boot \notin Worker /\ CapStream \notin Execution
  /\ None \notin Execution /\ \A S \in SUBSET Stream : None \notin [S -> Nat]
  /\ RequestOperation \in Operation
  /\ SharedTask \in BOOLEAN /\ Resend \in BOOLEAN /\ MaxCrashes \in Nat

TerminalStates == {"completed", "failed", "cancelled", "indeterminate"}
Crossed == {"dispatching", "effect_observed", "settling"}

(* aggregates/tool_execution.py, TRANSITIONS; nothing leaves a terminal state. *)
Transitions ==
  [prepared |-> {"admitted", "failed", "cancelled"},
   admitted |-> {"dispatching", "failed", "cancelled"},
   dispatching |-> {"effect_observed", "settling", "failed", "cancelled", "indeterminate"},
   effect_observed |-> {"settling", "failed", "cancelled", "indeterminate"},
   settling |-> {"completed", "failed", "cancelled", "indeterminate"}]

VARIABLES
  tool,        \* tool[x]: state of the ToolExecution, or "absent"
  toolRes,     \* does it carry its reservationId?
  toolResult,  \* the status of its durable ToolResult
  ver,         \* aggregate versions of all streams
  invoked,     \* invoked[x]: calls of the adapter made for x
  pc, cur,     \* each actor's place in execute() and its execution
  copy,        \* the execution as execute() loaded or built it
  seen,        \* versions read by the service call in progress, or None
  stage,       \* key stage of the next settlement
  result,      \* status of the ToolResult in hand
  mode,        \* "up", "runs" and "boot" while driver runs and tools recover
  todo,        \* executions it has not looked at yet
  crashes

toolVars == <<tool, toolRes, toolResult>>
capState == <<leaseVars, useVars>>
durable == <<toolVars, ver, capState, known>>
local == <<pc, cur, copy, seen, stage, result>>
service == <<mode, todo, crashes>>
vars == <<durable, local, service, invoked, now, issues>>

Fresh == [state |-> "prepared", res |-> FALSE]

(* The lease is active; versions count issue_grant and activate_lease.     *)
Init ==
  /\ grantState = "leased" /\ leaseState = "active" /\ revoked = FALSE
  /\ \E l \in Leases : Narrows(l) /\ lease = l
  /\ used = 0
  /\ reservation = [x \in Execution |-> "none"]
  /\ reservedFor = [x \in Execution |-> None]
  /\ consumptions = <<>>
  /\ known = {} /\ now = 0 /\ issues = 1
  /\ tool = [x \in Execution |-> "absent"]
  /\ toolRes = [x \in Execution |-> FALSE]
  /\ toolResult = [x \in Execution |-> "none"]
  /\ ver = [s \in Stream |-> IF s = CapStream THEN 2 ELSE 0]
  /\ invoked = [x \in Execution |-> 0]
  /\ pc = [w \in Actor |-> "idle"]
  /\ cur = [w \in Actor |-> None]
  /\ copy = [w \in Actor |-> Fresh]
  /\ seen = [w \in Actor |-> None]
  /\ stage = [w \in Actor |-> "none"]
  /\ result = [w \in Actor |-> "none"]
  /\ mode = "up" /\ todo = {} /\ crashes = 0
-----------------------------------------------------------------------------
Goto(w, label) ==
  /\ pc' = [pc EXCEPT ![w] = label]
  /\ seen' = [seen EXCEPT ![w] = None]

Proceed(w, label) == Goto(w, label) /\ UNCHANGED <<cur, copy, stage, result>>

ProceedWith(w, label, status) ==
  /\ Goto(w, label)
  /\ result' = [result EXCEPT ![w] = status]
  /\ UNCHANGED <<cur, copy, stage>>

(* execute() returns, or an exception leaves it. *)
Return(w) ==
  /\ Goto(w, "idle")
  /\ cur' = [cur EXCEPT ![w] = None]
  /\ copy' = [copy EXCEPT ![w] = Fresh]
  /\ stage' = [stage EXCEPT ![w] = "none"]
  /\ result' = [result EXCEPT ![w] = "none"]

Current(w) == \A s \in DOMAIN seen[w] : seen[w][s] = ver[s]

(* One call of a service: key stage, the streams it appends to, whether it *)
(* looks its key up before reading, what makes it legal on the states it   *)
(* read, what it writes, and where the caller is after it returns or       *)
(* raises.  commit_command answers a known key whatever was read.          *)
Call(w, key, streams, prechecked, legal, write, done, raised) ==
  LET isKnown == <<cur[w], key>> \in known IN
  \/ /\ seen[w] = None /\ ~(prechecked /\ isKnown) /\ legal
     /\ seen' = [seen EXCEPT ![w] = [s \in streams |-> ver[s]]]
     /\ UNCHANGED <<durable, pc, cur, copy, stage, result>>
  \/ /\ seen[w] = None /\ ~(prechecked /\ isKnown) /\ ~legal
     /\ raised /\ UNCHANGED durable
  \/ /\ isKnown /\ (prechecked \/ seen[w] # None)
     /\ done /\ UNCHANGED durable
  \/ /\ seen[w] # None /\ ~isKnown /\ ~Current(w)
     /\ raised /\ UNCHANGED durable
  \/ /\ seen[w] # None /\ ~isKnown /\ Current(w)
     /\ write
     /\ ver' = [s \in Stream |-> IF s \in streams THEN ver[s] + 1 ELSE ver[s]]
     /\ known' = known \cup {<<cur[w], key>>}
     /\ done

CanMove(x, to) == tool[x] \in DOMAIN Transitions /\ to \in Transitions[tool[x]]

SetTool(x, state, res, status) ==
  /\ tool' = [tool EXCEPT ![x] = state]
  /\ toolRes' = [toolRes EXCEPT ![x] = res]
  /\ toolResult' = [toolResult EXCEPT ![x] = status]

(* transition_tool_execution: no look-up of its key before it reads. *)
Transition(w, to, res, status, done, raised) ==
  Call(w, to, {cur[w]}, FALSE, CanMove(cur[w], to),
       SetTool(cur[w], to, res, status) /\ UNCHANGED capState, done, raised)
-----------------------------------------------------------------------------
\* States execute() carries on from; every other one is replayed or raises.
Resumable(x) == tool[x] \in {"prepared", "admitted"}

(* execute() is called and loads the execution. *)
Submit(w, x) ==
  /\ mode = "up" /\ pc[w] = "idle"
  /\ Resend \/ \A v \in Worker : cur[v] # x
  /\ tool[x] = "absent" \/ Resumable(x)
  /\ cur' = [cur EXCEPT ![w] = x]
  /\ Goto(w, IF tool[x] = "absent" THEN "prepare" ELSE "lease")
  /\ copy' = [copy EXCEPT ![w] =
       IF tool[x] = "absent" THEN Fresh ELSE [state |-> tool[x], res |-> toolRes[x]]]
  /\ UNCHANGED <<durable, stage, result>>

Prepare(w) ==
  /\ pc[w] = "prepare"
  /\ Call(w, "prepared", {cur[w]}, FALSE, TRUE,
          SetTool(cur[w], "prepared", FALSE, "none") /\ UNCHANGED capState,
          Proceed(w, "lease"), Return(w))

Deny(w, key) ==
  /\ Goto(w, "refuse")
  /\ stage' = [stage EXCEPT ![w] = key]
  /\ result' = [result EXCEPT ![w] = "denied"]
  /\ UNCHANGED <<cur, copy>>

(* The request is refused for itself (intent expired, commitment mismatch), *)
(* or check_lease denies it on the state of the moment.                     *)
CheckRequest(w) ==
  /\ pc[w] = "lease"
  /\ \/ Deny(w, "expiry-predispatch-settle")
     \/ ~CheckLease(RequestOperation, now) /\ Deny(w, "deny-predispatch-settle")
     \/ CheckLease(RequestOperation, now) /\ Proceed(w, "preflight")
  /\ UNCHANGED durable

\* _settle_predispatch_terminal: the recorded reservation, or an orphan one.
HoldsReservation(w) ==
  copy[w].res \/ (copy[w].state = "prepared" /\ reservation[cur[w]] = "open")

Refuse(w) ==
  /\ pc[w] = "refuse"
  /\ Proceed(w, IF HoldsReservation(w) THEN "close" ELSE "fail")
  /\ UNCHANGED durable

(* settle_predispatch_tool_execution: one commit for both aggregates. *)
Close(w) ==
  /\ pc[w] = "close"
  /\ Call(w, stage[w], {cur[w], CapStream}, TRUE,
          Resumable(cur[w]) /\ CanFinalize(cur[w]),
          Finalize(cur[w], "failed") /\ SetTool(cur[w], "failed", TRUE, result[w]),
          Return(w), Return(w))

Fail(w) ==
  /\ pc[w] = "fail"
  /\ Transition(w, "failed", toolRes[cur[w]], result[w], Return(w), Return(w))

(* An execution that is still prepared goes through the adapter's preflight. *)
Preflight(w) ==
  /\ pc[w] = "preflight"
  /\ \/ /\ copy[w].state = "prepared"
        /\ \E status \in {"denied", "failed"} : ProceedWith(w, "fail", status)
     \/ Proceed(w, IF copy[w].res THEN "dispatch" ELSE "reserve")
  /\ UNCHANGED durable
-----------------------------------------------------------------------------
\* Mutant: a refused reservation is ignored.
ReserveForUse_Swallowed(w) ==
  /\ pc[w] = "reserve"
  /\ Call(w, "reserve-capability", {CapStream}, TRUE,
          CanReserve(cur[w], RequestOperation, now),
          Reserve(cur[w], RequestOperation, now) /\ UNCHANGED toolVars,
          Proceed(w, "admit"), Proceed(w, "admit"))

ReserveForUse(w) ==
  /\ pc[w] = "reserve"
  /\ Call(w, "reserve-capability", {CapStream}, TRUE,
          CanReserve(cur[w], RequestOperation, now),
          Reserve(cur[w], RequestOperation, now) /\ UNCHANGED toolVars,
          Proceed(w, "admit"), Return(w))

Admit(w) ==
  /\ pc[w] = "admit"
  /\ Transition(w, "admitted", TRUE, "none", Proceed(w, "dispatch"), Return(w))

\* Mutant: the adapter is called before the execution is marked dispatching.
Dispatch_Unrecorded(w) ==
  /\ pc[w] = "dispatch"
  /\ Proceed(w, "effect")
  /\ UNCHANGED durable

Dispatch(w) ==
  /\ pc[w] = "dispatch"
  /\ Transition(w, "dispatching", toolRes[cur[w]], "none", Proceed(w, "effect"), Return(w))

(* The adapter publishes a side-effect identity first, or returns a result; *)
(* an exception or a result that does not verify is indeterminate.          *)
AdapterStatus == {"succeeded", "failed", "indeterminate", "denied"}

Effect(w) ==
  /\ pc[w] = "effect"
  /\ invoked' = [invoked EXCEPT ![cur[w]] = @ + 1]
  /\ \/ Proceed(w, "observe")
     \/ \E status \in AdapterStatus : ProceedWith(w, "finalize", status)
  /\ UNCHANGED durable

ObserveEffect(w) ==
  /\ pc[w] = "observe"
  /\ Transition(w, "effect_observed", toolRes[cur[w]], "none",
                Proceed(w, "return"), ProceedWith(w, "finalize", "indeterminate"))

AdapterReturns(w) ==
  /\ pc[w] = "return"
  /\ \E status \in AdapterStatus : ProceedWith(w, "finalize", status)
  /\ UNCHANGED durable

\* The key stage execute() finalizes under, or the one recovery chose.
FinalizeKey(w) == IF w = Boot THEN stage[w] ELSE "finalize-capability"

(* Recovery of an execution already settling goes straight to its end. *)
Settlement(w) ==
  IF result[w] = "indeterminate" \/ (w = Boot /\ tool[cur[w]] = "settling")
  THEN "terminal" ELSE "settling"

(* The outcome a status is consumed with. *)
Consumed(status) == IF status \in Counted THEN status ELSE "failed"

\* Mutant: the exception of finalize_use is logged and the result kept.
FinalizeRaised_KeepResult(w) == Proceed(w, Settlement(w))

(* An exception of finalize_use makes the result indeterminate.            *)
FinalizeRaised(w) == ProceedWith(w, "terminal", "indeterminate")

SettleUse(w) ==
  /\ pc[w] = "finalize"
  /\ Call(w, FinalizeKey(w), {CapStream}, TRUE, CanFinalize(cur[w]),
          Finalize(cur[w], Consumed(result[w])) /\ UNCHANGED toolVars,
          Proceed(w, Settlement(w)), FinalizeRaised(w))

Settling(w) ==
  /\ pc[w] = "settling"
  /\ Transition(w, "settling", toolRes[cur[w]], result[w],
                Proceed(w, "terminal"), Return(w))

TerminalState(status) ==
  CASE status = "succeeded" -> "completed"
    [] status = "indeterminate" -> "indeterminate"
    [] OTHER -> "failed"

Terminate(w) ==
  /\ pc[w] = "terminal"
  /\ Transition(w, TerminalState(result[w]), toolRes[cur[w]], result[w],
                Return(w), Return(w))
-----------------------------------------------------------------------------
(* The whole service dies and is started again, with a driver run of that  *)
(* task to recover (submitted, running, suspended, completed) or none.     *)
Crash ==
  /\ crashes < MaxCrashes /\ crashes' = crashes + 1
  /\ \/ mode' = "boot"
     \/ SharedTask /\ mode' = "runs"
  /\ todo' = {x \in Execution : tool[x] # "absent"}
  /\ pc' = [w \in Actor |-> "idle"]
  /\ cur' = [w \in Actor |-> None]
  /\ copy' = [w \in Actor |-> Fresh]
  /\ seen' = [w \in Actor |-> None]
  /\ stage' = [w \in Actor |-> "none"]
  /\ result' = [w \in Actor |-> "none"]
  /\ UNCHANGED <<durable, invoked, now, issues>>

(* _reconcile_stranded_driver_runs comes first, and settles whatever open    *)
(* reservation it finds on a lease of the run's mission and task.  Nobody    *)
(* else is running; a "completed" run is visited at every start.            *)
RecoverRun(x) ==
  /\ mode = "runs" /\ CanFinalize(x)
  /\ Finalize(x, "indeterminate")
  /\ ver' = [ver EXCEPT ![CapStream] = @ + 1]
  /\ known' = known \cup {<<x, "recover-run">>}
  /\ UNCHANGED <<toolVars, local, service, invoked, now, issues>>

RunsRecovered ==
  /\ mode = "runs" /\ \A x \in Execution : ~CanFinalize(x)
  /\ mode' = "boot"
  /\ UNCHANGED <<durable, local, todo, crashes, invoked, now, issues>>

Recover(x, label, key, status) ==
  /\ cur' = [cur EXCEPT ![Boot] = x]
  /\ Goto(Boot, label)
  /\ stage' = [stage EXCEPT ![Boot] = key]
  /\ result' = [result EXCEPT ![Boot] = status]
  /\ UNCHANGED copy

\* Mutant: recovery only looks at executions whose effect was observed.
Stranded_Observed == Crossed \ {"dispatching"}

Stranded == Crossed

\* Mutant: a prepared execution is taken to hold nothing.
Orphan_None(x) == FALSE

\* The reservation was committed and the admission was not.
Orphan(x) == tool[x] = "prepared" /\ reservation[x] = "open"

(* An orphan reservation is closed with its execution; a crossed effect     *)
(* boundary is settled as succeeded when the target proves the effect, as   *)
(* indeterminate when it does not or its tool is no longer registered.      *)
Reconcile(x) ==
  /\ mode = "boot" /\ pc[Boot] = "idle" /\ x \in todo
  /\ todo' = todo \ {x}
  /\ \/ /\ Orphan(x)
        /\ Recover(x, "close", "recover-predispatch-settle", "failed")
     \/ /\ tool[x] \in Stranded
        /\ \/ invoked[x] > 0 /\ Recover(x, "finalize", "reconcile-capability", "succeeded")
           \/ Recover(x, "finalize", "reconcile-capability", "indeterminate")
           \/ Recover(x, "finalize", "missing-tool-capability", "indeterminate")
     \/ ~Orphan(x) /\ tool[x] \notin Stranded /\ UNCHANGED local
  /\ UNCHANGED <<durable, mode, crashes, invoked, now, issues>>

Serve ==
  /\ mode = "boot" /\ pc[Boot] = "idle" /\ todo = {}
  /\ mode' = "up"
  /\ UNCHANGED <<durable, local, todo, crashes, invoked, now, issues>>

(* The operator revokes the grant through the running service. *)
RevokeGrant ==
  /\ mode = "up"
  /\ Revoke("grant")
  /\ ver' = [ver EXCEPT ![CapStream] = @ + 1]
  /\ UNCHANGED <<toolVars, local, service, invoked>>
-----------------------------------------------------------------------------
Settle(w) == Close(w) \/ SettleUse(w) \/ Settling(w) \/ Terminate(w)

Execute(w) ==
  \/ /\ \/ Prepare(w) \/ CheckRequest(w) \/ Refuse(w) \/ Fail(w) \/ Preflight(w)
        \/ ReserveForUse(w) \/ Admit(w) \/ Dispatch(w)
        \/ ObserveEffect(w) \/ AdapterReturns(w) \/ Settle(w)
     /\ UNCHANGED <<service, invoked, now, issues>>
  \/ Effect(w) /\ UNCHANGED <<service, now, issues>>

Recovery ==
  \/ Settle(Boot) /\ UNCHANGED <<service, invoked, now, issues>>
  \/ \E x \in Execution : RecoverRun(x) \/ Reconcile(x)
  \/ RunsRecovered
  \/ Serve

Next ==
  \/ \E w \in Worker :
       \/ \E x \in Execution :
            Submit(w, x) /\ UNCHANGED <<service, invoked, now, issues>>
       \/ Execute(w)
  \/ Recovery
  \/ Crash
  \/ RevokeGrant

Spec == Init /\ [][Next]_vars

(* Running threads are scheduled, and a started service finishes starting. *)
Fairness == WF_vars(Recovery) /\ \A w \in Worker : WF_vars(Execute(w))
FairSpec == Spec /\ Fairness
-----------------------------------------------------------------------------
Label == {"idle", "prepare", "lease", "refuse", "close", "fail", "preflight", "reserve",
          "admit", "dispatch", "effect", "observe", "return", "finalize", "settling",
          "terminal"}
ResultStatus == {"none"} \cup AdapterStatus
KeyStage ==
  Stage \cup DOMAIN Transitions \cup TerminalStates \cup
  {"none", "recover-run", "missing-tool-capability", "expiry-predispatch-settle",
   "deny-predispatch-settle", "recover-predispatch-settle"}

(* What a call has read: versions of the streams it appends to. *)
SeenTypeOK ==
  /\ seen = [w \in Actor |-> seen[w]]
  /\ \A w \in Actor :
       seen[w] # None => \E S \in SUBSET Stream : seen[w] \in [S -> Nat]

(* Types; between its calls an actor is nowhere, and recovery and clients   *)
(* never run at the same time.                                              *)
TypeOK ==
  /\ tool \in [Execution -> DOMAIN Transitions \cup TerminalStates \cup {"absent"}]
  /\ toolRes \in [Execution -> BOOLEAN]
  /\ toolResult \in [Execution -> ResultStatus]
  /\ ver \in [Stream -> Nat]
  /\ invoked \in [Execution -> Nat]
  /\ reservation \in [Execution -> ReservationState]
  /\ known \subseteq Execution \X KeyStage
  /\ pc \in [Actor -> Label] /\ cur \in [Actor -> Execution \cup {None}]
  /\ \A w \in Actor : pc[w] = "idle" <=> cur[w] = None
  /\ copy \in [Actor -> [state : {"prepared", "admitted"}, res : BOOLEAN]]
  /\ SeenTypeOK
  /\ stage \in [Actor -> KeyStage] /\ result \in [Actor -> ResultStatus]
  /\ mode \in {"up", "runs", "boot"} /\ todo \subseteq Execution /\ crashes \in Nat
  /\ \A w \in Actor : pc[w] # "idle" => mode = (IF w = Boot THEN "boot" ELSE "up")

Running(x) == \E w \in Worker : cur[w] = x

(* The adapter is called at most once for one idempotency key, through      *)
(* crashes at any step, resumption and recovery (execute, "never blindly    *)
(* redispatch"; ADR-0108, "do not re-execute").                             *)
InvokedAtMostOnce == \A x \in Execution : invoked[x] <= 1

(* Recovery of a driver run settled x's reservation.                        *)
RunSettled(x) == <<x, "recover-run">> \in known

(* From its first step across the dispatch boundary until it settles its    *)
(* use, an execution holds an open reservation of its own, or one that      *)
(* recovery of a driver run counted as used: the effect never runs on a     *)
(* free use, nor on authority somebody else could have settled as failed    *)
(* (reserve_use before dispatch, reconcile_stranded closing orphans).       *)
AtEffect(w) == pc[w] \in {"dispatch", "effect", "observe", "return"}

EffectHoldsReservation ==
  \A w \in Worker : AtEffect(w) =>
    reservation[cur[w]] = "open" \/ RunSettled(cur[w])

(* CapabilityReservation, "Created BEFORE the effect; finalized after".     *)
FinalizedAfterEffect ==
  \A w \in Worker : AtEffect(w) => reservation[cur[w]] = "open"

ConsumedAs(x, outcome) ==
  \E i \in DOMAIN consumptions : consumptions[i] = [reservation |-> x, outcome |-> outcome]

(* The two aggregates agree on how it ended: an execution is completed only *)
(* with its use counted (not always as "succeeded": a second recovery that  *)
(* finds the proof the first one missed is answered by the first one's key);*)
(* one that failed or was denied, by the broker or by its adapter, has used *)
(* up nothing: it reserved nothing, or its use was settled as failed, unless *)
(* recovery of a driver run had settled it before.                          *)
SettlementAgrees ==
  \A x \in Execution :
    /\ tool[x] = "completed" => \E o \in Counted : ConsumedAs(x, o)
    /\ tool[x] = "failed" => reservation[x] = "none" \/ ConsumedAs(x, "failed") \/ RunSettled(x)

(* Nothing is left half way: while the service is up, an execution past the *)
(* dispatch boundary has a thread working on it.  Exceptions of any service *)
(* call and crashes, also during recovery, end in a terminal state.         *)
NoneStranded ==
  mode = "up" => \A x \in Execution : tool[x] \in Crossed => Running(x)

(* No phantom authority: an open reservation nobody is working on belongs   *)
(* to an admitted execution, which a retry resumes, or to one recorded as   *)
(* indeterminate, whose settlement lost against another commit.             *)
NoPhantomReservation ==
  mode = "up" => \A x \in Execution :
    reservation[x] = "open" /\ ~Running(x) => tool[x] \in {"admitted", "indeterminate"}

(* Every execution that crossed the dispatch boundary reaches a terminal    *)
(* state, whatever its adapter answers and wherever the service crashes.    *)
CrossedIsSettled ==
  \A x \in Execution : tool[x] \in Crossed ~> tool[x] \in TerminalStates
=============================================================================
