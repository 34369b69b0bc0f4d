------------------------------ MODULE Mission ------------------------------
(***************************************************************************)
(* One mission of capt_runtime/services.py with its tasks, their human     *)
(* approvals, driver runs, claims and approved grants, and the reviewed    *)
(* disposition (dispose_mission) that settles them together.               *)
(*                                                                         *)
(* A command reads its streams one by one and commits under the versions   *)
(* it read; commands run on different threads.  Commands whose version is  *)
(* read before the state are one step here: a writer in between makes      *)
(* their commit fail.  A disposition is not: it reads each state first.    *)
(*                                                                         *)
(* Each task has one approval, for its model execution or (Capable) for a  *)
(* grant.  No task, approval, run or claim returns to a state it left, so  *)
(* its state stands for its version.  How an execution moves its task and  *)
(* its run is ModelExecution's subject; here each step asks no more of the *)
(* other than that order.  Expiry only refuses, and is left out.           *)
(***************************************************************************)
EXTENDS Naturals

CONSTANTS
  Task,
  Capable,     \* the tasks whose approval is for a capability
  Operator,    \* threads that serve dispositions
  MaxVersion   \* bound on the policy decisions of the mission

ASSUME MissionAssumption == Capable \subseteq Task /\ MaxVersion \in Nat

VARIABLES
  mission, version,
  task, approval, run, claim,
  decided,     \* tasks whose policy decision is recorded
  grant,
  planning,    \* tasks whose planner has seen the mission open
  work         \* the disposition each thread serves

streams == <<task, approval, run, claim>>
authority == <<decided, grant>>
threads == <<planning, work>>
vars == <<mission, version, streams, authority, threads>>

MissionFinal == {"completed", "failed", "cancelled"}
TaskFinal == {"succeeded", "failed", "cancelled"}
ApprovalOpen == {"requested", "approved"}
RunActive == {"created", "submitted", "running"}
Targets == {"authorize", "cancel", "cancel_revoke", "complete", "reconcile_complete"}

TaskMoves ==
  [absent |-> {}, pending |-> {"ready", "cancelled"}, ready |-> {"assigned", "cancelled"},
   assigned |-> {"running", "cancelled", "failed"},
   running |-> {"awaiting_verification", "suspended", "succeeded", "failed", "cancelled"},
   suspended |-> {"cancelled", "failed"},   \* an attempt is not repeated
   awaiting_verification |-> TaskFinal,
   succeeded |-> {}, failed |-> {}, cancelled |-> {}]

(* The moves of a run some caller makes: none suspends or reconciles one.  *)
RunMoves ==
  [absent |-> {}, created |-> {"submitted", "cancelled", "failed"},
   submitted |-> {"running", "lost", "cancelled", "failed"},
   running |-> {"completed", "lost", "cancelled"},
   lost |-> {}, completed |-> {}, failed |-> {}, cancelled |-> {}]

Idle == [target |-> "none", expected |-> 0, to |-> <<>>, at |-> <<>>]

(* A new ledger, or one in which an earlier version of the program left    *)
(* the mission executing and a task marked as running by hand.             *)
Init ==
  /\ \/ mission = "absent" /\ version = 0 /\ task = [t \in Task |-> "absent"]
     \/ /\ mission = "executing" /\ version = 1
        /\ \E m \in Capable : task = [t \in Task |-> IF t = m THEN "running" ELSE "absent"]
  /\ approval = [t \in Task |-> "absent"]
  /\ run = [t \in Task |-> "absent"]
  /\ claim = [t \in Task |-> "none"]
  /\ decided = {} /\ grant = [t \in Task |-> "none"]
  /\ planning = {} /\ work = [d \in Operator |-> Idle]
-----------------------------------------------------------------------------
MoveMission(to) == mission' = to /\ version' = version + 1

(* create_mission_with_approval, by the operator or by an execution whose  *)
(* mission does not exist.                                                 *)
CreateMission(t) ==
  /\ mission = "absent" /\ MoveMission("draft")
  /\ task' = [task EXCEPT ![t] = "pending"]
  /\ \/ t \in Capable /\ approval' = [approval EXCEPT ![t] = "requested"]
     \/ t \notin Capable /\ run[t] # "absent" /\ UNCHANGED approval
  /\ UNCHANGED <<run, claim, authority, threads>>

(* plan_task_for_existing_mission: the mission is read, and the task alone *)
(* is committed.                                                           *)
SeeMission(t) ==
  /\ mission \notin MissionFinal \cup {"absent"}
  /\ t \notin Capable /\ run[t] # "absent" /\ task[t] = "absent"
  /\ planning' = planning \cup {t}
  /\ UNCHANGED <<mission, version, streams, authority, work>>

PlanTask(t) ==
  /\ t \in planning /\ task[t] = "absent"
  /\ task' = [task EXCEPT ![t] = "pending"]
  /\ planning' = planning \ {t}
  /\ UNCHANGED <<mission, version, approval, run, claim, authority, work>>

(* request_human_approval does not read the mission.                       *)
RequestApproval(t) ==
  /\ t \notin Capable /\ approval[t] = "absent"
  /\ approval' = [approval EXCEPT ![t] = "requested"]
  /\ UNCHANGED <<mission, version, task, run, claim, authority, threads>>

DecideApproval(t) ==
  /\ approval[t] = "requested"
  /\ \E decision \in {"approved", "denied"} : approval' = [approval EXCEPT ![t] = decision]
  /\ UNCHANGED <<mission, version, task, run, claim, authority, threads>>

(* admit_approved_model_execution.                                         *)
Admit(t) ==
  /\ t \notin Capable /\ approval[t] = "approved"
  /\ approval' = [approval EXCEPT ![t] = "consumed"]
  /\ run' = [run EXCEPT ![t] = "created"]
  /\ UNCHANGED <<mission, version, task, claim, authority, threads>>

(* transition_task, by cancel_task, an execution or a start of the service. *)
MoveTask(t) ==
  /\ \E to \in TaskMoves[task[t]] :
       /\ \/ to = "cancelled"
          \/ to \in {"ready", "assigned", "running"} /\ run[t] # "absent"
          \/ to = "awaiting_verification" /\ claim[t] = "proposed"
          \/ to = "suspended" /\ run[t] \in {"lost", "completed"}
          \/ to = "failed" /\ run[t] \in {"failed", "completed"}
       /\ task' = [task EXCEPT ![t] = to]
  /\ UNCHANGED <<mission, version, approval, run, claim, authority, threads>>

MoveRun(t) ==
  /\ \E to \in RunMoves[run[t]] :
       /\ to = "submitted" => task[t] \notin {"absent", "pending", "ready", "assigned"}
       /\ run' = [run EXCEPT ![t] = to]
  /\ UNCHANGED <<mission, version, task, approval, claim, authority, threads>>

ProposeClaim(t) ==
  /\ run[t] = "completed" /\ claim[t] = "none"
  /\ claim' = [claim EXCEPT ![t] = "proposed"]
  /\ UNCHANGED <<mission, version, task, approval, run, authority, threads>>

(* review_claim_with_human_attestation: claim and task in one commit.      *)
ReviewClaim(t) ==
  /\ run[t] = "completed" /\ claim[t] = "proposed" /\ task[t] = "awaiting_verification"
  /\ \/ claim' = [claim EXCEPT ![t] = "accepted"] /\ task' = [task EXCEPT ![t] = "succeeded"]
     \/ claim' = [claim EXCEPT ![t] = "rejected"] /\ task' = [task EXCEPT ![t] = "failed"]
  /\ UNCHANGED <<mission, version, approval, run, authority, threads>>
-----------------------------------------------------------------------------
\* Mutant: a decision that allows authorizes the mission in any state.
EvaluatePolicy_Reopens(t) ==
  /\ mission # "absent" /\ version < MaxVersion
  /\ IF t \in Capable THEN approval[t] \in {"approved", "consumed", "revoked"} ELSE run[t] # "absent"
  /\ MoveMission("authorized")
  /\ decided' = decided \cup {t}
  /\ UNCHANGED <<streams, grant, threads>>

(* evaluate_policy, for an execution or for an approved capability; the    *)
(* caller looked at its approval before, and the mission may be over.      *)
EvaluatePolicy(t) ==
  /\ mission # "absent" /\ version < MaxVersion
  /\ IF t \in Capable THEN approval[t] \in {"approved", "consumed", "revoked"} ELSE run[t] # "absent"
  /\ MoveMission(IF mission = "draft" THEN "authorized" ELSE mission)
  /\ decided' = decided \cup {t}
  /\ UNCHANGED <<streams, grant, threads>>

(* issue_grant_from_human_approval and activate_lease: the second and the  *)
(* third commit of issue_approved_capability_authority.  A crash between   *)
(* them leaves them to a retry under the same key.                         *)
IssueGrant(t) ==
  /\ t \in Capable \cap decided /\ approval[t] = "approved" /\ grant[t] = "none"
  /\ approval' = [approval EXCEPT ![t] = "consumed"]
  /\ grant' = [grant EXCEPT ![t] = "granted"]
  /\ UNCHANGED <<mission, version, task, run, claim, decided, threads>>

ActivateLease(t) ==
  /\ grant[t] = "granted"
  /\ grant' = [grant EXCEPT ![t] = "leased"]
  /\ UNCHANGED <<mission, version, streams, decided, threads>>

(* reconcile_legacy_issue_task_marker, at the start of the service.        *)
AtStart == planning = {} /\ \A d \in Operator : work[d] = Idle

ReconcileTask(t) ==
  /\ AtStart /\ t \in Capable /\ run[t] = "absent" /\ task[t] = "running"
  /\ task' = [task EXCEPT ![t] = "suspended"]
  /\ UNCHANGED <<mission, version, approval, run, claim, authority, threads>>

ReconcileMission ==
  /\ AtStart /\ mission = "executing"
  /\ \E t \in Capable : task[t] = "suspended" /\ run[t] = "absent"
  /\ MoveMission("suspended")
  /\ UNCHANGED <<streams, authority, threads>>
-----------------------------------------------------------------------------
StateOf(s) == IF s[1] = "task" THEN task[s[2]] ELSE approval[s[2]]

(* The streams a disposition settles, with the state it leaves them in.    *)
Orphans(target) ==
  IF target \notin {"cancel", "cancel_revoke"} THEN {}
  ELSE {<<"task", t>> : t \in {u \in Task : task[u] \notin TaskFinal \cup {"absent"}}}
       \cup {<<"approval", t>> : t \in {u \in Task : approval[u] \in ApprovalOpen}}

Settlement(s) ==
  CASE s[1] = "task" -> "cancelled"
    [] StateOf(s) = "approved" -> "revoked"
    [] OTHER -> "denied"

\* Mutant: completion asks only that every task has ended.
Unblocked_Ended(target) ==
  /\ mission \notin MissionFinal \cup {"absent"}
  /\ target = "authorize" => mission = "draft"
  /\ target = "complete" => mission = "executing"
  /\ target = "reconcile_complete" => mission = "authorized"
  /\ target \in {"complete", "reconcile_complete"} =>
       /\ \A t \in Task : task[t] \in TaskFinal \cup {"absent"}
       /\ \A t \in Task : approval[t] \notin ApprovalOpen
  /\ target # "authorize" => \A t \in Task : run[t] \notin RunActive
  /\ target = "cancel" => \A t \in Task : approval[t] # "approved"

(* mission_disposition_preview raises no blocker.  A run that is lost is   *)
(* none: its reconciliation is recorded as "required", and the preview     *)
(* looks for "reconciliation_required".                                    *)
Unblocked(target) ==
  /\ mission \notin MissionFinal \cup {"absent"}
  /\ target = "authorize" => mission = "draft"
  /\ target = "complete" => mission = "executing"
  /\ target = "reconcile_complete" => mission = "authorized"
  /\ target \in {"complete", "reconcile_complete"} =>
       /\ \A t \in Task : task[t] \in TaskFinal \cup {"absent"}
       /\ \E t \in Task : task[t] = "succeeded" /\ claim[t] = "accepted"
       /\ \A t \in Task : approval[t] \notin ApprovalOpen
  /\ target # "authorize" => \A t \in Task : run[t] \notin RunActive
  /\ target = "cancel" => \A t \in Task : approval[t] # "approved"

(* dispose_mission takes a new preview and refuses unless it equals, with  *)
(* every version, the one the operator reviewed.  Two equal readings of    *)
(* versions that only grow show the streams as they were at one moment     *)
(* between the two: that moment is this step.                              *)
Preview(d, target) ==
  /\ work[d] = Idle /\ Unblocked(target)
  /\ work' = [work EXCEPT ![d] =
       [target |-> target, expected |-> version,
        to |-> [s \in Orphans(target) |-> Settlement(s)],
        at |-> [s \in Orphans(target) |-> "unread"]]]
  /\ UNCHANGED <<mission, version, streams, authority, planning>>

(* Streams are read one by one, tasks first.  What a disposition reads     *)
(* after its commit is bound to fail is left out.                          *)
Reading(d, s, mark) ==
  /\ work[d].at[s] = mark
  /\ version = work[d].expected
  /\ \A u \in DOMAIN work[d].at \ {s} :
       /\ work[d].at[u] \in {"unread", StateOf(u)}
       /\ work[d].at[u] = "unread" /\ u[1] = "task" => s[1] = "task"

Read(d, s, mark) ==
  /\ work' = [work EXCEPT ![d].at[s] = mark]
  /\ UNCHANGED <<mission, version, streams, authority, planning>>

\* Mutant: an approval that was decided since the preview is passed over.
ReadState_Skips(d, s) ==
  /\ Reading(d, s, "unread")
  /\ work[d].to[s] = "cancelled" => StateOf(s) \notin TaskFinal
  /\ work[d].to[s] = "revoked" => StateOf(s) = "approved"
  /\ IF work[d].to[s] = "denied" /\ StateOf(s) # "requested"
     THEN /\ work' = [work EXCEPT ![d].at[s] = StateOf(s), ![d].to[s] = StateOf(s)]
          /\ UNCHANGED <<mission, version, streams, authority, planning>>
     ELSE Read(d, s, "read")

(* A stream must still be fit for its settlement ...                       *)
ReadState(d, s) ==
  /\ Reading(d, s, "unread")
  /\ work[d].to[s] = "cancelled" => StateOf(s) \notin TaskFinal
  /\ work[d].to[s] = "denied" => StateOf(s) = "requested"
  /\ work[d].to[s] = "revoked" => StateOf(s) = "approved"
  /\ Read(d, s, "read")

(* ... and the version to commit under is read after its state.            *)
ReadVersion(d, s) == Reading(d, s, "read") /\ Read(d, s, StateOf(s))

Outcome(target) ==
  CASE target = "authorize" -> "authorized"
    [] target \in {"cancel", "cancel_revoke"} -> "cancelled"
    [] OTHER -> "completed"

Settled(d, kind, now) ==
  [t \in Task |-> IF <<kind, t>> \in DOMAIN work[d].to THEN work[d].to[<<kind, t>>] ELSE now[t]]

(* The commit: mission and orphans, each under its version.                *)
Dispose(d) ==
  /\ work[d] # Idle /\ version = work[d].expected
  /\ \A s \in DOMAIN work[d].at : work[d].at[s] = StateOf(s)
  /\ mission' = Outcome(work[d].target)
  /\ version' = version + IF work[d].target = "reconcile_complete" THEN 2 ELSE 1
  /\ task' = Settled(d, "task", task)
  /\ approval' = Settled(d, "approval", approval)
  /\ work' = [work EXCEPT ![d] = Idle]
  /\ UNCHANGED <<run, claim, authority, planning>>

(* A read or the commit raises, or the service stops.                      *)
Refuse(d) ==
  /\ work[d] # Idle
  /\ work' = [work EXCEPT ![d] = Idle]
  /\ UNCHANGED <<mission, version, streams, authority, planning>>

TaskNext(t) ==
  \/ CreateMission(t) \/ SeeMission(t) \/ PlanTask(t)
  \/ RequestApproval(t) \/ DecideApproval(t) \/ Admit(t)
  \/ MoveTask(t) \/ MoveRun(t) \/ ProposeClaim(t) \/ ReviewClaim(t)
  \/ EvaluatePolicy(t) \/ IssueGrant(t) \/ ActivateLease(t) \/ ReconcileTask(t)

OperatorNext(d) ==
  \/ \E target \in Targets : Preview(d, target)
  \/ \E s \in DOMAIN work[d].at : ReadState(d, s) \/ ReadVersion(d, s)
  \/ Dispose(d) \/ Refuse(d)

Next ==
  \/ \E t \in Task : TaskNext(t)
  \/ \E d \in Operator : OperatorNext(d)
  \/ ReconcileMission

Spec == Init /\ [][Next]_vars
-----------------------------------------------------------------------------
(* A mission is completed on an accepted claim of a task that succeeded,   *)
(* though tasks, claims and dispositions move on while the completion is   *)
(* between its preview and its commit.                                     *)
CompletedIsEarned ==
  mission = "completed" => \E t \in Task : task[t] = "succeeded" /\ claim[t] = "accepted"

(* A cancelled mission leaves nothing open of what it was created with: no *)
(* task to be run and no approval to be used, whoever moved them while the *)
(* cancellation read them.                                                 *)
SettledTogether ==
  mission = "cancelled" =>
    \A t \in Capable : task[t] \in TaskFinal \cup {"absent"} /\ approval[t] \notin ApprovalOpen

(* Of two dispositions in progress only one commits: what a mission ended  *)
(* as, it stays, though policy decisions may still be recorded for it.     *)
MissionStays == [][(mission \in MissionFinal) => (mission' = mission)]_vars

(* The preview is "bound to the exact states that would be mutated": an    *)
(* approval that was consumed stays consumed.                              *)
ConsumedStays ==
  [][\A t \in Task : approval[t] = "consumed" => approval'[t] = "consumed"]_vars
=============================================================================
