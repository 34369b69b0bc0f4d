--------------------------- MODULE Mission_proofs ---------------------------
(***************************************************************************)
(* Proofs about Mission, for any number of tasks, of concurrent            *)
(* dispositions and of policy decisions.                                   *)
(***************************************************************************)
EXTENDS Mission, TLAPS

TaskState == {"absent", "pending", "ready", "assigned", "running", "suspended",
              "awaiting_verification", "succeeded", "failed", "cancelled"}
ApprovalState == {"absent", "requested", "approved", "denied", "revoked", "consumed"}
ClaimState == {"none", "proposed", "accepted", "rejected"}

Types ==
  /\ version \in Nat
  /\ task \in [Task -> TaskState] /\ approval \in [Task -> ApprovalState]
  /\ claim \in [Task -> ClaimState]
  /\ planning \subseteq Task \ Capable
  /\ work = [d \in Operator |-> work[d]]
  /\ \A d \in Operator : /\ DOMAIN work[d] = {"target", "expected", "to", "at"}
                         /\ work[d].expected \in Nat
                         /\ work[d] = Idle \/ work[d].target \in Targets

Earned == \E t \in Task : task[t] = "succeeded" /\ claim[t] = "accepted"

TaskClosed(t) == task[t] \in TaskFinal \cup {"absent"}
ApprovalClosed(t) == approval[t] \notin ApprovalOpen

(* A disposition works on the mission as it is, or on an older version,    *)
(* and never on one that is over.                                          *)
WorksOnOpen ==
  \A d \in Operator : work[d] # Idle =>
    /\ mission # "absent" /\ work[d].expected <= version
    /\ mission \in MissionFinal => work[d].expected < version

(* Until the mission changes, a completion stays earned.                   *)
CompletionEarned ==
  \A d \in Operator :
    work[d].target \in {"complete", "reconcile_complete"} /\ version = work[d].expected => Earned

(* A settlement closes what it names; what a cancellation does not name is *)
(* closed already.                                                         *)
SettlesAll ==
  \A d \in Operator : work[d] # Idle =>
    /\ \A t \in Task :
         /\ <<"task", t>> \in DOMAIN work[d].to => work[d].to[<<"task", t>>] = "cancelled"
         /\ <<"approval", t>> \in DOMAIN work[d].to =>
              work[d].to[<<"approval", t>>] \in {"denied", "revoked"}
    /\ work[d].target \notin {"cancel", "cancel_revoke"} => DOMAIN work[d].to = {}
    /\ work[d].target \in {"cancel", "cancel_revoke"} =>
         \A t \in Capable : /\ <<"task", t>> \notin DOMAIN work[d].to => TaskClosed(t)
                            /\ <<"approval", t>> \notin DOMAIN work[d].to => ApprovalClosed(t)

IInv ==
  /\ Types /\ WorksOnOpen /\ CompletionEarned /\ SettlesAll
  /\ CompletedIsEarned /\ SettledTogether
-----------------------------------------------------------------------------
LEMMA IdleShape ==
  /\ DOMAIN Idle = {"target", "expected", "to", "at"}
  /\ Idle.expected = 0 /\ Idle.target = "none"
  BY DEF Idle

(* The initial states satisfy the invariant. *)
LEMMA InitIInv == Init => IInv
<1> SUFFICES ASSUME Init PROVE IInv
  OBVIOUS
<1>1. \A d \in Operator : work[d] = Idle
  BY DEF Init
<1>2. Types
  <2>1. task \in [Task -> TaskState] /\ version \in Nat
    BY MissionAssumption DEF Init, TaskState
  <2>2. approval \in [Task -> ApprovalState] /\ claim \in [Task -> ClaimState]
    BY DEF Init, ApprovalState, ClaimState
  <2>3. work = [d \in Operator |-> work[d]] /\ planning = {}
    BY DEF Init
  <2> QED
    BY <1>1, <2>1, <2>2, <2>3, IdleShape DEF Types
<1>3. WorksOnOpen /\ SettlesAll
  BY <1>1 DEF WorksOnOpen, SettlesAll
<1>4. CompletionEarned
  BY <1>1, IdleShape DEF CompletionEarned
<1>5. mission \in {"absent", "executing"}
  BY DEF Init
<1> QED
  BY <1>2, <1>3, <1>4, <1>5 DEF IInv, CompletedIsEarned, SettledTogether

(* A task or an approval that is closed does not move. *)
LEMMA FinalStays ==
  ASSUME NEW x \in TaskFinal \cup {"absent"}
  PROVE  TaskMoves[x] = {}
  BY DEF TaskFinal, TaskMoves

(* A step that changes no disposition, settles nothing and keeps what is   *)
(* earned and what is closed keeps the invariant.                          *)
LEMMA QuietStep ==
  ASSUME IInv, Types', UNCHANGED work,
         version' >= version, version' = version => mission' = mission,
         mission \in MissionFinal => mission' = mission,
         mission' \in MissionFinal => mission' = mission,
         mission # "absent" => mission' # "absent",
         mission # "absent" => (Earned => Earned'),
         mission # "absent" => \A t \in Capable : (TaskClosed(t) => TaskClosed(t)')
                                               /\ (ApprovalClosed(t) => ApprovalClosed(t)')
  PROVE  IInv'
<1>1. WorksOnOpen'
  BY DEF IInv, Types, WorksOnOpen
<1>2. CompletionEarned'
  <2> SUFFICES ASSUME NEW d \in Operator,
                      work[d].target \in {"complete", "reconcile_complete"},
                      version' = work[d].expected
               PROVE  Earned'
    BY DEF CompletionEarned
  <2>1. work[d] # Idle
    BY IdleShape
  <2>2. version = work[d].expected /\ mission # "absent"
    BY <2>1 DEF IInv, Types, WorksOnOpen
  <2> QED
    BY <2>2 DEF IInv, CompletionEarned
<1>3. SettlesAll'
  <2> SUFFICES ASSUME NEW d \in Operator, work[d] # Idle
               PROVE  /\ \A t \in Task :
                           /\ <<"task", t>> \in DOMAIN work[d].to =>
                                work[d].to[<<"task", t>>] = "cancelled"
                           /\ <<"approval", t>> \in DOMAIN work[d].to =>
                                work[d].to[<<"approval", t>>] \in {"denied", "revoked"}
                      /\ work[d].target \notin {"cancel", "cancel_revoke"} =>
                           DOMAIN work[d].to = {}
                      /\ work[d].target \in {"cancel", "cancel_revoke"} =>
                           \A t \in Capable :
                             /\ <<"task", t>> \notin DOMAIN work[d].to => TaskClosed(t)'
                             /\ <<"approval", t>> \notin DOMAIN work[d].to => ApprovalClosed(t)'
    BY DEF SettlesAll
  <2>1. mission # "absent"
    BY DEF IInv, WorksOnOpen
  <2> QED
    BY <2>1 DEF IInv, SettlesAll
<1>4. CompletedIsEarned'
  BY DEF IInv, CompletedIsEarned, Earned, MissionFinal
<1>5. SettledTogether'
  BY DEF IInv, SettledTogether, TaskClosed, ApprovalClosed, MissionFinal
<1> QED
  BY <1>1, <1>2, <1>3, <1>4, <1>5 DEF IInv
-----------------------------------------------------------------------------
(* What a task does on its own is quiet: it moves no closed task, opens no *)
(* approval once the mission exists, and takes nothing earned away.        *)
LEMMA TaskStep ==
  ASSUME IInv, NEW t \in Task, TaskNext(t)
  PROVE  IInv' /\ (mission \in MissionFinal => mission' = mission)
<1> USE DEF streams, authority, threads, MoveMission
<1>t. /\ Types /\ version \in Nat /\ planning \subseteq Task \ Capable
      /\ task \in [Task -> TaskState] /\ approval \in [Task -> ApprovalState]
      /\ claim \in [Task -> ClaimState]
  BY DEF IInv, Types
<1>1. CASE CreateMission(t)
  <2>1. /\ mission = "absent" /\ mission' = "draft" /\ version' = version + 1
        /\ task' = [task EXCEPT ![t] = "pending"]
        /\ approval' \in [Task -> ApprovalState]
        /\ UNCHANGED <<run, claim, decided, grant, planning, work>>
    BY <1>1, <1>t DEF CreateMission, ApprovalState
  <2>2. task' \in [Task -> TaskState]
    BY <1>t, <2>1 DEF TaskState
  <2>3. Types'
    BY <1>t, <2>1, <2>2 DEF Types
  <2> QED
    BY <1>t, <2>1, <2>3, QuietStep DEF MissionFinal
<1>2. CASE SeeMission(t)
  <2>1. Types' /\ UNCHANGED <<mission, version, task, approval, claim, work>>
    BY <1>2, <1>t DEF SeeMission, Types
  <2> QED
    BY <1>t, <2>1, QuietStep DEF Earned, TaskClosed, ApprovalClosed
<1>3. CASE PlanTask(t)
  <2>1. /\ task[t] = "absent" /\ t \notin Capable
        /\ task' = [task EXCEPT ![t] = "pending"] /\ planning' \subseteq planning
        /\ UNCHANGED <<mission, version, approval, claim, work>>
    BY <1>3, <1>t DEF PlanTask
  <2>2. task' \in [Task -> TaskState] /\ \A u \in Task \ {t} : task'[u] = task[u]
    BY <1>t, <2>1 DEF TaskState
  <2>3. Types'
    BY <1>t, <2>1, <2>2 DEF Types
  <2>4. (Earned => Earned') /\ \A u \in Capable : TaskClosed(u) => TaskClosed(u)'
    BY <2>1, <2>2, MissionAssumption DEF Earned, TaskClosed
  <2> QED
    BY <1>t, <2>1, <2>3, <2>4, QuietStep DEF ApprovalClosed
<1>4. CASE RequestApproval(t)
  <2>1. /\ t \notin Capable /\ approval' = [approval EXCEPT ![t] = "requested"]
        /\ UNCHANGED <<mission, version, task, claim, planning, work>>
    BY <1>4 DEF RequestApproval
  <2>2. /\ approval' \in [Task -> ApprovalState]
        /\ \A u \in Task \ {t} : approval'[u] = approval[u]
    BY <1>t, <2>1 DEF ApprovalState
  <2>3. Types'
    BY <1>t, <2>1, <2>2 DEF Types
  <2>4. \A u \in Capable : ApprovalClosed(u) => ApprovalClosed(u)'
    BY <2>1, <2>2, MissionAssumption DEF ApprovalClosed
  <2> QED
    BY <1>t, <2>1, <2>3, <2>4, QuietStep DEF TaskClosed, Earned
<1>5. CASE DecideApproval(t)
  <2>1. /\ approval[t] = "requested"
        /\ \E decision \in {"approved", "denied"} :
             approval' = [approval EXCEPT ![t] = decision]
        /\ UNCHANGED <<mission, version, task, claim, planning, work>>
    BY <1>5 DEF DecideApproval
  <2>2. /\ approval' \in [Task -> ApprovalState]
        /\ \A u \in Task \ {t} : approval'[u] = approval[u]
    BY <1>t, <2>1 DEF ApprovalState
  <2>3. Types'
    BY <1>t, <2>1, <2>2 DEF Types
  <2>4. \A u \in Capable : ApprovalClosed(u) => ApprovalClosed(u)'
    BY <2>1, <2>2, MissionAssumption DEF ApprovalClosed, ApprovalOpen
  <2> QED
    BY <1>t, <2>1, <2>3, <2>4, QuietStep DEF TaskClosed, Earned
<1>6. CASE Admit(t) \/ IssueGrant(t)
  <2>1. /\ approval' = [approval EXCEPT ![t] = "consumed"]
        /\ UNCHANGED <<mission, version, task, claim, planning, work>>
    BY <1>6 DEF Admit, IssueGrant
  <2>2. /\ approval' \in [Task -> ApprovalState]
        /\ \A u \in Task : approval'[u] = approval[u] \/ approval'[u] = "consumed"
    BY <1>t, <2>1 DEF ApprovalState
  <2>3. Types'
    BY <1>t, <2>1, <2>2 DEF Types
  <2>4. \A u \in Capable : ApprovalClosed(u) => ApprovalClosed(u)'
    BY <2>2, MissionAssumption DEF ApprovalClosed, ApprovalOpen
  <2> QED
    BY <1>t, <2>1, <2>3, <2>4, QuietStep DEF TaskClosed, Earned
<1>7. CASE MoveTask(t)
  <2>1. PICK to \in TaskMoves[task[t]] : task' = [task EXCEPT ![t] = to]
    BY <1>7 DEF MoveTask
  <2>2. UNCHANGED <<mission, version, approval, claim, planning, work>>
    BY <1>7 DEF MoveTask
  <2>3. task[t] \notin TaskFinal \cup {"absent"}
    BY <2>1, FinalStays
  <2>4. to \in TaskState
    <3>1. \A x \in TaskState : TaskMoves[x] \subseteq TaskState
      BY DEF TaskState, TaskMoves, TaskFinal
    <3> QED
      BY <1>t, <2>1, <3>1
  <2>5. task' \in [Task -> TaskState] /\ \A u \in Task \ {t} : task'[u] = task[u]
    BY <1>t, <2>1, <2>4
  <2>6. Types'
    BY <1>t, <2>2, <2>5 DEF Types
  <2>7. (Earned => Earned') /\ \A u \in Capable : TaskClosed(u) => TaskClosed(u)'
    BY <2>2, <2>3, <2>5, MissionAssumption DEF Earned, TaskClosed, TaskFinal
  <2> QED
    BY <1>t, <2>2, <2>6, <2>7, QuietStep DEF ApprovalClosed
<1>8. CASE MoveRun(t) \/ ActivateLease(t)
  <2>1. UNCHANGED <<mission, version, task, approval, claim, planning, work>>
    BY <1>8 DEF MoveRun, ActivateLease
  <2>2. Types'
    BY <1>t, <2>1 DEF Types
  <2> QED
    BY <1>t, <2>1, <2>2, QuietStep DEF Earned, TaskClosed, ApprovalClosed
<1>9. CASE ProposeClaim(t)
  <2>1. /\ claim[t] = "none" /\ claim' = [claim EXCEPT ![t] = "proposed"]
        /\ UNCHANGED <<mission, version, task, approval, planning, work>>
    BY <1>9 DEF ProposeClaim
  <2>2. claim' \in [Task -> ClaimState] /\ \A u \in Task \ {t} : claim'[u] = claim[u]
    BY <1>t, <2>1 DEF ClaimState
  <2>3. Types'
    BY <1>t, <2>1, <2>2 DEF Types
  <2>4. Earned => Earned'
    BY <2>1, <2>2 DEF Earned
  <2> QED
    BY <1>t, <2>1, <2>3, <2>4, QuietStep DEF TaskClosed, ApprovalClosed
<1>10. CASE ReviewClaim(t)
  <2>1. /\ claim[t] = "proposed" /\ task[t] = "awaiting_verification"
        /\ \E to \in {"accepted", "rejected"} : claim' = [claim EXCEPT ![t] = to]
        /\ \E to \in {"succeeded", "failed"} : task' = [task EXCEPT ![t] = to]
        /\ UNCHANGED <<mission, version, approval, planning, work>>
    BY <1>10 DEF ReviewClaim
  <2>2. /\ claim' \in [Task -> ClaimState] /\ task' \in [Task -> TaskState]
        /\ \A u \in Task \ {t} : claim'[u] = claim[u] /\ task'[u] = task[u]
    BY <1>t, <2>1 DEF ClaimState, TaskState
  <2>3. Types'
    BY <1>t, <2>1, <2>2 DEF Types
  <2>4. (Earned => Earned') /\ \A u \in Capable : TaskClosed(u) => TaskClosed(u)'
    BY <2>1, <2>2, MissionAssumption DEF Earned, TaskClosed, TaskFinal
  <2> QED
    BY <1>t, <2>1, <2>3, <2>4, QuietStep DEF ApprovalClosed
<1>11. CASE EvaluatePolicy(t)
  <2>1. /\ mission # "absent" /\ version' = version + 1
        /\ mission' = IF mission = "draft" THEN "authorized" ELSE mission
        /\ UNCHANGED <<task, approval, claim, planning, work>>
    BY <1>11 DEF EvaluatePolicy
  <2>2. Types'
    BY <1>t, <2>1 DEF Types
  <2> QED
    BY <1>t, <2>1, <2>2, QuietStep DEF Earned, TaskClosed, ApprovalClosed, MissionFinal
<1>12. CASE ReconcileTask(t)
  <2>1. /\ task[t] = "running" /\ task' = [task EXCEPT ![t] = "suspended"]
        /\ UNCHANGED <<mission, version, approval, claim, planning, work>>
    BY <1>12 DEF ReconcileTask
  <2>2. task' \in [Task -> TaskState] /\ \A u \in Task \ {t} : task'[u] = task[u]
    BY <1>t, <2>1 DEF TaskState
  <2>3. Types'
    BY <1>t, <2>1, <2>2 DEF Types
  <2>4. (Earned => Earned') /\ \A u \in Capable : TaskClosed(u) => TaskClosed(u)'
    BY <2>1, <2>2, MissionAssumption DEF Earned, TaskClosed, TaskFinal
  <2> QED
    BY <1>t, <2>1, <2>3, <2>4, QuietStep DEF ApprovalClosed
<1> QED
  BY <1>1, <1>2, <1>3, <1>4, <1>5, <1>6, <1>7, <1>8, <1>9, <1>10, <1>11, <1>12 DEF TaskNext
-----------------------------------------------------------------------------
(* A preview names every open task and approval of a cancellation, and a   *)
(* completion it lets through is earned.                                   *)
LEMMA PreviewStep ==
  ASSUME IInv, NEW d \in Operator, NEW target \in Targets, Preview(d, target)
  PROVE  IInv' /\ UNCHANGED mission
<1> DEFINE new == [target |-> target, expected |-> version,
                   to |-> [s \in Orphans(target) |-> Settlement(s)],
                   at |-> [s \in Orphans(target) |-> "unread"]]
<1>1. /\ Unblocked(target) /\ work' = [work EXCEPT ![d] = new]
      /\ UNCHANGED <<mission, version, task, approval, run, claim, decided, grant, planning>>
  BY DEF Preview, streams, authority
<1>2. work' = [e \in Operator |-> work'[e]] /\ work'[d] = new
      /\ \A e \in Operator : e # d => work'[e] = work[e]
  BY <1>1 DEF IInv, Types
<1>3. /\ DOMAIN new = {"target", "expected", "to", "at"}
      /\ new.target = target /\ new.expected = version
      /\ DOMAIN new.to = Orphans(target)
      /\ \A s \in Orphans(target) : new.to[s] = Settlement(s)
  OBVIOUS
<1> HIDE DEF new
<1>4. Types'
  BY <1>1, <1>2, <1>3 DEF IInv, Types
<1>5. mission \notin MissionFinal \cup {"absent"}
  BY <1>1 DEF Unblocked
<1>6. WorksOnOpen'
  BY <1>1, <1>2, <1>3, <1>5 DEF IInv, Types, WorksOnOpen
<1>7. CompletionEarned'
  <2>1. target \in {"complete", "reconcile_complete"} => Earned
    BY <1>1 DEF Unblocked, Earned
  <2> QED
    BY <1>1, <1>2, <1>3, <2>1 DEF IInv, CompletionEarned, Earned
<1>8. SettlesAll'
  <2>1. ASSUME NEW t \in Task PROVE Settlement(<<"task", t>>) = "cancelled"
    <3>1. StateOf(<<"task", t>>) # "approved"
      BY DEF IInv, Types, TaskState, StateOf
    <3> QED
      BY <3>1 DEF Settlement
  <2>2. ASSUME NEW t \in Task PROVE Settlement(<<"approval", t>>) \in {"denied", "revoked"}
    <3>1. CASE StateOf(<<"approval", t>>) = "approved"
      BY <3>1 DEF Settlement
    <3>2. CASE StateOf(<<"approval", t>>) # "approved"
      BY <3>2 DEF Settlement
    <3> QED
      BY <3>1, <3>2
  <2>3. target \notin {"cancel", "cancel_revoke"} => Orphans(target) = {}
    BY DEF Orphans
  <2>4. target \in {"cancel", "cancel_revoke"} =>
          \A t \in Capable : /\ <<"task", t>> \notin Orphans(target) => TaskClosed(t)
                             /\ <<"approval", t>> \notin Orphans(target) => ApprovalClosed(t)
    BY MissionAssumption DEF Orphans, TaskClosed, ApprovalClosed
  <2>5. SettlesAll
    BY DEF IInv
  <2>6. \A t \in Capable : (TaskClosed(t)' <=> TaskClosed(t))
                            /\ (ApprovalClosed(t)' <=> ApprovalClosed(t))
    BY <1>1 DEF TaskClosed, ApprovalClosed
  <2>7. ASSUME NEW e \in Operator, e # d, work'[e] # Idle
        PROVE  /\ \A t \in Task :
                    /\ <<"task", t>> \in DOMAIN work'[e].to =>
                         work'[e].to[<<"task", t>>] = "cancelled"
                    /\ <<"approval", t>> \in DOMAIN work'[e].to =>
                         work'[e].to[<<"approval", t>>] \in {"denied", "revoked"}
               /\ work'[e].target \notin {"cancel", "cancel_revoke"} => DOMAIN work'[e].to = {}
               /\ work'[e].target \in {"cancel", "cancel_revoke"} =>
                    \A t \in Capable :
                      /\ <<"task", t>> \notin DOMAIN work'[e].to => TaskClosed(t)'
                      /\ <<"approval", t>> \notin DOMAIN work'[e].to => ApprovalClosed(t)'
    BY <1>2, <2>5, <2>6, <2>7 DEF SettlesAll
  <2>8. /\ \A t \in Task :
             /\ <<"task", t>> \in DOMAIN work'[d].to =>
                  work'[d].to[<<"task", t>>] = "cancelled"
             /\ <<"approval", t>> \in DOMAIN work'[d].to =>
                  work'[d].to[<<"approval", t>>] \in {"denied", "revoked"}
        /\ work'[d].target \notin {"cancel", "cancel_revoke"} => DOMAIN work'[d].to = {}
        /\ work'[d].target \in {"cancel", "cancel_revoke"} =>
             \A t \in Capable :
               /\ <<"task", t>> \notin DOMAIN work'[d].to => TaskClosed(t)'
               /\ <<"approval", t>> \notin DOMAIN work'[d].to => ApprovalClosed(t)'
    BY <1>2, <1>3, <2>1, <2>2, <2>3, <2>4, <2>6
  <2> QED
    BY <2>7, <2>8 DEF SettlesAll
<1>9. CompletedIsEarned' /\ SettledTogether'
  BY <1>1 DEF IInv, CompletedIsEarned, SettledTogether
<1> QED
  BY <1>1, <1>4, <1>6, <1>7, <1>8, <1>9 DEF IInv

(* Reading changes nothing a disposition will write; giving up drops it.   *)
LEMMA OwnStep ==
  ASSUME IInv, NEW d \in Operator,
         \/ \E s \in DOMAIN work[d].at : ReadState(d, s) \/ ReadVersion(d, s)
         \/ Refuse(d)
  PROVE  IInv' /\ UNCHANGED mission
<1>1. UNCHANGED <<mission, version, task, approval, claim, planning>>
  BY DEF ReadState, ReadVersion, Read, Refuse, streams
<1>2. /\ work' = [e \in Operator |-> work'[e]]
      /\ \A e \in Operator : e # d => work'[e] = work[e]
      /\ work'[d] # Idle =>
           /\ work[d] # Idle
           /\ DOMAIN work'[d] = {"target", "expected", "to", "at"}
           /\ work'[d].target = work[d].target /\ work'[d].expected = work[d].expected
           /\ work'[d].to = work[d].to
  <2>1. ASSUME NEW mark, NEW s \in DOMAIN work[d].at, Read(d, s, mark)
        PROVE  /\ work' = [e \in Operator |-> work'[e]]
               /\ \A e \in Operator : e # d => work'[e] = work[e]
               /\ DOMAIN work'[d] = {"target", "expected", "to", "at"}
               /\ work'[d].target = work[d].target /\ work'[d].expected = work[d].expected
               /\ work'[d].to = work[d].to
    BY <2>1 DEF Read, IInv, Types
  <2>2. ASSUME NEW s \in DOMAIN work[d].at PROVE work[d] # Idle
    BY <2>2 DEF Idle
  <2>3. CASE Refuse(d)
    BY <2>3 DEF Refuse, IInv, Types
  <2> QED
    BY <2>1, <2>2, <2>3 DEF ReadState, ReadVersion
<1>3. Types'
  BY <1>1, <1>2, IdleShape DEF IInv, Types
<1>4. WorksOnOpen'
  BY <1>1, <1>2 DEF IInv, WorksOnOpen
<1>5. CompletionEarned'
  BY <1>1, <1>2, IdleShape DEF IInv, CompletionEarned, Earned
<1>6. SettlesAll'
  BY <1>1, <1>2 DEF IInv, SettlesAll, TaskClosed, ApprovalClosed
<1>7. CompletedIsEarned' /\ SettledTogether'
  BY <1>1 DEF IInv, CompletedIsEarned, SettledTogether
<1> QED
  BY <1>1, <1>3, <1>4, <1>5, <1>6, <1>7 DEF IInv

(* The commit is the first of those that could be made at its version; it  *)
(* closes what it names, and leaves the rest as it was.                    *)
LEMMA DisposeStep ==
  ASSUME IInv, NEW d \in Operator, Dispose(d)
  PROVE  IInv' /\ mission \notin MissionFinal
<1>1. /\ work[d] # Idle /\ version = work[d].expected
      /\ mission' = Outcome(work[d].target)
      /\ version' \in {version + 1, version + 2}
      /\ task' = Settled(d, "task", task) /\ approval' = Settled(d, "approval", approval)
      /\ work' = [work EXCEPT ![d] = Idle]
      /\ UNCHANGED <<run, claim, planning>>
  BY DEF Dispose
<1>2. /\ version \in Nat /\ version < version' /\ version' \in Nat
  BY <1>1 DEF IInv, Types
<1>3. mission \notin MissionFinal
  BY <1>1, <1>2 DEF IInv, WorksOnOpen
<1>4. work' = [e \in Operator |-> work'[e]] /\ work'[d] = Idle
      /\ \A e \in Operator : e # d => work'[e] = work[e]
  BY <1>1 DEF IInv, Types
<1>5. \A t \in Task : /\ task'[t] = task[t] \/ task'[t] = "cancelled"
                      /\ approval'[t] = approval[t] \/ approval'[t] \in {"denied", "revoked"}
                      /\ <<"task", t>> \in DOMAIN work[d].to => task'[t] = "cancelled"
                      /\ <<"task", t>> \notin DOMAIN work[d].to => task'[t] = task[t]
                      /\ <<"approval", t>> \in DOMAIN work[d].to =>
                           approval'[t] \in {"denied", "revoked"}
                      /\ <<"approval", t>> \notin DOMAIN work[d].to => approval'[t] = approval[t]
  BY <1>1 DEF IInv, SettlesAll, Settled
<1>6. task' \in [Task -> TaskState] /\ approval' \in [Task -> ApprovalState]
  <2>1. task' = [t \in Task |-> task'[t]] /\ approval' = [t \in Task |-> approval'[t]]
    BY <1>1 DEF Settled
  <2>2. \A t \in Task : task'[t] \in TaskState /\ approval'[t] \in ApprovalState
    BY <1>5 DEF IInv, Types, TaskState, ApprovalState
  <2> QED
    BY <2>1, <2>2
<1>7. Types'
  BY <1>1, <1>2, <1>4, <1>6, IdleShape DEF IInv, Types
<1>8. /\ work[d].target \in {"complete", "reconcile_complete", "cancel", "cancel_revoke",
                             "authorize"}
      /\ mission' # "absent"
      /\ mission' = "completed" => work[d].target \in {"complete", "reconcile_complete"}
      /\ mission' = "cancelled" => work[d].target \in {"cancel", "cancel_revoke"}
  <2>1. work[d].target \in Targets
    BY <1>1 DEF IInv, Types
  <2>2. /\ Outcome("authorize") = "authorized"
        /\ Outcome("cancel") = "cancelled" /\ Outcome("cancel_revoke") = "cancelled"
        /\ Outcome("complete") = "completed" /\ Outcome("reconcile_complete") = "completed"
    BY DEF Outcome
  <2> QED
    BY <1>1, <2>1, <2>2 DEF Targets
<1>9. WorksOnOpen'
  BY <1>2, <1>4, <1>8 DEF IInv, Types, WorksOnOpen
<1>10. CompletionEarned'
  <2> SUFFICES ASSUME NEW e \in Operator, work'[e].target \in {"complete", "reconcile_complete"},
                      version' = work'[e].expected
               PROVE  FALSE
    BY DEF CompletionEarned
  <2>1. e # d /\ work[e] # Idle /\ work'[e] = work[e]
    BY <1>4, IdleShape
  <2> QED
    BY <1>2, <2>1 DEF IInv, Types, WorksOnOpen
<1>11. \A t \in Task : /\ TaskClosed(t) => TaskClosed(t)'
                       /\ ApprovalClosed(t) => ApprovalClosed(t)'
  BY <1>5 DEF TaskClosed, ApprovalClosed, TaskFinal, ApprovalOpen
<1>12. SettlesAll'
  <2> SUFFICES ASSUME NEW e \in Operator, work'[e] # Idle
               PROVE  /\ \A t \in Task :
                           /\ <<"task", t>> \in DOMAIN work'[e].to =>
                                work'[e].to[<<"task", t>>] = "cancelled"
                           /\ <<"approval", t>> \in DOMAIN work'[e].to =>
                                work'[e].to[<<"approval", t>>] \in {"denied", "revoked"}
                      /\ work'[e].target \notin {"cancel", "cancel_revoke"} =>
                           DOMAIN work'[e].to = {}
                      /\ work'[e].target \in {"cancel", "cancel_revoke"} =>
                           \A t \in Capable :
                             /\ <<"task", t>> \notin DOMAIN work'[e].to => TaskClosed(t)'
                             /\ <<"approval", t>> \notin DOMAIN work'[e].to => ApprovalClosed(t)'
    BY DEF SettlesAll
  <2>1. work[e] # Idle /\ work'[e] = work[e]
    BY <1>4
  <2> QED
    BY <1>11, <2>1, MissionAssumption DEF IInv, SettlesAll
<1>13. CompletedIsEarned'
  <2> SUFFICES ASSUME mission' = "completed" PROVE Earned'
    BY DEF CompletedIsEarned, Earned
  <2>1. Earned /\ DOMAIN work[d].to = {}
    BY <1>1, <1>8 DEF IInv, CompletionEarned, SettlesAll
  <2> QED
    BY <1>1, <1>5, <2>1 DEF Earned
<1>14. SettledTogether'
  <2> SUFFICES ASSUME mission' = "cancelled", NEW t \in Capable
               PROVE  TaskClosed(t)' /\ ApprovalClosed(t)'
    BY DEF SettledTogether, TaskClosed, ApprovalClosed
  <2>1. /\ <<"task", t>> \notin DOMAIN work[d].to => TaskClosed(t)
        /\ <<"approval", t>> \notin DOMAIN work[d].to => ApprovalClosed(t)
    BY <1>1, <1>8 DEF IInv, SettlesAll
  <2>2. t \in Task
    BY MissionAssumption
  <2>3. /\ <<"task", t>> \in DOMAIN work[d].to => TaskClosed(t)'
        /\ <<"approval", t>> \in DOMAIN work[d].to => ApprovalClosed(t)'
    BY <1>5, <2>2 DEF TaskClosed, ApprovalClosed, TaskFinal, ApprovalOpen
  <2> QED
    BY <1>11, <2>1, <2>2, <2>3
<1> QED
  BY <1>3, <1>7, <1>9, <1>10, <1>12, <1>13, <1>14 DEF IInv

(* Every step keeps the invariant, and a mission that is over as it is.    *)
LEMMA NextIInv ==
  ASSUME IInv, [Next]_vars
  PROVE  IInv' /\ (mission \in MissionFinal => mission' = mission)
<1>1. ASSUME NEW t \in Task, TaskNext(t)
      PROVE  IInv' /\ (mission \in MissionFinal => mission' = mission)
  BY <1>1, TaskStep
<1>2. ASSUME NEW d \in Operator, OperatorNext(d)
      PROVE  IInv' /\ (mission \in MissionFinal => mission' = mission)
  BY <1>2, PreviewStep, OwnStep, DisposeStep DEF OperatorNext
<1>3. CASE ReconcileMission
  <2>1. /\ mission = "executing" /\ mission' = "suspended" /\ version' = version + 1
        /\ UNCHANGED <<task, approval, claim, planning, work>>
    BY <1>3 DEF ReconcileMission, MoveMission, streams, threads
  <2>2. Types' /\ version \in Nat
    BY <2>1 DEF IInv, Types
  <2> QED
    BY <2>1, <2>2, QuietStep DEF Earned, TaskClosed, ApprovalClosed, MissionFinal
<1>4. CASE UNCHANGED vars
  <2>1. UNCHANGED <<mission, version, task, approval, claim, planning, work>>
    BY <1>4 DEF vars, streams, threads
  <2>2. Types' /\ version \in Nat
    BY <2>1 DEF IInv, Types
  <2> QED
    BY <2>1, <2>2, QuietStep DEF Earned, TaskClosed, ApprovalClosed
<1> QED
  BY <1>1, <1>2, <1>3, <1>4 DEF Next
-----------------------------------------------------------------------------
LEMMA SpecIInv == Spec => []IInv
  BY InitIInv, NextIInv, PTL DEF Spec

(* A completed mission has an accepted claim of a task that succeeded,     *)
(* whatever moved between the preview of its completion and the commit     *)
(* (mission_disposition_preview, dispose_mission).                         *)
THEOREM CompletedIsEarnedTheorem == Spec => []CompletedIsEarned
<1>1. IInv => CompletedIsEarned
  BY DEF IInv
<1> QED
  BY <1>1, SpecIInv, PTL

(* A cancelled mission leaves no task open and no approval usable that it  *)
(* was created with, for any number of operators (dispose_mission).        *)
THEOREM SettledTogetherTheorem == Spec => []SettledTogether
<1>1. IInv => SettledTogether
  BY DEF IInv
<1> QED
  BY <1>1, SpecIInv, PTL

(* Of any number of dispositions in progress the first decides: a mission  *)
(* that is over stays as it is (the expected version of dispose_mission).  *)
THEOREM MissionStaysTheorem == Spec => MissionStays
<1>1. IInv /\ [Next]_vars => [(mission \in MissionFinal) => (mission' = mission)]_vars
  BY NextIInv
<1> QED
  BY <1>1, SpecIInv, PTL DEF Spec, MissionStays
=============================================================================
