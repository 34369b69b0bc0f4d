# CAPT core in TLA+

A verification development of the CAPT runtime: the transactional event store
every service commits through; the capability grants that bound what a tool may
do, and the broker that carries a tool request across its external effect; the
approved execution of a model and of a paid media job; missions and the reviewed
disposition that ends them; persistent sandboxes; checkpoints; the control document
operators share, with the prompt proposals bound in it; and the journaled memory
lifecycle of the older `capt_solo`.

    tlc -workers 2 -config ToolBroker.cfg MCToolBroker     # a run
    tlapm EventStore_proofs.tla                            # a proof

`PROJECT.json` lists the runs, what each definition translates (`map`), the
hazards the properties are for, the disagreements between documents and code
(`findings`), and the theorems.

## 1. The system

CAPT is an event-sourced runtime in Python. One SQLite ledger holds, per
*aggregate stream*, a snapshot and the events it folds; `services.py` is the only
writer, and every write goes through `EventStore.commit_command`. Above it sit
governance (approvals, grants, leases), execution (drivers, models, tools), and
the desktop service, whose threads call the services at the same time. A second
process may open the same ledger. `capt_solo` is an older, separate library.

| Component | State | Operations | What makes it correct |
|---|---|---|---|
| **Event store** `capt_runtime/store.py`, `services._commit` | events, snapshots with versions, outbox, idempotency receipts | `commit_command`, `claim_command`, `complete_claimed_command`, `dispatch` | commands are atomic, on the current state, once per key; events are delivered in order and at least once |
| **Claimed commands** `desktop/m1_command_service.py` | a receipt `in_progress` | claim, mutate files, complete | one external mutation per key |
| **Capability grant** `aggregates/capability.py` | terms, lease, use count, reservations, consumptions, revocation | issue, activate, check, reserve, finalize, revoke | nothing outside the grant; the books balance; ended authority stays ended |
| **ToolExecution** `aggregates/tool_execution.py` | state of one tool request and its result | prepare, transition, settle | only the declared transitions |
| **Tool broker** `tool_broker.py` | none of its own: streams of the two aggregates | `execute`, `reconcile_stranded` | no second effect, no effect without a held use, nothing left half way |
| **Service start** `desktop/capt_runtime_service.py` | – | recover driver runs, then tools, then serve | recovery ends every crossed execution before a caller is served |
| **Model execution** `run_approved_hermes_inspection`, `_execute_approved_hermes`, `drivers/provider.py` | DriverRun with its dispatch boundary and request count, its task, the receipt of the command | admit, dispatch, record each request, settle, cancel, recover | one approval buys one dispatch; nothing leaves unrecorded; an unknown outcome is never called a failure |
| **Media execution** `media_execution.py` | run, job receipt, download claim, artifact | submit, poll, fetch, uploads | paid and downloaded once; the receipt tells the truth |
| **Missions and tasks**, **human approval**, **claims** `services.py`, `aggregates/*` | mission, task, approval, claim streams | create, plan, decide, review, `dispose_mission` | completion is earned; mission, tasks and approvals end together |
| **Approved authority** `approved_capability_authority.py` | – | policy decision, grant, lease: three commits | an approval becomes at most one grant, also after a crash between them |
| **Sandbox leases** `aggregates/sandbox_lease.py`, `sandbox_reconciliation.py`, the `inversion_sandbox` adapters | lease; a Docker container | reserve, create, start, execute, close, reconcile | one container per lease, none without a lease, closed only when removed |
| **Checkpoints** `checkpoint.py`, `replay.py` | checkpoint rows | create, replay, resume | what is accepted is a state the ledger had, with all that is unresolved |
| **CTP journal and memory lifecycle** `capt_solo/ctp`, `capt_solo/lifecycle` | a JSONL file, a table of transitions | begin, commit, abort, recover; promote, archive, expire, restore | the journal can be loaded; what an operation answered ok to is recorded and committed |
| **Operator control and prompt proposals** `desktop/operator_control.py`, `prompt_proposals.py`, `prompt_approval.py` | a document in memory and in a file; proposals, approvals, admissions of attempts | new chat, settings, submit, select, revise, cancel, durable compilation | what is bound together belongs together; a revision names one document; an attempt is compiled once |
| Council, cohorts, vessel, memory, discovery, drivers, adapters, MCP, IPC, KHSB, foundry, UI, contracts | see `PROJECT.json` | | |

**How they interact.** A service call is always the same: maybe look the
idempotency key up, read version and state of the streams, let the aggregate
compute the next state, and commit with the versions that were read. The store
has one lock per process, held inside each query but not across them, so any
other thread may commit between the read and the commit. After the commit the
caller itself delivers the outbox, with no lock held during a subscriber. The
broker chains up to eight such commits with an external call in the middle, a
model execution about fifteen; the grant stream is shared by all of them, the
execution stream by the callers of one request. Runs, tasks and approvals are
written by the thread that executes, by operator commands on other threads, and
by the recovery at start. A lease is written by three tool requests and the
reconciler, and stands for a container the service does not control.

**What is hard.** Two threads or processes between read and commit; commands
with several streams; retries that meet their own result; subscribers that
raise; a crash between any two commits, also during recovery; an effect whose
outcome nobody recorded; revocation between check, reservation and effect; a
settlement that loses its version race after the effect was made; an operator
who cancels a run under a working driver; a receipt written back from a stale
copy; a preview or a checkpoint put together from separate reads; a line torn by
a crash, and the next one glued to it; a container that outlives the service
that made it. `PROJECT.json`, `hazards`, lists each at its line.

## 2. The modules

| Module | Models | Composed of |
|---|---|---|
| `AtomicLedger` | what `commit_command` promises: a command is applied to all of its streams in one step, once per key | – |
| `EventStore` | `store.py` and the read-decide-commit-dispatch of a service | refines `AtomicLedger` |
| `Capability` | one grant through `services.py` | – |
| `ToolBroker` | `execute`, `reconcile_stranded`, boot recovery | extends `Capability`, over the store's protocol |
| `ModelExecution` | one approved run of a model with its task, use, claim and receipts | – |
| `MediaJob` | one paid media job | – |
| `Mission` | a mission with tasks, approvals, runs, claims, grants, and `dispose_mission` | – |
| `SandboxLease` | a lease, its container, the requests that use it, restart | – |
| `Checkpoint` | creation of a checkpoint beside other writers, and what replay accepts | – |
| `Lifecycle` | lifecycle operations under the CTP journal | – |
| `OperatorControl` | the control document, proposals and approvals, durable compilations | – |
| `MC*` | instances for TLC | |
| `*_proofs` | theorems | |

A module above the store takes the call of a service as one step. That is what
`StoreImplementsAtomicLedger` proves of the store, for services that read the
version before the state; where a call reads several streams, or state before
version, and the difference can be seen (`dispose_mission`, `create_checkpoint`,
the broker's own copy of the execution), the reads are steps of their own.

### EventStore

State: the SQLite tables (`version` and `state` are one row of `aggregates`,
`ledger` the events, `pending` the outbox rows, `receipt` the idempotency
table), the outside world (`effects`, `delivered`), and each client's local
variables. An aggregate's state is the sequence of commands folded into it, so a
lost update shows as a command that is missing from a snapshot. What an
aggregate accepts is the parameter `Legal`.

Each lock or transaction of the code is one action: `Precheck`
(`find_idempotent`), `ReadVersion` and `ReadState` (two queries; which comes
first is the parameter `StateFirst`, because services differ), `Decide` or
`Refuse` (the aggregate), `CheckIdempotency` (the look-up before
`BEGIN IMMEDIATE`), `Transact` (the transaction: look up again, compare every
version, write everything or nothing), `BeginDispatch`, `Deliver`,
`MarkDispatched`, and for claimed commands `Claim`, `Mutate`, `CompleteClaimed`.
`Crash` kills a client between any two of them. `CheckIdempotency` and
`Transact` are apart although one thread lock covers both, because that lock
does not exclude another process. `Prechecked` holds the commands whose
service looks the key up first.

### Capability

State: the fields of the aggregate. `reservedFor` remembers what a reservation
was made for. A call is one step, which the refinement theorem below justifies;
what is fixed before that step stays an input: the time stamp of a command is
any time up to now, because `reserve` judges the lease at the time the command
was written. `Issue` overwrites an existing grant, as the code does. `expire` is
never called by the program and is not an action. Only the key stages that occur
in the broker are used (`Stage`).

### ToolBroker

Every service call is the operator `Call`: the read of versions and the check of
legality are one step, the commit another, and between them anyone may
commit; a known key is answered without effect; a moved version raises. The
program counter of each thread walks through `execute()` in source order.
`copy` is the execution as the thread loaded it, which is what later branches
look at, not the stored one. Exceptions go where the code sends them: most leave
`execute()` (`Return`); one of `finalize_use` makes the result indeterminate
(`FinalizeRaised`).

`Crash` ends everything and starts again in source order: recovery of driver
runs (`mode = "runs"`, `RecoverRun`), recovery of tools (`"boot"`, `Reconcile`
and the settlement actions with actor `Boot`), `Serve`. Nobody is served before
that, so recovery's reads and commits are never interleaved with other
actors; the crash may come between any two of its commits. A driver run is only
visible through what its recovery does to the reservations of a lease with the
same mission and task, and only if `SharedTask`.

The adapter is external: it may publish a side-effect identity and then answer
any status. Its first call counts in `invoked`. Recovery may find proof of the
effect only where the adapter was really called.

### ModelExecution

State: the aggregates one approval leads to (`approval`, `run` with `boundary`
and `attempts`, `task`, the model's `tools` authority, the one `use`, the
`claim`), the `receipt` of each command, what happened outside (`dispatches`,
`sent`), and each thread's place. The commands of `Command` have different keys
and compete for the approval; each may be sent any number of times.

`Admit` consumes the approval and creates the run in one commit. The thread that
wins walks through the source: plan and start the task, issue the authority of
the tools, submit and start the run, reserve the use, `Dispatch`, and in the
driver `RecordRequest` (the count is stored *before*) and `Send` for each request
up to `Limit`. Every call may raise (`Raise`), and the code's handlers decide
whether the run fails or is lost (`CloseTools`, `SettleUse`, `Abandon`). The
operator may cancel run or task, revoke the approval, or let it expire at any
time. After `Crash` the recovery fails a run that was never submitted, and of any
other settles the use, then the run, then the task: single commits between which it
may be killed again.

### MediaJob

The job's receipt is a row of the idempotency table that
`complete_claimed_command` replaces as a whole: `copy` is what a thread read, and
what it writes back is computed from it. Submission, polls and the download run on
any threads; the download has a claim of its own. The provider is external: it
accepts or not, and its job ends on its own (`ProviderEnds`). A restart drops the
threads and does to the run what recovery does.

### Mission

A mission is created with the tasks of `Capable` (their approvals are for a
capability); tasks with a model execution are planned later, by a planner that
looked at the mission earlier (`SeeMission`, `PlanTask`). Missions, tasks,
approvals, runs and claims move as their services allow; how an execution
drives its task and run is `ModelExecution`'s subject. `EvaluatePolicy`,
`IssueGrant` and `ActivateLease` are the three commits of
`approved_capability_authority`, which a retry resumes. A disposition is read by
read: `Preview` collects the orphans and the blockers, then for every stream
`ReadState` and `ReadVersion`, in that order as the code has it, then `Dispose`
or `Refuse`. At start, `ReconcileTask` and `ReconcileMission` repair the marker
an earlier version left.

### SandboxLease

Three kinds of request, each a thread in the broker's path with its adapter:
`create` (reserve the lease, `docker create`, record it, start), `exec`, `close`
(record that closing begins, remove, prove absence). Docker may fail before or
after the effect, or answer late; a command whose end is unknown may run on
(`commands`); the container may stop by itself; the lease may expire. A restart
drops all threads; then the reconciler makes one decision per lease from the
lease and the inventory (`ReconcileOne`, with its idempotency key in
`reconciled`), `RecoverTool` settles the requests, and `Serve` opens the service.
What the broker denies before it reserves is `ToolBroker`'s subject.

### Checkpoint

The ledger is a table: the state of every grant after every event. Other clients
append to it at any time. A checkpoint command reads the list of streams, the
state of each, the head, the digest of the chain up to it, the outbox, and saves.
`Accepts` is what `checkpoint_replay` compares. Of the state of a grant only its
version and whether its reservation is open count, since only these make a
checkpoint unclean.

### Lifecycle

Each call opens its own `CTPRuntime` on the journal file and its own connection,
so it knows only what the file held then (`seen`). One operation is
`BeginTx`, `Check`, `Update`, `Record` (the transition row), `Commit`, `Answer`; any step
may raise, before or after its write, and the handler aborts. A crash may tear
the line being written; the next append is glued to it. Transactions of
`ToolTx` are begun by a caller for no operation. The tools that commit and abort
(`FinishTx`) take any transaction pending in the journal they load, also that of an
operation that died, which the recovery skill tells the agent to finish, or of one
still under way. `answered` is a history variable: the transactions whose operation
returned ok. The journal is the set of its events, since no property needs more of their order.

### OperatorControl

The document is a record in memory (`control`) and in a file (`saved`): `Persist`
writes the file and may raise before or after it was replaced, and memory changes only
when it returned. A command carries the revision and configuration its client read
(`order`), and every copy of it the same. `operator_prompt_submit` is
`Send`, `RequireCurrent` (under the lock), `Compile` and `CommitProposal` (with no lock,
for as long as the compiler takes), and `BindProposal`, which compares again;
`operator_proposal_select` is `Request`, `RecordApproval`, `BindApproval`. `Edit` and
`CommitEdit` are revision and cancellation, whose read and commit are apart because they
read the state before the version. `Admit`, `Enlist`, `Complete` are
`durable_pi_compile`, `Status` what `pi_attempt_status` says. Proposals are named after
the keys of their commands; the compiler's text is a member of `Text`. Two
configurations differ in the mode or in the route; only the active session is in the
document, since no other is ever written.

## 3. The runs

| Run | Instance | Question |
|---|---|---|
| `EventStore` | 2 clients, 2 streams, 5 commands, 1 crash, 1 exception | all safety of the store, and refinement of `AtomicLedger` |
| `EventStoreLive` | 2 clients, 2 commands, fairness | does every event leave the outbox? |
| `Capability` | 3 reservations, grant of 2 uses, clock 0..3, 2 issues | do the books balance, does ended authority stay ended? |
| `ToolBroker` | 2 threads, 2 executions, lease of 1 or 2 uses, 2 crashes | all safety of execution and recovery |
| `ToolBrokerLive` | 1 thread, 2 executions, 2 crashes, fairness | does every crossed execution end? |
| `ModelExecution` | 2 threads, 2 commands, 2 requests, 2 crashes, fairness | one dispatch, honest outcomes, recovery that ends |
| `MediaJob` | 3 threads, 2 restarts | paid once, downloaded once, receipts that are so |
| `Mission` | 2 tasks, 1 disposition at a time, 3 policy decisions | is completion earned, do mission, tasks and approvals end together? |
| `SandboxLease` | a creation, 2 commands, a close, 2 restarts | one container, none forgotten, lease and executions agree, an unknown end keeps others out |
| `Checkpoint` | 2 grants, 4 events, a command that is repeated | is what replay accepts true of the ledger? |
| `Lifecycle` | 2 calls at a time, 3 transactions, 2 keys, 1 torn line | do journal and memory agree? |
| `OperatorControl` | 2 threads, 2 submissions, 1 selection, 1 attempt, 3 revisions, 1 edit, 1 restart | is what is bound together made for each other? |

**Findings.** `findings` in `PROJECT.json` quotes every document, schema or comment
met on the way that the code does not follow. Where a model shows it there is a
property and a configuration that is not among the runs and in which TLC finds it
violated:

| Configuration (module) | Property that fails | Claim |
|---|---|---|
| `EventStorePoison` (`MCEventStore`) | `EveryEventDispatched` | ADR-0105: a raising subscriber blocks nobody else |
| `EventStoreRetry` (`MCEventStore`) | `RecordedOutcomeReturned` | ADR-0108: a retry gets the recorded outcome |
| `EventStoreStateFirst` (`MCEventStore`) | `SnapshotIsFold` | ADR-0106: stale writes are rejected |
| `CapabilityBudget` (`MCCapability`) | `BudgetHeldByReservations` | ADR-0107: reservations count against the budget |
| `CapabilityRevoked` (`MCCapability`) | `RevocationTerminal` | ADR-0107: revocation is terminal |
| `ToolBrokerResend` (`MCToolBroker`) | `InvokedAtMostOnce` | idempotency lives at the broker's boundary |
| `ToolBrokerRuns` (`MCToolBroker`) | `FinalizedAfterEffect` | a use is finalized after its effect |
| `MissionStale` (`MCMission`) | `ConsumedStays` | a disposition is bound to the states that were reviewed |
| `ModelStranded` (`MCModelExecution`) | `TaskNotStranded` | a stranded run is reconciled with its task |
| `MediaRegress` (`MCMediaJob`) | `CompletedStays` | a receipt is replaced by its outcome |
| `SandboxClosed` (`MCSandboxLease`) | `ClosedMeansAbsent` | closed is evidence that nothing is left |
| `SandboxQuarantine` (`MCSandboxLease`) | `UnknownEndStays` | an unknown end stays until it is resolved |
| `SandboxBlocked` (`MCSandboxLease`) | `UnknownEndBlocks` | it blocks further commands |
| `SandboxReport` (`MCSandboxLease`) | `ReportIsTrue` | the reconciler reports what is recorded |
| `SandboxRelease` (`MCSandboxLease`) | `FailedReleases` | an unused reservation is released |
| `OperatorCancelled` (`MCOperatorControl`) | `CancelledStays` | ADR-0106: stale writes are rejected |

`CleanMeansResolved` (a clean checkpoint has nothing unresolved) and `SavedIsAccepted`
(what resume hands out is valid) fail in `Checkpoint.cfg` when they are named there,
`ReportIsRecorded` in `OperatorCancelled.cfg` with a second text.
`CommittedMeansRecorded`, `AbortedLeavesNothing`, `OneOutcome`, `KeyCommitsOnce` and
`MovesAreValid` of `Lifecycle` fail in its own instance when they are named in
`Lifecycle.cfg`, and `UnknownEndAlone` in `SandboxLease.cfg`.
`ToolBrokerTypes` checks the type invariant of `ToolBroker`, and passes; the type
invariants of the other modules are proved.

**Bounds.** *EventStore*: the commands are chosen so that each conflict the code
distinguishes occurs: a command over two streams (`a1`), its retry (`a2`), a
reuse of its key with another fingerprint (`a3`), a competitor on one of its
streams (`b`) that is legal before `a1` and not after it, and a claimed command
(`m`). Two clients give every pairwise race;
conflicts in this code are always between one reader and one committer. `Cmd`
may be sent any number of times; the ledger stays finite because a command
commits once per key. `MaxCrashes` and `MaxRaises` of 1 put a crash or an
exception at every step. The liveness run leaves out retries and the claimed
command, which touch no outbox row.
*Capability*: a grant of two uses with three reservations reaches the limit with
one reservation still open; the window 1..2 of a clock 0..3 has too early, first,
last and too late; the leases narrow, keep or widen each term. `MaxIssues` is 2
so that re-issue happens once. *ToolBroker*: a lease of one use makes one request
lose, of two lets both run and meet only in each other's commits. The clock
stands still there (expiry is a nondeterministic denial). Two crashes allow a
crash during recovery from the first. 1.46 million states.
*ModelExecution*: two threads with two commands give a command sent twice at once
and two commands that race for one approval; a limit of two lets the driver ask
again and reach the limit; the second crash hits recovery too. *MediaJob*:
with three threads two polls and a download, or two submissions and a poll,
overlap. *Mission*: one task of each kind; one disposition at a time, because two
exceed what TLC can do, while the theorems are for any number. A disposition meets
every other writer between any two of its reads. `MaxVersion` bounds policy
decisions, the only thing that moves a mission's version for ever. *SandboxLease*:
every pair of operations overlaps, and a second restart meets the traces the
reconciler left at the first; of two commands the second meets the unknown end of the
first at each of its own steps; 1.79 million states. *Checkpoint*: four events are what it takes to issue
two grants and to reserve and finalize in the middle of a reading; 1.39 million
states. *Lifecycle*: two lifecycle operations and a caller's own transaction under equal or
different keys, each of which the other call may finish at any time it is pending;
one torn line, after which nothing can be loaded; 1.98 million states.

*OperatorControl*: two submissions compete for the document, and one of them alone meets
new settings, a selection, an edit and the restart at every step; the attempt
shares the threads; three revisions let a chat be opened, a proposal bound and
something else written behind it. 3.61 million states, two and a half minutes.

Symmetry (`EventStore`, `MediaJob`, `Checkpoint`, `Lifecycle`, `SandboxLease`,
`OperatorControl`) is used in safety
runs only.

**Deadlock** is not checked where the system may stop: bounds are used up, or
everybody is done. What must not stop is stated as liveness.

**Fairness.** `EventStore`: weak fairness of each client's next step, because a
client is a running thread; none for sending a command, nor for crashes. The
outbox has no worker of its own: it is emptied only by callers, so the liveness
property assumes that commands keep being committed
(`[]<>` a client in `"outbox"`). `ToolBroker`: weak fairness of each thread and
of recovery, which runs on the starting thread before anything else. Crashes are
bounded, so recovery is finally allowed to finish; with unboundedly many
crashes nothing could be promised.
`ModelExecution`: weak fairness of each thread in a call, because every provider
request carries a deadline, and of recovery, which `serve()` runs to its end
before it listens; none for the operator or for sending a command. The
other modules have safety only: a media job that nobody polls, a mission
nobody disposes of and a sandbox nobody closes stay as they are.

**What some properties rely on.** `RetryAnswered` is stated for the services that
look their key up (`activate_lease`, `reserve_use`, `finalize_use` and others);
`EventStoreRetry` shows what happens to the rest. `EffectHoldsReservation` allows
a reservation that recovery of a driver run settled as *used*: the strong form,
`FinalizedAfterEffect`, is the one `ToolBrokerRuns` refutes.
`InvokedAtMostOnce` is checked for callers that do not send a request again
while it runs (`Resend = FALSE`), with resumption after crashes;
`ToolBrokerResend` shows that the broker itself does not enforce it.
`OpenUseFindable` excepts a run the operator cancelled under a working driver:
nothing closes its use. `SettledTogether` speaks of what the mission was created
with: a task planned or an approval asked for after the preview is not settled
(see the finding at `services.py:617`). `ClosedMeansRemoved` is about a lease that
names its container; one that was only reserved can be closed beside a container
(`SandboxClosed`). `UnknownEndKeepsOut` is about commands that have not yet read the
lease in their preflight; one that has does not read it again and may be executed
beside the first (`UnknownEndAlone`). It holds over restarts while the lease keeps the
reason `exec_termination_unknown`, which only a close takes away; after a failed close
it holds until the next restart, because the reconciler then lifts the quarantine
(`SandboxQuarantine`). It says nothing where the settlement was never committed
(`SandboxBlocked`). `AnsweredIsRecorded` speaks of operations that returned ok: the
tools commit and abort any pending transaction, so that a commit in the journal
alone stands for nothing (`CommittedMeansRecorded` fails). `JournalReplays` and
`ChangesAnnounced` hold of a journal without a torn line.

**Seen on the way**, all consistent with the checked properties:
a second recovery that finds the proof the first one missed is answered by the
first one's key (`reconcile-capability`), so an execution can end `completed` with
its use consumed as `indeterminate`; admitted executions are not looked at by
recovery, and wait for a caller to resume them; after recovery of a driver run
settled its use, an admitted execution that is denied can never be closed
(`Close` raises every time); a settlement that loses its version race leaves the
reservation open for good, with the execution `indeterminate`; a crash after
the use was finalized as succeeded can recover as `indeterminate`; a submission or
selection that became stale after its commit leaves a proposal or approval nothing
shows; a submission sent again after a crash calls the compiler again; and an attempt
between its claim and its listing is reported as indeterminate.

## 4. The proofs

Proved with TLAPS for every value of the constants that meets the named
assumptions.

`EventStore_proofs` (assumption `StreamsAssumption`: the parameters have their
types and a command names a stream at most once):

* `TypeCorrect`: `TypeOK`, inductive as it stands.
* `EffectsAtMostOnce`, from `ClaimExclusive`: a claimed key belongs to one client
  until completion, and before its mutation no effect was made under it.
* `DeliveredAtLeastOnce` and `FirstDeliveryOrder`, from `LoopDelivered`: whatever
  a dispatch loop is past has been delivered. Rows may be marked by another
  loop meanwhile; the invariant speaks of the loop's own queue only, which is
  what makes it inductive.
* `NoLostUpdate` (with `StateFirst = {}`), from `ReadsConsistent` and
  `PlanComplete`: what a client read is not ahead of the file, and *where its
  version still is the current one, so is the state it read after it*. This is
  the argument why comparing versions stands for comparing states; it needs the
  reading order, and `EventStoreStateFirst` shows it fail without.
* `StoreImplementsAtomicLedger` (same assumption): under the refinement
  `history <- state`, `appliedBy <-` the commands with an applied receipt, a
  successful `Transact` is `Apply` and every other step a stutter. This is what
  lets `Capability` treat a call as one step.
* `RepliesFaithful`, from `ReceiptBacked` (a receipt's command has its fingerprint,
  and its events are in the ledger if the receipt is an applied one), `ReplyNamed`
  and `PlanWhole` (what goes into a transaction without a receipt is the whole
  command). It needs no reading order: a reply is as true for a service that reads
  the state first.
* `RetriesAnswered`, from `RetryInv`: receipts are never removed, so a receipt found at the
  start of a call is there at the look-up, and the call never gets to read.

`ToolBroker_proofs` (`CapabilityAssumption`, `BrokerAssumption`) covers the grant by
itself, the grant as the broker uses it, and the executions that spend it.

* The grant alone (`CapSpec`): `CapInv` strengthens the properties by `LeaseNarrows`
  (the active lease still narrows the grant) and `GrantedIsFresh` (a grant not yet
  leased has no use and no reservation behind it, which is why activating a lease
  cannot resurrect a spent one). From it `CapTypeCorrect`, `ReservationsWithinGrant`,
  `ActiveLeaseHasBudget`, and the action property `EndedAuthorityStops`.
  `BooksBalance` (reservations and consumptions agree, `ConsumptionBalance`) counts
  positions: a finalization appends one consumption, so the set of counted positions
  grows by the new one or not at all (`PositionsAppend`).
* The grant inside the broker (`Spec`), *for either value of* `Resend`:
  `BrokerTypeCorrect`, and `BrokerStepsAreGrantSteps`: whatever the threads do, the
  grant takes only steps of its own, on its state of the moment. The argument is
  `SeenLegal`: while the stream of the grant has the version a thread read, what made
  its reservation or settlement legal then still holds, and a commit at another version
  is refused. From it `BrokerGrantCorrect`, `BrokerBooksBalance`, `BrokerAuthorityStops`
  carry what is proved of the grant alone over to the service.
* The executions, also for either value of `Resend`: `ExecutionsFollowTable`, by the same
  argument for the version of the execution (`MoveWhenCurrent`), and because the key of
  a creation is known as soon as there is an execution (`PreparedKnown`). So a terminal
  state is final even where two threads carry out one request.
* What needs one thread per execution, under `Resend = FALSE`:
  `AdapterCalledAtMostOnce`, `EffectRunsOnReservation`, `AggregatesAgree`,
  `NothingStranded` and `NoPhantomAuthority`. No one of them is inductive. The invariant
  `InOrder` says what a known key tells of its execution (`KeysTell`: this is why no call
  is answered with an old result), what execution and reservation say of each other
  whoever works on them (`Rests`), in which states a thread finds its execution at
  each label and with each call half done (`PlaceOf`), that no two threads have one
  execution (`OneActor`), and that an unfinished one has a thread or is on the list of
  the recovery (`Attended`). The hypothesis is needed: with `Resend = TRUE` TLC violates
  `InvokedAtMostOnce` (`ToolBrokerResend.cfg`, see the findings), and also
  `EffectHoldsReservation`, `SettlementAgrees` and `NoPhantomReservation`.

`ModelExecution_proofs` (`ExecutionAssumption`): the inductive invariant `IInv` adds
to the types `Fresh` (before the approval is consumed nothing has happened),
`OneExecutes` (only the thread whose admission won is past it), `Phases` (the
state of run, task, use and counters at each of its places, and, when no thread is
at work, at each place of recovery), `Unstarted` and `UseClosedFirst`. The places
are what makes it inductive: no single property is, since each relies on the
one thread that is past admission. From it `DispatchedOnceTheorem`,
`RequestsRecordedTheorem`, `FailedMeansUndispatchedTheorem`,
`OpenUseFindableTheorem`, `ResultSupportedTheorem`, for any
number of threads, commands and crashes.

`MediaJob_proofs` (`MediaAssumption`): `ApprovedIsFresh`, `OneSubmits`, `PaidShows`
(a paid job is visible in boundary and receipt), `CopyBacked` (a stale copy still
says only what was so and stays so), `OneDownloads`; from them `PaidOnceTheorem`,
`DownloadedOnceTheorem`, `ReceiptBackedTheorem`.

`Mission_proofs` (`MissionAssumption`), for any number of concurrent dispositions:
`WorksOnOpen` (a disposition holds an open mission's version, or an older one),
`CompletionEarned` (what the preview of a completion saw cannot be undone) and
`SettlesAll` (every open task and approval the mission was created with is in the
preview or ends by itself); from them `CompletedIsEarnedTheorem`,
`SettledTogetherTheorem`, and the action property `MissionStaysTheorem`.

`LocalFiles_proofs` is about the two components with a file of their own; it extends
both, which is why the names of `OperatorControl` are distinct from those of `Lifecycle`.

* The journal (`LifecycleAssumption`): `SeenIsWritten`, `HeldIsBegun`, `OneTx`,
  `RecordedHasRow`, `CommittedIsSeen` (what a call knows of its own transaction at each
  place, whatever others append); from them `JournalReplaysTheorem`,
  `AnsweredIsRecordedTheorem`, `ChangesAnnouncedTheorem`.
* The control document (`ControlAssumption`), for any threads, commands and attempts,
  edits, restarts, and writes that raise before or after the file was replaced:
  `OneDocument` (the file is at least as new as the document in memory, the document as
  every copy a command was written for, and equal revisions are equal documents), which
  gives `RevisionsNameDocuments` and lets `require_current` compare revisions;
  `RecordsFit` and `ThreadFits` (what is recorded for a command, and what a thread has in
  hand on the way there, is of the configuration and proposal of the document the command
  was written for). A binding is made only where the document in force *is* that one,
  so the recorded configuration is the one in force: `SurfaceShowsWhatBelongs`, from
  `AllAgree`, which says the same of the file and of every copy, since a restart
  takes up the file. `Pursuit` (one thread at most pursues an attempt, none before the
  claim, and none has compiled before it does) gives `AttemptCompiledOnce`.

`SandboxLease_proofs` (`SandboxAssumption`): `Placed` (the state of execution and use
at each label), `OneContainer` (only the request that reserved the lease creates,
and only before it is known to have), `Names` (a container that is bound exists or
is gone for good), `Spent` (uses follow executions), `Unended` (until the
first restart, a command nobody waits for is being settled or its lease is out
of use), `Stands` (over all restarts, a lease that keeps the reason of an unknown end is
out of use) and `EntryNeedsLease` (no step lets a command in while the lease is not
running); from them `OneCreation`, `ClosedIsRemoved`, `SettlementsDoAgree`,
`UnknownEndDoesQuarantine` and the action property `UnknownEndDoesKeepOut`, for any set
of requests.

`Checkpoint_proofs` (`CheckpointAssumption`): `History` (versions only grow, and equal
versions mean equal states), `Placed` (each state was read at some position
between the list and the head) and `Kept` (so it is in what was saved, with an
outbox read after the head); from them
`AcceptedIsExactTheorem` and `OutboxCompleteTheorem`. This is the argument why
four reads may stand for one moment once replay has compared the versions, and
only then: `SavedIsAccepted` fails.

Every safety invariant and action property of the runs is thus stated by a theorem, under
the hypotheses it names. Model-checked only: liveness (`EveryEventDispatched`,
`CrossedIsSettled`, `Recovered`), which is out of the prover's reach as is `ENABLED`.
No module declares a RECURSIVE operator.

## 5. Not modelled

Within the modelled components:

* *Store*: checkpoint rows (they are in `Checkpoint`), diagnostics, council
  receipts and security rejections; its hash chain and encryption; subscriptions
  that change at run time; SQLite errors. Commands that append twice to one
  stream (`reconcile_complete` of `dispose_mission`) are excluded by assumption.
* *Grants and broker*: lease scope, conditions and external commitments; read-only
  tool requests and the checks that only raise (identity, fingerprint, descriptor
  drift).
* *Model execution*: prompt assembly, evidence files, output gates, token and cost
  sums, the loopback drivers. *Media*: preparation of a request, and uploads,
  which take the path of a submission under other names.
* *Missions*: next work packets and `submit_result`, whose lease protocol no client
  of the service reaches; digests an approval is bound to, which only raise.
* *Sandboxes*: guardian and network of an allowlist profile, a `docker create` that
  lands after the inventory of a restart, two threads on one request, the report of
  orphans.
* *Checkpoints*: artifacts and the digest of the manifest, replay's reducers
  (`findings` tells of two that are missing), replay forks.
* *Lifecycle*: evidence for a promotion, procedures, sessions, feedback.
* *Operator control*: the compiler and its stages, sessions that are not active, the
  comparison of an execution with the proposal it was approved for.

Whole components, with the reason in `PROJECT.json`: council and cohorts, vessel
dispatcher, memory engine (retrieval and text), discovery and providers, tool adapters, MCP, desktop IPC, the KHSB bus, the foundry,
user interfaces, contracts and command line. Most of their lines are text work,
data or I/O with no state that two actors share; the state the rest keep goes
through the event store's protocol, which is modelled.

## 6. The plan

1. `ManagedSkills`: the swap of the pack directory in two renames, beside the claim of
   its command, with a crash between them.
2. `Council`: a receipt that is claimed before a member is dispatched, and stays
   `in_progress` after a crash; cohorts above it.
3. Replay forks, with `Checkpoint`; `KHSB`, request and reply with late answers.
4. Two dispositions at a time in `Mission`, with a smaller task; guardian and network in
   `SandboxLease`.
5. Proofs: that the lease of a sandbox refines the grant's view of one use, as the broker
   does; what of `InOrder` survives a repeated request (one adapter call per thread, a
   reservation settled once); shorter proofs for `ModelExecution` and `MediaJob`, one
   lemma per group of steps that touch the same variables.
