----------------------------- MODULE EventStore -----------------------------
(***************************************************************************)
(* The write path of the CAPT runtime: capt_runtime/store.py (EventStore)  *)
(* together with what every service in capt_runtime/services.py does       *)
(* around it.  A client (a thread of the desktop service, or a second      *)
(* process that opened the same ledger file) looks its idempotency key up, *)
(* reads version and state of the streams it will change, asks the         *)
(* aggregate for the next state, and hands the appends to commit_command,  *)
(* which writes events, snapshots, outbox rows and the receipt in one      *)
(* SQLite transaction; _commit then dispatches the outbox.  Long-running   *)
(* commands claim their key before an external effect instead.             *)
(*                                                                         *)
(* An aggregate's state is abstracted to the commands folded into it, so a *)
(* lost update is visible as a command missing from a snapshot.            *)
(***************************************************************************)
EXTENDS Naturals, Sequences

CONSTANTS
  Proc,         \* clients: threads or processes sharing the ledger
  Stream,       \* aggregate streams
  Cmd,          \* commands, one per commandId: a retry is another member
  Key,          \* idempotency keys
  Fingerprint,  \* operation fingerprints
  KeyOf,        \* KeyOf[c], FpOf[c]: what the metadata of c carries
  FpOf,
  StreamsOf,    \* StreamsOf[c]: the streams c appends to, in order
  LongRunning,  \* commands that claim their key around an external effect
  Prechecked,   \* commands whose service looks the key up before it reads
  StateFirst,   \* commands whose service reads state before version
  Poison,       \* commands whose events make a subscriber raise, always
  Legal(_, _),  \* Legal(c, h): the aggregate with history h accepts c
  None,
  MaxCrashes,   \* bound on crashes of clients
  MaxRaises     \* bound on exceptions of otherwise healthy subscribers

Elems(seq) == {seq[i] : i \in DOMAIN seq}

Touches == [c \in Cmd |-> Elems(StreamsOf[c])]

ReceiptStatus == {"applied", "in_progress", "completed", "failed"}
Receipt == [cmd : Cmd, fp : Fingerprint, status : ReceiptStatus]

ASSUME StreamsAssumption ==
  /\ KeyOf \in [Cmd -> Key]
  /\ FpOf \in [Cmd -> Fingerprint]
  /\ StreamsOf \in [Cmd -> Seq(Stream)]
  /\ \A c \in Cmd : \A i, j \in DOMAIN StreamsOf[c] :
       StreamsOf[c][i] = StreamsOf[c][j] => i = j
  /\ LongRunning \subseteq Cmd
  /\ Prechecked \subseteq Cmd
  /\ StateFirst \subseteq Cmd
  /\ Poison \subseteq Cmd
  /\ None \notin Cmd \cup Receipt
  /\ MaxCrashes \in Nat /\ MaxRaises \in Nat

Event == [cmd : Cmd, stream : Stream, version : Nat]

PC == {"idle", "precheck", "reading", "check", "txn", "outbox", "deliver",
       "mark", "claim", "effect", "complete"}
ReplyKind == {"none", "applied", "idempotent", "in_progress", "completed",
              "failed", "key_conflict", "stale", "refused", "raised"}

VARIABLES
  \* the SQLite file
  version,      \* version[s], state[s]: the row of table aggregates
  state,
  ledger,       \* table events, in global_sequence order
  pending,      \* outbox rows with status 'pending', by global_sequence
  receipt,      \* table idempotency: receipt[k], or None
  \* the world outside
  effects,      \* effects[k]: external mutations made under key k
  delivered,    \* global_sequences a subscriber has been called with
  \* each client's volatile state
  pc, cur,
  seenVersion,  \* what p read of each stream, and of which streams
  seenState,
  verRead, stRead,
  appends,      \* the streams in the AppendRequests p hands to the store
  queue,        \* global_sequences left in p's dispatch loop
  reply,        \* outcome of p's last call and the command it reports
  answered,     \* the key already had a receipt when p's call began
  crashes, raises

storeVars == <<version, state, ledger, pending, receipt>>
worldVars == <<effects, delivered>>
readVars == <<seenVersion, seenState, verRead, stRead>>
clientVars == <<pc, cur, readVars, appends, queue, reply, answered>>
vars == <<storeVars, worldVars, clientVars, crashes, raises>>

NoReply == [kind |-> "none", cmd |-> None]
NothingSeen ==
  /\ seenVersion = [p \in Proc |-> [s \in Stream |-> 0]]
  /\ seenState = [p \in Proc |-> [s \in Stream |-> <<>>]]
  /\ verRead = [p \in Proc |-> {}]
  /\ stRead = [p \in Proc |-> {}]

Init ==
  /\ version = [s \in Stream |-> 0]
  /\ state = [s \in Stream |-> <<>>]
  /\ ledger = <<>>
  /\ pending = {}
  /\ receipt = [k \in Key |-> None]
  /\ effects = [k \in Key |-> 0]
  /\ delivered = {}
  /\ pc = [p \in Proc |-> "idle"]
  /\ cur = [p \in Proc |-> None]
  /\ NothingSeen
  /\ appends = [p \in Proc |-> <<>>]
  /\ queue = [p \in Proc |-> {}]
  /\ reply = [p \in Proc |-> NoReply]
  /\ answered = [p \in Proc |-> FALSE]
  /\ crashes = 0
  /\ raises = 0
-----------------------------------------------------------------------------
Prior(p) == receipt[KeyOf[cur[p]]]

\* Mutant: the stored fingerprint is not compared with the offered one.
SameOperation_AnyFingerprint(p) == TRUE

SameOperation(p) == Prior(p).fp = FpOf[cur[p]]

Goto(p, label) == pc' = [pc EXCEPT ![p] = label]

(* p forgets what it read and what it planned. *)
Forget(p) ==
  /\ seenVersion' = [seenVersion EXCEPT ![p] = [s \in Stream |-> 0]]
  /\ seenState' = [seenState EXCEPT ![p] = [s \in Stream |-> <<>>]]
  /\ verRead' = [verRead EXCEPT ![p] = {}]
  /\ stRead' = [stRead EXCEPT ![p] = {}]
  /\ appends' = [appends EXCEPT ![p] = <<>>]

Answer(p, kind, c) ==
  /\ reply' = [reply EXCEPT ![p] = [kind |-> kind, cmd |-> c]]
  /\ Forget(p)

(* The call of p ends: with an answer, or with the exception named by kind. *)
Return(p, kind, c) ==
  /\ Goto(p, "idle")
  /\ Answer(p, kind, c)

(* A caller sends c; the same command may be sent again at any time. *)
Start(p, c) ==
  /\ pc[p] = "idle"
  /\ Goto(p, IF c \in LongRunning THEN "claim"
             ELSE IF c \in Prechecked THEN "precheck" ELSE "reading")
  /\ cur' = [cur EXCEPT ![p] = c]
  /\ reply' = [reply EXCEPT ![p] = NoReply]
  /\ answered' = [answered EXCEPT ![p] =
       receipt[KeyOf[c]] # None /\ receipt[KeyOf[c]].fp = FpOf[c]]
  /\ UNCHANGED <<storeVars, worldVars, readVars, appends, queue, crashes, raises>>

\* Mutant: the look-up before reading is dropped.
Precheck_Skipped(p) ==
  /\ pc[p] = "precheck"
  /\ Goto(p, "reading")
  /\ UNCHANGED <<storeVars, worldVars, cur, readVars, appends, queue, reply,
                 answered, crashes, raises>>

(* find_idempotent at the top of a service: a known key goes straight to   *)
(* _commit([], metadata).                                                  *)
Precheck(p) ==
  /\ pc[p] = "precheck"
  /\ Goto(p, IF Prior(p) = None THEN "reading" ELSE "check")
  /\ UNCHANGED <<storeVars, worldVars, cur, readVars, appends, queue, reply,
                 answered, crashes, raises>>

(* aggregate_version(s), one locked query. *)
ReadVersion(p, s) ==
  /\ pc[p] = "reading"
  /\ s \in Touches[cur[p]] \ verRead[p]
  /\ cur[p] \in StateFirst => s \in stRead[p]
  /\ seenVersion' = [seenVersion EXCEPT ![p][s] = version[s]]
  /\ verRead' = [verRead EXCEPT ![p] = @ \cup {s}]
  /\ UNCHANGED <<storeVars, worldVars, pc, cur, seenState, stRead, appends, queue,
                 reply, answered, crashes, raises>>

(* load_state(s) or require_state(s), another locked query. *)
ReadState(p, s) ==
  /\ pc[p] = "reading"
  /\ s \in Touches[cur[p]] \ stRead[p]
  /\ cur[p] \notin StateFirst => s \in verRead[p]
  /\ seenState' = [seenState EXCEPT ![p][s] = state[s]]
  /\ stRead' = [stRead EXCEPT ![p] = @ \cup {s}]
  /\ UNCHANGED <<storeVars, worldVars, pc, cur, seenVersion, verRead, appends, queue,
                 reply, answered, crashes, raises>>

AllRead(p) == verRead[p] = Touches[cur[p]] /\ stRead[p] = Touches[cur[p]]

\* Mutant: the aggregate's own transition check is skipped.
Accepted_Always(p) == TRUE

Accepted(p) == \A s \in Touches[cur[p]] : Legal(cur[p], seenState[p][s])

(* The aggregate computes the next states from what was read. *)
Decide(p) ==
  /\ pc[p] = "reading" /\ AllRead(p) /\ Accepted(p)
  /\ Goto(p, "check")
  /\ appends' = [appends EXCEPT ![p] = StreamsOf[cur[p]]]
  /\ UNCHANGED <<storeVars, worldVars, cur, readVars, queue, reply, answered,
                 crashes, raises>>

(* The aggregate raises IllegalTransition, CapabilityDenied, ... *)
Refuse(p) ==
  /\ pc[p] = "reading" /\ AllRead(p) /\ ~Accepted(p)
  /\ Return(p, "refused", None)
  /\ UNCHANGED <<storeVars, worldVars, cur, queue, answered, crashes, raises>>
-----------------------------------------------------------------------------
(* commit_command on a key that has a receipt: the original result, or     *)
(* IdempotencyConflict when the fingerprints differ.  _commit dispatches   *)
(* after a replayed result too.                                            *)
Replayed(p) ==
  /\ Prior(p) # None
  /\ \/ /\ SameOperation(p)
        /\ Goto(p, "outbox")
        /\ Answer(p, "idempotent", Prior(p).cmd)
     \/ /\ ~SameOperation(p)
        /\ Return(p, "key_conflict", None)
  /\ UNCHANGED <<storeVars, worldVars, cur, queue, answered, crashes, raises>>

(* The look-up before BEGIN IMMEDIATE: under the thread lock, but another  *)
(* process can still commit before the write lock is taken.                *)
CheckIdempotency(p) ==
  /\ pc[p] = "check"
  /\ \/ Replayed(p)
     \/ /\ Prior(p) = None
        /\ Goto(p, "txn")
        /\ UNCHANGED <<storeVars, worldVars, cur, readVars, appends, queue, reply,
                       answered, crashes, raises>>

\* Mutant: only the first append is checked against its expected version.
VersionsMatch_FirstOnly(p) ==
  appends[p] # <<>> => seenVersion[p][Head(appends[p])] = version[Head(appends[p])]

VersionsMatch(p) == \A s \in Elems(appends[p]) : seenVersion[p][s] = version[s]

\* Outbox rows for the events of an append list written after event number base.
NewRows(base, streams) == base + 1 .. base + Len(streams)

(* The events of command c, one per append, on streams at versions ver. *)
NewEvents(c, streams, ver) ==
  [i \in DOMAIN streams |->
     [cmd |-> c, stream |-> streams[i], version |-> ver[streams[i]] + 1]]

(* The rows written for p's appends: one event each, the snapshot the      *)
(* service computed, an outbox row, and the receipt.                       *)
WriteAppends(p) ==
  LET c == cur[p]
      streams == appends[p]
      base == Len(ledger)
  IN  /\ version' = [s \in Stream |->
            IF s \in Elems(streams) THEN version[s] + 1 ELSE version[s]]
      /\ state' = [s \in Stream |->
            IF s \in Elems(streams) THEN Append(seenState[p][s], c) ELSE state[s]]
      /\ ledger' = ledger \o NewEvents(c, streams, version)
      /\ pending' = pending \cup NewRows(base, streams)
      /\ receipt' = [receipt EXCEPT ![KeyOf[c]] =
            [cmd |-> c, fp |-> FpOf[c], status |-> "applied"]]

(* A mismatch raises ConcurrencyConflict and rolls everything back. *)
Rollback(p) ==
  /\ Prior(p) = None /\ ~VersionsMatch(p)
  /\ Return(p, "stale", None)
  /\ UNCHANGED <<storeVars, worldVars, cur, queue, answered, crashes, raises>>

Commit(p) ==
  /\ Prior(p) = None /\ VersionsMatch(p)
  /\ WriteAppends(p)
  /\ Goto(p, "outbox")
  /\ Answer(p, "applied", cur[p])
  /\ UNCHANGED <<worldVars, cur, queue, answered, crashes, raises>>

(* The transaction: the key is looked up again under the write lock, then  *)
(* every append is checked against its expected version.                   *)
Transact(p) ==
  /\ pc[p] = "txn"
  /\ Replayed(p) \/ Rollback(p) \/ Commit(p)
-----------------------------------------------------------------------------
(* dispatch() reads the pending rows once and handles them in             *)
(* global_sequence order: n is the next one of p's loop.                   *)
\* Mutant: ORDER BY global_sequence DESC.
NextInQueue_Descending(p, n) == n \in queue[p] /\ \A m \in queue[p] : m <= n

NextInQueue(p, n) == n \in queue[p] /\ \A m \in queue[p] : n <= m

BeginDispatch(p) ==
  /\ pc[p] = "outbox"
  /\ queue' = [queue EXCEPT ![p] = pending]
  /\ Goto(p, IF pending = {} THEN "idle" ELSE "deliver")
  /\ UNCHANGED <<storeVars, worldVars, cur, readVars, appends, reply, answered,
                 crashes, raises>>

(* The subscribers are called outside every lock. *)
Deliver(p) ==
  /\ pc[p] = "deliver"
  /\ \E n \in queue[p] :
       /\ NextInQueue(p, n)
       /\ ledger[n].cmd \notin Poison
       /\ delivered' = delivered \cup {n}
  /\ Goto(p, "mark")
  /\ UNCHANGED <<storeVars, effects, cur, readVars, appends, queue, reply, answered,
                 crashes, raises>>

\* Mutant: the exception is swallowed and the row is marked all the same.
SubscriberRaises_Swallowed(p) ==
  /\ pc[p] = "deliver"
  /\ raises < MaxRaises /\ raises' = raises + 1
  /\ Goto(p, "mark")
  /\ UNCHANGED <<storeVars, worldVars, cur, readVars, appends, queue, reply, answered,
                 crashes>>

(* A subscriber raises: the exception leaves dispatch(), then _commit, and *)
(* the caller of an already committed command gets it instead of a result. *)
SubscriberRaises(p) ==
  /\ pc[p] = "deliver"
  /\ \E n \in queue[p] :
       /\ NextInQueue(p, n)
       /\ \/ ledger[n].cmd \in Poison /\ UNCHANGED raises
          \/ ledger[n].cmd \notin Poison
             /\ raises < MaxRaises /\ raises' = raises + 1
  /\ Return(p, "raised", None)
  /\ queue' = [queue EXCEPT ![p] = {}]
  /\ UNCHANGED <<storeVars, worldVars, cur, answered, crashes>>

\* Mutant: the UPDATE leaves the row pending.
Dispatched_Nothing(n) == pending

Dispatched(n) == pending \ {n}

MarkDispatched(p) ==
  /\ pc[p] = "mark"
  /\ \E n \in queue[p] :
       /\ NextInQueue(p, n)
       /\ pending' = Dispatched(n)
       /\ queue' = [queue EXCEPT ![p] = @ \ {n}]
       /\ Goto(p, IF queue[p] = {n} THEN "idle" ELSE "deliver")
  /\ UNCHANGED <<version, state, ledger, receipt, worldVars, cur, readVars, appends,
                 reply, answered, crashes, raises>>
-----------------------------------------------------------------------------
\* Mutant: a claim left in progress by somebody else is taken over.
Unclaimed_RetryInProgress(p) == Prior(p) # None => Prior(p).status = "in_progress"

Unclaimed(p) == Prior(p) = None

ClaimNew(p) ==
  /\ Unclaimed(p)
  /\ receipt' = [receipt EXCEPT ![KeyOf[cur[p]]] =
       [cmd |-> cur[p], fp |-> FpOf[cur[p]], status |-> "in_progress"]]
  /\ Goto(p, "effect")
  /\ UNCHANGED <<reply, readVars, appends>>

ClaimKnown(p) ==
  /\ Prior(p) # None
  /\ \/ ~SameOperation(p) /\ Return(p, "key_conflict", None)
     \/ /\ SameOperation(p)
        /\ Return(p, IF Prior(p).status = "in_progress" THEN "in_progress"
                     ELSE "idempotent", Prior(p).cmd)
  /\ UNCHANGED receipt

(* claim_command: durable admission of a long-running command. *)
Claim(p) ==
  /\ pc[p] = "claim"
  /\ ClaimNew(p) \/ ClaimKnown(p)
  /\ UNCHANGED <<version, state, ledger, pending, worldVars, cur, queue, answered,
                 crashes, raises>>

(* mutation(): the swap of the files, or whatever the command does outside. *)
Mutate(p) ==
  /\ pc[p] = "effect"
  /\ effects' = [effects EXCEPT ![KeyOf[cur[p]]] = @ + 1]
  /\ Goto(p, "complete")
  /\ UNCHANGED <<storeVars, delivered, cur, readVars, appends, queue, reply, answered,
                 crashes, raises>>

(* complete_claimed_command with the outcome of the mutation. *)
CompleteClaimed(p) ==
  /\ pc[p] = "complete"
  /\ Prior(p) # None /\ SameOperation(p)
  /\ \E outcome \in {"completed", "failed"} :
       /\ receipt' = [receipt EXCEPT ![KeyOf[cur[p]]].status = outcome]
       /\ Return(p, outcome, cur[p])
  /\ UNCHANGED <<version, state, ledger, pending, worldVars, cur, queue, answered,
                 crashes, raises>>
-----------------------------------------------------------------------------
(* The client dies between two of its steps; the file survives. *)
Crash(p) ==
  /\ pc[p] # "idle"
  /\ crashes < MaxCrashes
  /\ crashes' = crashes + 1
  /\ Return(p, "none", None)
  /\ queue' = [queue EXCEPT ![p] = {}]
  /\ UNCHANGED <<storeVars, worldVars, cur, answered, raises>>

Step(p) ==
  \/ Precheck(p)
  \/ \E s \in Stream : ReadVersion(p, s) \/ ReadState(p, s)
  \/ Decide(p)
  \/ Refuse(p)
  \/ CheckIdempotency(p)
  \/ Transact(p)
  \/ BeginDispatch(p)
  \/ Deliver(p)
  \/ MarkDispatched(p)
  \/ Claim(p)
  \/ Mutate(p)
  \/ CompleteClaimed(p)

Next ==
  \E p \in Proc :
    \/ \E c \in Cmd : Start(p, c)
    \/ Step(p)
    \/ SubscriberRaises(p)
    \/ Crash(p)

Spec == Init /\ [][Next]_vars

(* A running client is scheduled; a permanently raising subscriber raises. *)
Fairness == \A p \in Proc : WF_vars(Step(p) \/ SubscriberRaises(p))
FairSpec == Spec /\ Fairness
-----------------------------------------------------------------------------
(* Types, and the facts about volatile state that only hold between steps: *)
(* a dispatch loop never holds a sequence number without a ledger row, and *)
(* the outbox never references an event that is not in the ledger          *)
(* (dispatch raises IntegrityViolation on one).                            *)
TypeOK ==
  /\ version \in [Stream -> Nat]
  /\ state \in [Stream -> Seq(Cmd)]
  /\ ledger \in Seq(Event)
  /\ receipt \in [Key -> Receipt \cup {None}]
  /\ pending \subseteq 1..Len(ledger)
  /\ delivered \subseteq 1..Len(ledger)
  /\ effects \in [Key -> Nat]
  /\ pc \in [Proc -> PC]
  /\ cur \in [Proc -> Cmd \cup {None}]
  /\ \A p \in Proc : pc[p] # "idle" => cur[p] \in Cmd
  /\ seenVersion \in [Proc -> [Stream -> Nat]]
  /\ seenState \in [Proc -> [Stream -> Seq(Cmd)]]
  /\ verRead \in [Proc -> SUBSET Stream]
  /\ stRead \in [Proc -> SUBSET Stream]
  /\ appends \in [Proc -> Seq(Stream)]
  /\ queue \in [Proc -> SUBSET (1..Len(ledger))]
  /\ reply \in [Proc -> [kind : ReplyKind, cmd : Cmd \cup {None}]]
  /\ answered \in [Proc -> BOOLEAN]
  /\ crashes \in Nat /\ raises \in Nat

(* Every snapshot is the fold of its stream's events: versions count from 1 *)
(* without a gap or a duplicate, and the n-th command folded into the state *)
(* is the one of the n-th event.  A lost update, a write skew or a half     *)
(* rolled-back transaction breaks it (commit_command, aggregates/events).   *)
SnapshotIsFold ==
  /\ \A s \in Stream : Len(state[s]) = version[s]
  /\ \A n \in DOMAIN ledger :
       /\ ledger[n].version \in 1..version[ledger[n].stream]
       /\ state[ledger[n].stream][ledger[n].version] = ledger[n].cmd
  /\ \A s \in Stream : \A v \in 1..version[s] :
       \E n \in DOMAIN ledger : ledger[n].stream = s /\ ledger[n].version = v
  /\ \A m, n \in DOMAIN ledger :
       m < n /\ ledger[m].stream = ledger[n].stream => ledger[m].version < ledger[n].version

(* A caller that is told "applied" or "idempotent" is told about an         *)
(* operation with its own fingerprint that really is in the ledger, with    *)
(* every one of its events: not about another operation under its key, nor  *)
(* about a transaction that rolled back (commit_command's replayed result). *)
ReplyFaithful ==
  \A p \in Proc : reply[p].kind \in {"applied", "idempotent"} =>
    LET c == reply[p].cmd IN
    /\ receipt[KeyOf[cur[p]]] # None
    /\ receipt[KeyOf[cur[p]]].cmd = c
    /\ FpOf[c] = FpOf[cur[p]]
    /\ receipt[KeyOf[cur[p]]].status = "applied" =>
         \A s \in Touches[c] :
           \E n \in DOMAIN ledger : ledger[n].cmd = c /\ ledger[n].stream = s

(* An external mutation admitted by claim_command is made at most once per  *)
(* key, through duplicates arriving while it runs and crashes on either     *)
(* side of it.                                                              *)
EffectAtMostOnce == \A k \in Key : effects[k] <= 1

(* Subscribers first see the events in ledger order: when one has been      *)
(* delivered so has every earlier one, whatever the interleaving of the     *)
(* dispatch loops of several clients (dispatch, pending_outbox).            *)
DeliveredInOrder == \A n \in delivered : 1..n \subseteq delivered

(* At least once: an outbox row is marked dispatched only for an event some *)
(* subscriber call returned from, through crashes and exceptions.           *)
AtLeastOnce == (1..Len(ledger)) \ pending \subseteq delivered

(* A retry of an operation that had its receipt when the retry began is not *)
(* refused by the aggregate on the state the operation itself produced, for *)
(* the services that look the key up first (ADR-0108, command idempotency). *)
RetryAnswered ==
  \A p \in Proc : answered[p] /\ cur[p] \in Prechecked => reply[p].kind # "refused"

(* ADR-0108, "Found, fingerprint matches: return the recorded outcome":     *)
(* the same for every service, those without a look-up of their own         *)
(* (transition_task, transition_mission, revoke) included.                  *)
RecordedOutcomeReturned == \A p \in Proc : answered[p] => reply[p].kind # "refused"

(* The store applies commands as the abstract ledger does: atomically, on   *)
(* the current state, legally, and once per key.                            *)
AppliedBy(k) ==
  IF receipt[k] # None /\ receipt[k].status = "applied" THEN receipt[k].cmd ELSE None

Atomic == INSTANCE AtomicLedger WITH
  history <- state,
  appliedBy <- [k \in Key |-> AppliedBy(k)]

ImplementsAtomicLedger == Atomic!Spec

(* As long as calls keep reaching their dispatch, every committed event     *)
(* leaves the outbox, unless its own subscriber always raises: nothing else *)
(* that happens to other events may hold it back (dispatch, ADR-0105).      *)
PendingOf(c) == \E n \in pending : ledger[n].cmd = c

EveryEventDispatched ==
  []<>(\E p \in Proc : pc[p] = "outbox")
    => \A c \in Cmd \ Poison : PendingOf(c) ~> ~PendingOf(c)
-----------------------------------------------------------------------------
(***************************************************************************)
(* What makes the properties above inductive.                              *)
(***************************************************************************)

(* What p read is not ahead of the file, and where the version still is the *)
(* current one so is the state that was read AFTER it.  This is what the    *)
(* order "version, then state" buys, and what lets the version check stand  *)
(* for a comparison of states.                                              *)
ReadsConsistent ==
  \A p \in Proc :
    /\ stRead[p] \subseteq verRead[p]
    /\ \A s \in verRead[p] : seenVersion[p][s] <= version[s]
    /\ \A s \in stRead[p] :
         seenVersion[p][s] = version[s] => seenState[p][s] = state[s]

(* The appends a client is about to commit are all of its command's, on     *)
(* streams it read and whose state accepted the command; or none, when the  *)
(* look-up before reading had already found the receipt.                    *)
PlanComplete ==
  \A p \in Proc :
    IF pc[p] \in {"check", "txn"}
    THEN \/ /\ appends[p] = StreamsOf[cur[p]]
            /\ AllRead(p) /\ Accepted(p)
         \/ appends[p] = <<>> /\ Prior(p) # None
    ELSE appends[p] = <<>>

(* A claimed key belongs to the one client between claim and completion,    *)
(* and until that client's mutation no effect was made under it.            *)
ClaimExclusive ==
  /\ \A p \in Proc : pc[p] \in {"effect", "complete"} =>
       Prior(p) # None /\ Prior(p).status = "in_progress"
  /\ \A p, q \in Proc :
       /\ pc[p] \in {"effect", "complete"} /\ pc[q] \in {"effect", "complete"}
       /\ KeyOf[cur[p]] = KeyOf[cur[q]]
       => p = q
  /\ \A p \in Proc : pc[p] = "effect" => effects[KeyOf[cur[p]]] = 0
  /\ \A k \in Key : receipt[k] = None => effects[k] = 0

(* In a dispatch loop every event the loop is past has been delivered, the  *)
(* one about to be marked included.                                         *)
LoopDelivered ==
  \A p \in Proc : \A n \in queue[p] :
    /\ \A m \in 1..n : m \notin queue[p] => m \in delivered
    /\ pc[p] = "mark" /\ NextInQueue(p, n) => n \in delivered

Inv ==
  /\ TypeOK
  /\ ReadsConsistent
  /\ PlanComplete
  /\ ClaimExclusive
  /\ LoopDelivered
  /\ SnapshotIsFold
  /\ EffectAtMostOnce
  /\ AtLeastOnce
  /\ DeliveredInOrder
=============================================================================
