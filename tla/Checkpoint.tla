----------------------------- MODULE Checkpoint -----------------------------
(***************************************************************************)
(* Checkpoints (checkpoint.py): a manifest is put together from several    *)
(* reads of the event store, each under its lock, while other threads and  *)
(* processes commit and events are dispatched.  checkpoint_replay judges   *)
(* it against the ledger, resume_runtime hands out the newest unjudged.    *)
(*                                                                         *)
(* The ledger is the table of the capability streams after each of its     *)
(* events, which EventStore's SnapshotIsFold allows.  Streams of other     *)
(* kinds are capability streams that nothing is reserved on.  Artifacts,   *)
(* the policy digest and the digest of the manifest are data.              *)
(***************************************************************************)
EXTENDS Naturals

CONSTANTS
  Stream,       \* capability streams
  Thread,       \* commands that ask for a checkpoint, which is named after them
  MaxEvents     \* bound on the ledger

ASSUME CheckpointAssumption == MaxEvents \in Nat

VARIABLES
  head,         \* MAX(global_sequence)
  table,        \* table[n]: version and reservation of each stream after event n
  dispatched,   \* events that left the outbox
  saved,        \* each command's row of checkpoints
  pc, draft     \* each thread's place, and what it has read so far

ledger == <<head, table, dispatched>>
vars == <<ledger, saved, pc, draft>>

Empty == [version |-> 0, use |-> "none"]
NoDraft == [version |-> [s \in Stream |-> 0], todo |-> {}, open |-> {},
            position |-> 0, chain |-> 0, pending |-> {}]

Init ==
  /\ head = 0 /\ table = [n \in 0..0 |-> [s \in Stream |-> Empty]]
  /\ dispatched = {}
  /\ saved = [t \in Thread |-> NoDraft]
  /\ pc = [t \in Thread |-> "idle"] /\ draft = [t \in Thread |-> NoDraft]

Row(s) == table[head][s]
-----------------------------------------------------------------------------
(* A command of any other client that leaves the reservation of s so.      *)
Append(s, use) ==
  /\ head < MaxEvents /\ head' = head + 1
  /\ table' = [n \in 0..head + 1 |->
                 IF n <= head THEN table[n]
                 ELSE [table[head] EXCEPT ![s] = [version |-> @.version + 1, use |-> use]]]
  /\ UNCHANGED <<dispatched, saved, pc, draft>>

(* issue_grant, also of a grant that exists: reservations are forgotten.   *)
Issue(s) == Append(s, "none")

(* activate_lease, revoke, or a further use beside an unresolved one.      *)
Change(s) == Row(s).version > 0 /\ Append(s, Row(s).use)

ReserveUse(s) == Row(s).version > 0 /\ Row(s).use = "none" /\ Append(s, "open")

(* finalize_use: known outcomes end a reservation, "indeterminate" does not. *)
FinalizeUse(s) ==
  /\ Row(s).use = "open"
  /\ Append(s, "none") \/ Append(s, "awaiting_reconciliation")

(* dispatch() marks the oldest row of the outbox.                          *)
Dispatch ==
  /\ \E n \in 1..head : /\ n \notin dispatched
                        /\ \A m \in 1..n - 1 : m \in dispatched
                        /\ dispatched' = dispatched \cup {n}
  /\ UNCHANGED <<head, table, saved, pc, draft>>
-----------------------------------------------------------------------------
\* Mutant: the outbox is read before the position.
Then_OutboxFirst ==
  [aggregates |-> "outbox", outbox |-> "head", head |-> "chain", chain |-> "save"]

(* The order of the reads behind those of the aggregates.                  *)
Then == [aggregates |-> "head", head |-> "chain", chain |-> "outbox", outbox |-> "save"]

Read(t, from, with) ==
  /\ pc[t] = from /\ pc' = [pc EXCEPT ![t] = Then[from]]
  /\ draft' = [draft EXCEPT ![t] = with]
  /\ UNCHANGED <<ledger, saved>>

(* all_aggregates lists the streams there are, with their versions.        *)
ReadAggregates(t) ==
  /\ pc[t] = "idle" /\ pc' = [pc EXCEPT ![t] = "aggregates"]
  /\ draft' = [draft EXCEPT ![t] =
       [NoDraft EXCEPT !.version = [s \in Stream |-> Row(s).version],
                       !.todo = {s \in Stream : Row(s).version > 0}]]
  /\ UNCHANGED <<ledger, saved>>

\* Mutant: what was finalized without a known outcome counts as resolved.
Unresolved_OpenOnly(use) == use = "open"

(* unresolved_reservations                                                 *)
Unresolved(use) == use \in {"open", "awaiting_reconciliation"}

(* The state of each capability in the list is read by itself.             *)
ReadState(t) ==
  /\ pc[t] = "aggregates" /\ UNCHANGED <<ledger, saved, pc>>
  /\ \E s \in draft[t].todo :
       draft' = [draft EXCEPT ![t].todo = @ \ {s},
                              ![t].open = IF Unresolved(Row(s).use) THEN @ \cup {s} ELSE @]

StatesRead(t) ==
  /\ draft[t].todo = {}
  /\ Read(t, "aggregates", draft[t])

ReadHead(t) == Read(t, "head", [draft[t] EXCEPT !.position = head])

(* verify_chain walks the whole ledger as it is by then.                   *)
ReadChain(t) == Read(t, "chain", [draft[t] EXCEPT !.chain = head])

ReadOutbox(t) == Read(t, "outbox", [draft[t] EXCEPT !.pending = (1..head) \ dispatched])

(* INSERT OR REPLACE: a command repeated after a restart replaces its row. *)
Save(t) ==
  /\ pc[t] = "save" /\ pc' = [pc EXCEPT ![t] = "idle"]
  /\ saved' = [saved EXCEPT ![t] = draft[t]]
  /\ draft' = [draft EXCEPT ![t] = NoDraft]
  /\ UNCHANGED ledger

CreateCheckpoint(t) ==
  \/ ReadAggregates(t) \/ ReadState(t) \/ StatesRead(t)
  \/ ReadHead(t) \/ ReadChain(t) \/ ReadOutbox(t) \/ Save(t)

Next ==
  \/ \E s \in Stream : Issue(s) \/ Change(s) \/ ReserveUse(s) \/ FinalizeUse(s)
  \/ Dispatch
  \/ \E t \in Thread : CreateCheckpoint(t)

Spec == Init /\ [][Next]_vars
-----------------------------------------------------------------------------
Listed(m) == {s \in Stream : m.version[s] > 0}

\* Mutant: the versions of the manifest are not compared.
Accepts_ChainOnly(m) == m.chain = m.position

(* checkpoint_replay: the digest is that of the ledger up to the position, *)
(* and every stream of the list has its version there.                     *)
Accepts(m) ==
  /\ m.chain = m.position
  /\ \A s \in Listed(m) : table[m.position][s].version = m.version[s]

(* Of the streams it lists, a checkpoint that replay accepts names exactly *)
(* those with a use reserved or of unknown outcome at its position, though *)
(* list, states, position and digest were read at four different moments.  *)
AcceptedIsExact ==
  \A t \in Thread : LET m == saved[t] IN Accepts(m) =>
    \A s \in Listed(m) :
      s \in m.open <=> table[m.position][s].use \in {"open", "awaiting_reconciliation"}

(* No event up to the position of a checkpoint, accepted or not, is missing *)
(* in its outbox unless it was dispatched: whoever resumes drops nothing.  *)
OutboxComplete ==
  \A t \in Thread : (1..saved[t].position) \ saved[t].pending \subseteq dispatched

(* Promised and not kept, see the findings: a checkpoint that is accepted  *)
(* and clean has nothing unresolved at its position; what resume hands out *)
(* is accepted.                                                            *)
CleanMeansResolved ==
  \A t \in Thread : LET m == saved[t] IN
    Accepts(m) /\ m.open = {} => \A s \in Stream : ~Unresolved(table[m.position][s].use)

SavedIsAccepted == \A t \in Thread : Accepts(saved[t])
=============================================================================
