----------------------------- MODULE Lifecycle -----------------------------
(***************************************************************************)
(* Tool calls of capt_solo that change the lifecycle of one memory under a *)
(* transaction of the CTP journal: lifecycle/manager.py (the *_with_ctp    *)
(* operations), lifecycle/lifecycle.py (transition) and ctp/journal.py.    *)
(*                                                                         *)
(* Every call opens its own CTPRuntime on the one journal file and its own *)
(* connection to the database, so calls share the two files and nothing    *)
(* else.  The journal is the set of its events: no property asks for more  *)
(* of their order than that a begin is there when its outcome is.          *)
(***************************************************************************)
EXTENDS Naturals, FiniteSets

CONSTANTS
  Call,        \* calls in progress at a time
  Tx,          \* transactions
  ToolTx,      \* those a caller begins by itself, for no operation
  Key,         \* idempotency keys
  MaxTears     \* bound on crashes in the middle of a line

ASSUME LifecycleAssumption == ToolTx \subseteq Tx /\ MaxTears \in Nat

VARIABLES
  file,        \* the events of the journal
  tail,        \* its last line: whole, torn by a crash, or glued to a torn one
  key,         \* the key a transaction was begun under
  state, rows, \* the memory's state, and the transitions recorded with it
  pc, tx,      \* each call's place and transaction
  seen,        \* the events in the memory of its CTPRuntime
  was, to,     \* the state it found, and the one it is to reach
  answered,    \* transactions whose operation returned ok with a receipt
  tears

journal == <<file, tail, key>>
memory == <<state, rows>>
local == <<tx, seen, was, to>>
vars == <<journal, memory, pc, local, answered, tears>>

State == {"candidate", "active", "durable", "archived", "rejected", "expired"}

Valid ==
  [candidate |-> {"active", "durable", "rejected"},
   active |-> {"durable", "archived", "expired"},
   durable |-> {"archived", "expired"},
   archived |-> {"active", "expired"},
   rejected |-> {"candidate"}, expired |-> {"candidate"}]

Begin(t) == <<"begin", t>>
Outcomes(t) == {<<"commit", t>>, <<"abort", t>>}
Pending(view, t) == Begin(t) \in view /\ view \cap Outcomes(t) = {}

Init ==
  /\ file = {} /\ tail = "whole" /\ key \in [Tx -> Key]
  /\ state = "candidate" /\ rows = {}
  /\ pc = [c \in Call |-> "idle"]
  /\ tx = [c \in Call |-> {}] /\ seen = [c \in Call |-> {}]
  /\ was = [c \in Call |-> "candidate"] /\ to = [c \in Call |-> "candidate"]
  /\ answered = {} /\ tears = 0
-----------------------------------------------------------------------------
Goto(c, label) == pc' = [pc EXCEPT ![c] = label]

(* CTPRuntime(): the file is replayed, and a line that does not parse      *)
(* raises.                                                                 *)
Open(c) ==
  /\ pc[c] = "idle" /\ tail = "whole"
  /\ Goto(c, "open")
  /\ seen' = [seen EXCEPT ![c] = file] /\ tx' = [tx EXCEPT ![c] = {}]
  /\ UNCHANGED <<journal, memory, was, to, answered, tears>>

(* An event written after a torn line becomes part of it.                  *)
Write(events) ==
  IF tail = "torn" THEN file' = file /\ tail' = "glued"
                   ELSE file' = file \cup events /\ UNCHANGED tail

(* The memory of a CTPRuntime goes with its call.                          *)
Remember(c, label, events) ==
  /\ Goto(c, label)
  /\ seen' = [seen EXCEPT ![c] = IF label = "idle" THEN {} ELSE @ \cup events]

\* Mutant: the event is applied to the memory of the call before the write.
Append_MemoryFirst(c, event, label, raised) ==
  \/ (Write({event}) \/ UNCHANGED <<file, tail>>)
     /\ Remember(c, label, {event}) /\ UNCHANGED tears
  \/ /\ tears < MaxTears /\ tears' = tears + 1
     /\ tail' = "torn" /\ UNCHANGED file /\ Remember(c, "idle", {})

(* _append writes the line, syncs it, and applies it.  It may raise before *)
(* or after the line is in the file, or the process may die in the middle. *)
Append(c, event, label, raised) ==
  \/ Write({event}) /\ Remember(c, label, {event}) /\ UNCHANGED tears
  \/ /\ Write({event}) \/ UNCHANGED <<file, tail>>
     /\ Remember(c, raised, {}) /\ UNCHANGED tears
  \/ /\ tears < MaxTears /\ tears' = tears + 1
     /\ tail' = "torn" /\ UNCHANGED file /\ Remember(c, "idle", {})

(* begin refuses a key that some transaction it knows was finalized under. *)
(* The tool capt_begin_transaction ends here: a later call is to finish it. *)
BeginTx(c) ==
  /\ pc[c] = "open"
  /\ \E t \in Tx :
       /\ Begin(t) \notin file /\ \A d \in Call : t \notin tx[d]
       /\ \A u \in Tx : key[u] = key[t] => seen[c] \cap Outcomes(u) = {}
       /\ IF t \in ToolTx
          THEN UNCHANGED tx /\ Append(c, Begin(t), "idle", "idle")
          ELSE tx' = [tx EXCEPT ![c] = {t}] /\ Append(c, Begin(t), "begun", "idle")
  /\ UNCHANGED <<key, memory, was, to, answered>>

(* capt_commit_transaction and capt_abort_transaction finish whatever is   *)
(* pending in the journal they load: what a caller began, and also the     *)
(* transaction of an operation that died (recover() lists it) or that is   *)
(* still under way.                                                        *)
FinishTx(c) ==
  /\ pc[c] = "open"
  /\ \E t \in Tx :
       /\ Pending(seen[c], t)
       /\ \E event \in Outcomes(t) : Append(c, event, "idle", "idle")
  /\ UNCHANGED <<key, memory, tx, was, to, answered>>
-----------------------------------------------------------------------------
(* transition: the state is read and the move is looked up ...             *)
Check(c) ==
  /\ pc[c] = "begun"
  /\ \/ /\ Goto(c, "checked") /\ was' = [was EXCEPT ![c] = state]
        /\ \E target \in Valid[state] : to' = [to EXCEPT ![c] = target]
     \/ Goto(c, "failing") /\ UNCHANGED <<was, to>>
  /\ UNCHANGED <<journal, memory, tx, seen, answered, tears>>

(* ... one database commit moves the memory ...                            *)
Update(c) ==
  /\ pc[c] = "checked" /\ Goto(c, "updated")
  /\ state' = to[c]
  /\ UNCHANGED <<journal, rows, local, answered, tears>>

(* ... and another records the transition with its transaction.            *)
Record(c) ==
  /\ pc[c] = "updated" /\ Goto(c, "recorded")
  /\ rows' = rows \cup (tx[c] \X {<<was[c], to[c]>>})
  /\ was' = [was EXCEPT ![c] = "candidate"] /\ to' = [to EXCEPT ![c] = "candidate"]
  /\ UNCHANGED <<journal, state, tx, seen, answered, tears>>

\* Mutant: the transaction is committed as soon as the memory has moved.
Commit_Early(c) ==
  /\ pc[c] \in {"updated", "recorded"}
  /\ \E t \in tx[c] : Pending(seen[c], t) /\ Append(c, <<"commit", t>>, "committed", "failing")
  /\ UNCHANGED <<key, memory, tx, was, to, answered>>

Commit(c) ==
  /\ pc[c] = "recorded"
  /\ \E t \in tx[c] : Pending(seen[c], t) /\ Append(c, <<"commit", t>>, "committed", "failing")
  /\ UNCHANGED <<key, memory, tx, was, to, answered>>

(* The operation returns ok with the receipt.                              *)
Answer(c) ==
  /\ pc[c] = "committed" /\ Remember(c, "idle", {})
  /\ answered' = answered \cup tx[c]
  /\ UNCHANGED <<journal, memory, tx, was, to, tears>>

(* The database refuses a read or a write.                                 *)
Raise(c) ==
  /\ pc[c] \in {"begun", "checked", "updated"} /\ Goto(c, "failing")
  /\ was' = [was EXCEPT ![c] = "candidate"] /\ to' = [to EXCEPT ![c] = "candidate"]
  /\ UNCHANGED <<journal, memory, tx, seen, answered, tears>>

(* The handler aborts the transaction, ignores that this failed, and       *)
(* raises; what the database committed stays.                              *)
Abort(c) ==
  /\ pc[c] = "failing"
  /\ \E t \in tx[c] : Pending(seen[c], t) /\ Append(c, <<"abort", t>>, "idle", "idle")
  /\ UNCHANGED <<key, memory, tx, was, to, answered>>

Crash(c) ==
  /\ pc[c] # "idle" /\ Goto(c, "idle")
  /\ tx' = [tx EXCEPT ![c] = {}] /\ seen' = [seen EXCEPT ![c] = {}]
  /\ was' = [was EXCEPT ![c] = "candidate"] /\ to' = [to EXCEPT ![c] = "candidate"]
  /\ UNCHANGED <<journal, memory, answered, tears>>

Next ==
  \E c \in Call :
    \/ Open(c) \/ BeginTx(c) \/ FinishTx(c)
    \/ Check(c) \/ Update(c) \/ Record(c) \/ Commit(c) \/ Answer(c)
    \/ Raise(c) \/ Abort(c) \/ Crash(c)

Spec == Init /\ [][Next]_vars
-----------------------------------------------------------------------------
(* A journal with no torn line can be loaded: an outcome in it is that of  *)
(* a transaction whose begin is in it, whatever raised or crashed.         *)
JournalReplays ==
  tail = "whole" => \A t \in Tx : Outcomes(t) \cap file # {} => Begin(t) \in file

(* What a caller was told lasts: where an operation returned ok, its       *)
(* transition is recorded, and the journal holds begin and commit, so that *)
(* no later call finds the transaction pending and finishes it otherwise.  *)
(* Other calls may have finished it before, and any of them may have died. *)
AnsweredIsRecorded ==
  \A t \in answered :
    /\ \E r \in rows : r[1] = t
    /\ tail = "whole" => {Begin(t), <<"commit", t>>} \subseteq file

(* A recorded transition is found again from the journal, by recover() if  *)
(* its transaction has no outcome.                                         *)
ChangesAnnounced == tail = "whole" => \A r \in rows : Begin(r[1]) \in file

(* "rolls back the lifecycle transition if a later step fails": what was   *)
(* aborted left nothing behind.                                            *)
AbortedLeavesNothing == \A r \in rows : <<"abort", r[1]>> \notin file

(* "recoverable (CTP receipt + rollback on failure)": a committed receipt   *)
(* of an operation stands for a transition, also where a caller who        *)
(* recovers the journal decided to commit.                                 *)
CommittedMeansRecorded ==
  \A t \in Tx \ ToolTx : <<"commit", t>> \in file => \E r \in rows : r[1] = t

(* The journal holds "immutable receipts": a transaction has one outcome.  *)
OneOutcome == \A t \in Tx : Cardinality(Outcomes(t) \cap file) <= 1

(* "idempotent (CTP idempotency key)": a key finalizes one commit.         *)
KeyCommitsOnce ==
  \A t, u \in Tx : {<<"commit", t>>, <<"commit", u>>} \subseteq file /\ key[t] = key[u] => t = u

(* "A transition not in this map is invalid and must fail."                *)
MovesAreValid == [][state' # state => state' \in Valid[state]]_state
=============================================================================
