---------------------------- MODULE AtomicLedger ----------------------------
(***************************************************************************)
(* What EventStore.commit_command (capt_runtime/store.py) promises to the  *)
(* services that call it: a command is applied to all of its streams in    *)
(* one indivisible step, on top of exactly the state those streams have at *)
(* that moment and only where the aggregate accepts it there, and at most  *)
(* one command is ever applied under one idempotency key.  Clients, reads, *)
(* retries, crashes and the outbox are invisible here.                     *)
(***************************************************************************)
EXTENDS Sequences

CONSTANTS
  Stream,      \* aggregate streams
  Cmd,         \* commands, one per commandId
  Key,         \* idempotency keys
  KeyOf,       \* KeyOf[c]: the idempotency key command c carries
  Touches,     \* Touches[c]: the streams command c appends to
  Legal(_, _), \* Legal(c, h): the aggregate with history h accepts c
  None         \* "no command yet"

VARIABLES
  history,     \* history[s]: the commands folded into stream s, oldest first
  appliedBy    \* appliedBy[k]: the command applied under key k, or None

vars == <<history, appliedBy>>

Init ==
  /\ history = [s \in Stream |-> <<>>]
  /\ appliedBy = [k \in Key |-> None]

Apply(c) ==
  /\ appliedBy[KeyOf[c]] = None
  /\ \A s \in Touches[c] : Legal(c, history[s])
  /\ appliedBy' = [appliedBy EXCEPT ![KeyOf[c]] = c]
  /\ history' = [s \in Stream |->
                   IF s \in Touches[c] THEN Append(history[s], c) ELSE history[s]]

Next == \E c \in Cmd : Apply(c)

Spec == Init /\ [][Next]_vars
=============================================================================
