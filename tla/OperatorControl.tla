-------------------------- MODULE OperatorControl --------------------------
(***************************************************************************)
(* The control document all operator surfaces share                        *)
(* (desktop/operator_control.py) and the prompt proposals and approvals    *)
(* bound in it: operator_chat_new, operator_execution_config_set,          *)
(* operator_prompt_submit and operator_proposal_select of                  *)
(* desktop/m1_command_service.py, capt_runtime/prompt_proposals.py and the *)
(* admission of a compilation with an identity of its own.                 *)
(*                                                                         *)
(* The document is in memory and in a file, changed under one lock and     *)
(* compared by revision.  Of its sessions only the active one is written.  *)
(* Proposals and approvals are streams of the event store, where a call is *)
(* one step (StoreImplementsAtomicLedger).  The compiler is external.      *)
(***************************************************************************)
EXTENDS Naturals

CONSTANTS
  Worker,
  Submission,    \* operator_prompt_submit commands; a proposal is named after its key
  Selection,     \* operator_proposal_select commands; so is an approval
  Attempt,       \* compile_prompt_proposal commands
  Route,         \* provider, model and target root
  Text,          \* what the compiler may answer
  None,
  MaxRevision, MaxEdits, MaxCrashes

Proposal == Submission \cup Attempt
Config == Route \X {"OFF", "AUTO"}

(* The control document, what a proposal is and what an approval names.    *)
Document ==
  [revision : Nat, session : Nat, config : Config,
   proposal : Submission \cup {None}, approval : Selection \cup {None}]
Prompt ==
  [config : Config \cup {None}, text : Text, state : {"active", "cancelled"}, revision : Nat]
Approval == [of : Submission, config : Config, revision : Nat]

ASSUME ControlAssumption ==
  /\ MaxRevision \in Nat /\ MaxEdits \in Nat /\ MaxCrashes \in Nat
  /\ Submission \cap Selection = {} /\ Attempt \cap (Submission \cup Selection) = {}
  /\ None \notin Submission \cup Selection \cup Attempt
  /\ None \notin Document \cup Prompt \cup Approval

VARIABLES
  control,       \* the document in memory
  saved,         \* and on disk
  proposal,      \* prompt_proposal streams
  approval,      \* human_approval streams
  claim, active, \* admissions of attempts, and those this process works on
  calls,         \* calls[d]: compilations begun for an attempt
  order,         \* the document a command was written for: every copy of it has it
  at, cmd,       \* each thread's place and command
  mine,          \* the proposal it compiled or read
  edits, crashes

document == <<control, saved>>
streams == <<proposal, approval>>
attempts == <<claim, active>>
held == <<cmd, mine>>
bounds == <<edits, crashes>>
controlVars == <<document, streams, attempts, calls, order, at, held, bounds>>

ControlInit ==
  /\ control \in [revision : {0}, session : {0}, config : Config,
                  proposal : {None}, approval : {None}]
  /\ saved = control
  /\ proposal = [p \in Proposal |-> None] /\ approval = [a \in Selection |-> None]
  /\ claim = [d \in Attempt |-> "none"] /\ active = {}
  /\ calls = [d \in Attempt |-> 0]
  /\ order = [c \in Submission \cup Selection |-> None]
  /\ at = [w \in Worker |-> "idle"] /\ cmd = [w \in Worker |-> None]
  /\ mine = [w \in Worker |-> None]
  /\ edits = 0 /\ crashes = 0
-----------------------------------------------------------------------------
\* Mutant: the document in memory changes before the file is written.
Persist_MemoryFirst(doc) ==
  /\ control.revision < MaxRevision
  /\ LET next == [doc EXCEPT !.revision = control.revision + 1] IN
       /\ control' = next
       /\ saved' = next \/ UNCHANGED saved

(* _persist writes a new file, replaces the old one and may still raise;   *)
(* the document in memory changes only when it returned.                   *)
Persist(doc) ==
  /\ control.revision < MaxRevision
  /\ LET next == [doc EXCEPT !.revision = control.revision + 1] IN
       \/ saved' = next /\ control' = next
       \/ saved' = next /\ UNCHANGED control
       \/ UNCHANGED document

Cleared(doc) == [doc EXCEPT !.proposal = None, !.approval = None]

(* new_chat and set_configuration, for the revision they were written for. *)
NewChat ==
  \E c \in Config :
    /\ Persist([Cleared(control) EXCEPT !.session = control.revision + 1, !.config = c])
    /\ UNCHANGED <<streams, attempts, calls, order, at, held, bounds>>

SetConfiguration ==
  \E c \in Config :
    /\ Persist(IF c = control.config THEN control
               ELSE [Cleared(control) EXCEPT !.config = c])
    /\ UNCHANGED <<streams, attempts, calls, order, at, held, bounds>>
-----------------------------------------------------------------------------
Proceed(w, label) == at' = [at EXCEPT ![w] = label]

Return(w) ==
  /\ Proceed(w, "idle")
  /\ cmd' = [cmd EXCEPT ![w] = None]
  /\ mine' = [mine EXCEPT ![w] = None]

(* A command is written for the document its client reads, and sent any    *)
(* number of times, late and again.  A submission whose proposal is        *)
(* recorded is answered with the document of the moment; the key of a      *)
(* selection is never recorded.                                            *)
Send(w, c) ==
  /\ at[w] = "idle"
  /\ c \in Submission => proposal[c] = None
  /\ order' = [order EXCEPT ![c] = IF @ = None THEN control ELSE @]
  /\ c \in Selection => order'[c].proposal # None
  /\ Proceed(w, "require") /\ cmd' = [cmd EXCEPT ![w] = c]
  /\ UNCHANGED <<document, streams, attempts, calls, mine, bounds>>

(* require_current: revision, digest of the configuration, a session.      *)
Current(doc) ==
  /\ control.revision = doc.revision /\ control.config = doc.config
  /\ control.session # 0

RequireCurrent(w) ==
  /\ at[w] = "require"
  /\ LET c == cmd[w] IN
       \/ /\ Current(order[c])
          /\ c \in Selection => control.proposal = order[c].proposal
          /\ Proceed(w, IF c \in Submission THEN "compile" ELSE "request")
          /\ UNCHANGED held
       \/ /\ ~Current(order[c]) \/ (c \in Selection /\ control.proposal # order[c].proposal)
          /\ Return(w)
  /\ UNCHANGED <<document, streams, attempts, calls, order, bounds>>

(* compile_prompt_proposal looks its key up, calls the compiler, and       *)
(* commits; a commit whose key is known changes nothing, and the caller    *)
(* goes on with what it compiled.                                          *)
After(c) == IF c \in Attempt THEN "complete" ELSE "bind"

Compiled(c, text) ==
  [config |-> IF c \in Submission THEN order[c].config ELSE None,
   text |-> text, state |-> "active", revision |-> 0]

Compile(w) ==
  /\ at[w] = "compile"
  /\ LET c == cmd[w] IN
       \/ /\ proposal[c] = None /\ Proceed(w, "commit")
          /\ calls' = [d \in Attempt |-> IF d = c THEN calls[d] + 1 ELSE calls[d]]
          /\ \E text \in Text : mine' = [mine EXCEPT ![w] = Compiled(c, text)]
       \/ /\ proposal[c] # None /\ Proceed(w, After(c))
          /\ mine' = [mine EXCEPT ![w] = proposal[c]] /\ UNCHANGED calls
  /\ UNCHANGED <<document, streams, attempts, order, cmd, bounds>>

CommitProposal(w) ==
  /\ at[w] = "commit"
  /\ LET c == cmd[w] IN
       /\ proposal' = [proposal EXCEPT ![c] = IF @ = None THEN mine[w] ELSE @]
       /\ Proceed(w, After(c))
  /\ UNCHANGED <<document, approval, attempts, calls, order, held, bounds>>

(* bind_proposal, for the revision that was read before the compilation.   *)
Compatible(p) ==
  /\ p.config[1] = control.config[1]
  /\ control.config[2] = "OFF" => p.config[2] = "OFF"

\* Mutant: bound for the revision of the moment.
BindProposal_Now(w) ==
  /\ at[w] = "bind" /\ Return(w)
  /\ IF control.session # 0 /\ Compatible(mine[w])
     THEN Persist([Cleared(control) EXCEPT !.proposal = cmd[w]])
     ELSE UNCHANGED document
  /\ UNCHANGED <<streams, attempts, calls, order, bounds>>

BindProposal(w) ==
  /\ at[w] = "bind" /\ Return(w)
  /\ IF Current(order[cmd[w]]) /\ Compatible(mine[w])
     THEN Persist([Cleared(control) EXCEPT !.proposal = cmd[w]])
     ELSE UNCHANGED document
  /\ UNCHANGED <<streams, attempts, calls, order, bounds>>
-----------------------------------------------------------------------------
(* request_prompt_proposal_approval reads the proposal and commits an      *)
(* approval of this snapshot under a key made of the command's.  Asking    *)
(* again for another snapshot is a conflict, and raises.                   *)
Request(w) ==
  /\ at[w] = "request"
  /\ LET p == proposal[order[cmd[w]].proposal] IN
       /\ p.state = "active"
       /\ mine' = [mine EXCEPT ![w] = p]
  /\ Proceed(w, "record")
  /\ UNCHANGED <<document, streams, attempts, calls, order, cmd, bounds>>

RecordApproval(w) ==
  /\ at[w] = "record" /\ Proceed(w, "bind approval")
  /\ LET a == [of |-> order[cmd[w]].proposal, config |-> mine[w].config,
               revision |-> mine[w].revision] IN
       /\ approval[cmd[w]] \in {None, a}
       /\ approval' = [approval EXCEPT ![cmd[w]] = a]
  /\ UNCHANGED <<document, proposal, attempts, calls, order, held, bounds>>

BindApproval(w) ==
  /\ at[w] = "bind approval" /\ Return(w)
  /\ IF Current(order[cmd[w]]) /\ control.proposal = order[cmd[w]].proposal
     THEN Persist([control EXCEPT !.approval = cmd[w]])
     ELSE UNCHANGED document
  /\ UNCHANGED <<streams, attempts, calls, order, bounds>>
-----------------------------------------------------------------------------
(* revise_ and cancel_prompt_proposal read the state first and the version *)
(* only for the commit: what was written in between is overwritten.        *)
Edit(w) ==
  /\ at[w] = "idle" /\ edits < MaxEdits /\ edits' = edits + 1
  /\ \E p \in Proposal, kind \in {"revise", "cancel"} :
       /\ proposal[p] # None /\ proposal[p].state = "active"
       /\ mine' = [mine EXCEPT ![w] = proposal[p]]
       /\ cmd' = [cmd EXCEPT ![w] = p] /\ Proceed(w, kind)
  /\ UNCHANGED <<document, streams, attempts, calls, order, crashes>>

CommitEdit(w) ==
  /\ at[w] \in {"revise", "cancel"} /\ Return(w)
  /\ proposal' = [proposal EXCEPT ![cmd[w]] =
                    IF at[w] = "cancel" THEN [mine[w] EXCEPT !.state = "cancelled"]
                    ELSE [mine[w] EXCEPT !.revision = @ + 1]]
  /\ UNCHANGED <<document, approval, attempts, calls, order, bounds>>
-----------------------------------------------------------------------------
(* pi_attempt_status: the proposal, then the admission, then the list.     *)
Status(d) ==
  CASE proposal[d] # None -> "completed"
    [] proposal[d] = None /\ claim[d] = "none" -> "not_found"
    [] proposal[d] = None /\ claim[d] # "none" /\ d \in active -> "in_progress"
    [] OTHER -> "indeterminate"

\* Mutant: an attempt nobody works on is compiled again.
Admit_Again(w, d) ==
  /\ at[w] = "idle" /\ Status(d) \in {"not_found", "indeterminate"}
  /\ claim' = [claim EXCEPT ![d] = "in_progress"]
  /\ Proceed(w, "enlist") /\ cmd' = [cmd EXCEPT ![w] = d]
  /\ UNCHANGED <<document, streams, active, calls, order, mine, bounds>>

(* durable_pi_compile claims the identity of the attempt for ever, lists   *)
(* the attempt, compiles, and completes the claim.                         *)
Admit(w, d) ==
  /\ at[w] = "idle" /\ claim[d] = "none"
  /\ claim' = [claim EXCEPT ![d] = "in_progress"]
  /\ Proceed(w, "enlist") /\ cmd' = [cmd EXCEPT ![w] = d]
  /\ UNCHANGED <<document, streams, active, calls, order, mine, bounds>>

Enlist(w) ==
  /\ at[w] = "enlist" /\ Proceed(w, "compile")
  /\ active' = active \cup {cmd[w]}
  /\ UNCHANGED <<document, streams, claim, calls, order, held, bounds>>

Complete(w) ==
  /\ at[w] = "complete" /\ Return(w)
  /\ claim' = [claim EXCEPT ![cmd[w]] = "completed"] /\ active' = active \ {cmd[w]}
  /\ UNCHANGED <<document, streams, calls, order, bounds>>

(* Any call may raise; an attempt that raises is no longer listed.         *)
Abandon(w) ==
  /\ at[w] # "idle" /\ Return(w)
  /\ active' = IF at[w] \in {"revise", "cancel"} THEN active ELSE active \ {cmd[w]}
  /\ UNCHANGED <<document, streams, claim, calls, order, bounds>>

(* The service ends and starts again, with the document of the file.       *)
Restart ==
  /\ crashes < MaxCrashes /\ crashes' = crashes + 1
  /\ at' = [w \in Worker |-> "idle"] /\ cmd' = [w \in Worker |-> None]
  /\ mine' = [w \in Worker |-> None]
  /\ active' = {}
  /\ control' = saved /\ UNCHANGED <<saved, streams, claim, calls, order, edits>>
-----------------------------------------------------------------------------
Thread(w) ==
  \/ \E c \in Submission \cup Selection : Send(w, c)
  \/ RequireCurrent(w) \/ Compile(w) \/ CommitProposal(w) \/ BindProposal(w)
  \/ Request(w) \/ RecordApproval(w) \/ BindApproval(w)
  \/ Edit(w) \/ CommitEdit(w)
  \/ (\E d \in Attempt : Admit(w, d)) \/ Enlist(w) \/ Complete(w)
  \/ Abandon(w)

ControlNext == NewChat \/ SetConfiguration \/ (\E w \in Worker : Thread(w)) \/ Restart

ControlSpec == ControlInit /\ [][ControlNext]_controlVars
-----------------------------------------------------------------------------
(* Whatever the surface shows together belongs together: the bound         *)
(* proposal was compiled for the configuration in force, the bound         *)
(* approval is of that proposal, though settings change and other commands *)
(* bind while a proposal is compiled and an approval recorded.             *)
CursorsAgree ==
  /\ control.proposal # None =>
       proposal[control.proposal] # None /\ proposal[control.proposal].config = control.config
  /\ control.approval # None =>
       /\ approval[control.approval] # None
       /\ approval[control.approval].of = control.proposal
       /\ approval[control.approval].config = control.config

(* A revision names one document, for ever: a write that raised, before or *)
(* after the file was replaced, and a restart lead to no second one.  That *)
(* is why comparing revisions is enough.                                   *)
RevisionNames ==
  \A c \in DOMAIN order :
    order[c] # None /\ order[c].revision = control.revision => order[c] = control

(* "One PI dispatch maximum for a durable attempt identity, across         *)
(* restarts" (durable_pi_compile), and none for an attempt the status      *)
(* calls not found.                                                        *)
AttemptedOnce ==
  \A d \in Attempt : calls[d] <= 1 /\ (Status(d) = "not_found" => calls[d] = 0)

(* Not kept, see the findings: a proposal that was cancelled stays so; a   *)
(* thread that reports a proposal reports the recorded one.                *)
CancelledStays ==
  [][\A p \in Proposal : proposal[p] # None /\ proposal[p].state = "cancelled" =>
       proposal'[p].state = "cancelled"]_controlVars

ReportIsRecorded ==
  \A w \in Worker : at[w] = "bind" => mine[w].text = proposal[cmd[w]].text
=============================================================================
