-------------------------- MODULE LocalFiles_proofs --------------------------
(***************************************************************************)
(* Proofs about the two components that keep a file of their own beside    *)
(* the event store: the journal of Lifecycle and the control document of   *)
(* OperatorControl.  They share nothing, and each specification stands     *)
(* alone here.  For any number of calls, transactions, keys, exceptions,   *)
(* crashes and torn lines; and of threads, commands, attempts, edits,      *)
(* restarts and writes that raise.                                         *)
(***************************************************************************)
EXTENDS Lifecycle, OperatorControl, TLAPS

(***************************************************************************)
(* The journal of capt_solo.                                               *)
(***************************************************************************)

Held == {"begun", "checked", "updated", "recorded", "committed", "failing"}

(* What the proofs need of the types: functions on calls.                  *)
Shapes ==
  /\ pc \in [Call -> {"idle", "open"} \cup Held]
  /\ tx \in [Call -> SUBSET Tx] /\ seen \in [Call -> SUBSET ({"begin", "commit", "abort"} \X Tx)]
  /\ file \subseteq {"begin", "commit", "abort"} \X Tx
  /\ tail \in {"whole", "torn", "glued"}

(* What a call has seen is in a whole journal.                             *)
SeenIsWritten == tail = "whole" => \A c \in Call : seen[c] \subseteq file

(* A call in the middle of an operation knows its transaction's begin ...  *)
HeldIsBegun ==
  \A c \in Call : pc[c] \in Held => \A t \in tx[c] : Begin(t) \in seen[c]

(* ... and has no other; ...                                               *)
OneTx == \A c \in Call : \A t, u \in tx[c] : t = u

(* ... once it has recorded the transition, the row is there ...           *)
RecordedHasRow ==
  \A c \in Call : pc[c] \in {"recorded", "committed"} =>
    \A t \in tx[c] : \E r \in rows : r[1] = t

(* ... and once its commit returned, it knows that too.                    *)
CommittedIsSeen ==
  \A c \in Call : pc[c] = "committed" => \A t \in tx[c] : <<"commit", t>> \in seen[c]

IInv ==
  /\ Shapes /\ SeenIsWritten /\ HeldIsBegun /\ RecordedHasRow
  /\ OneTx /\ CommittedIsSeen /\ JournalReplays /\ AnsweredIsRecorded /\ ChangesAnnounced
-----------------------------------------------------------------------------
(* The empty journal satisfies the invariant. *)
LEMMA InitIInv == Init => IInv
  BY DEF Init, IInv, Shapes, SeenIsWritten, HeldIsBegun, RecordedHasRow, Held, Outcomes,
         OneTx, CommittedIsSeen,
         JournalReplays, AnsweredIsRecorded, ChangesAnnounced

(* However an append ends, a call that goes on has what it had, and the    *)
(* event too if the append returned; the file has at most that event more, *)
(* and a journal still whole has what the call has.                        *)
AppendDone(c, event, label, raised) ==
  /\ file \subseteq file' /\ file' \subseteq file \cup {event}
  /\ tail' = "whole" => tail = "whole"
  /\ tail' \in {"whole", "torn", "glued"}
  /\ seen' \in [Call -> SUBSET ({"begin", "commit", "abort"} \X Tx)]
  /\ pc' \in [Call -> {"idle", "open"} \cup Held]
  /\ \A d \in Call : d # c => pc'[d] = pc[d] /\ seen'[d] = seen[d]
  /\ pc'[c] \in {label, raised, "idle"}
  /\ pc'[c] # "idle" => seen[c] \subseteq seen'[c]
  /\ pc'[c] = label /\ label # raised /\ label # "idle" => event \in seen'[c]
  /\ SeenIsWritten'

LEMMA AppendEffect ==
  ASSUME IInv, NEW c \in Call, NEW t \in Tx, NEW kind \in {"begin", "commit", "abort"},
         NEW label \in {"idle", "begun", "committed"}, NEW raised \in {"idle", "failing"},
         Append(c, <<kind, t>>, label, raised)
  PROVE  AppendDone(c, <<kind, t>>, label, raised)
<1>1. PICK events \in {{}, {<<kind, t>>}}, next \in {label, raised, "idle"} :
        /\ Remember(c, next, events)
        /\ events = {<<kind, t>>} => Write(events)
        /\ events = {} /\ next = label /\ label # "idle" => label = raised
  BY DEF Append
<1>2. /\ file \subseteq file' /\ file' \subseteq file \cup {<<kind, t>>}
      /\ tail' = "whole" => tail = "whole"
      /\ tail' \in {"whole", "torn", "glued"}
  BY DEF Append, Write, IInv, Shapes
<1>3. /\ pc' = [pc EXCEPT ![c] = next]
      /\ seen' = [seen EXCEPT ![c] = IF next = "idle" THEN {} ELSE @ \cup events]
  BY <1>1 DEF Remember, Goto
<1>4. /\ seen' \in [Call -> SUBSET ({"begin", "commit", "abort"} \X Tx)]
      /\ pc' \in [Call -> {"idle", "open"} \cup Held]
  BY <1>3 DEF IInv, Shapes, Held
<1>5. /\ \A d \in Call : d # c => pc'[d] = pc[d] /\ seen'[d] = seen[d]
      /\ pc'[c] = next
      /\ seen'[c] = IF next = "idle" THEN {} ELSE seen[c] \cup events
  BY <1>3 DEF IInv, Shapes
<1>6. SeenIsWritten'
  <2> SUFFICES ASSUME tail' = "whole", NEW d \in Call PROVE seen'[d] \subseteq file'
    BY DEF SeenIsWritten
  <2>1. seen[d] \subseteq file'
    BY <1>2 DEF IInv, SeenIsWritten
  <2>2. events \subseteq file'
    BY <1>1, <1>2 DEF Write
  <2> QED
    BY <1>5, <2>1, <2>2
<1> QED
  BY <1>1, <1>2, <1>4, <1>5, <1>6 DEF AppendDone

(* A begun transaction is known to its call and to a whole journal.        *)
LEMMA BeginStep ==
  ASSUME IInv, NEW c \in Call, BeginTx(c)
  PROVE  IInv'
<1>1. PICK t \in Tx :
        \/ t \in ToolTx /\ UNCHANGED tx /\ Append(c, Begin(t), "idle", "idle")
        \/ tx' = [tx EXCEPT ![c] = {t}] /\ Append(c, Begin(t), "begun", "idle")
  BY DEF BeginTx
<1>2. UNCHANGED <<rows, answered>>
  BY DEF BeginTx, memory
<1>3. tx' \in [Call -> SUBSET Tx] /\ \A d \in Call : d # c => tx'[d] = tx[d]
  BY <1>1 DEF IInv, Shapes
<1>4. /\ file \subseteq file' /\ file' \subseteq file \cup {Begin(t)}
      /\ tail' = "whole" => tail = "whole"
      /\ tail' \in {"whole", "torn", "glued"}
      /\ seen' \in [Call -> SUBSET ({"begin", "commit", "abort"} \X Tx)]
      /\ pc' \in [Call -> {"idle", "open"} \cup Held]
      /\ \A d \in Call : d # c => pc'[d] = pc[d] /\ seen'[d] = seen[d]
      /\ pc'[c] \in {"idle", "begun"}
      /\ pc'[c] = "begun" => tx'[c] = {t} /\ Begin(t) \in seen'[c]
      /\ SeenIsWritten'
  <2>1. CASE t \in ToolTx /\ UNCHANGED tx /\ Append(c, Begin(t), "idle", "idle")
    BY <2>1, AppendEffect DEF Begin, AppendDone
  <2>2. CASE tx' = [tx EXCEPT ![c] = {t}] /\ Append(c, Begin(t), "begun", "idle")
    <3>1. tx'[c] = {t}
      BY <2>2 DEF IInv, Shapes
    <3> QED
      BY <2>2, <3>1, AppendEffect DEF Begin, AppendDone
  <2> QED
    BY <1>1, <2>1, <2>2
<1>5. Shapes'
  BY <1>3, <1>4 DEF Shapes, IInv, Begin
<1>6. HeldIsBegun' /\ RecordedHasRow' /\ CommittedIsSeen'
  BY <1>2, <1>3, <1>4
     DEF IInv, HeldIsBegun, RecordedHasRow, CommittedIsSeen, Held, Begin
<1>7. OneTx'
  BY <1>1, <1>3 DEF IInv, Shapes, OneTx
<1>8. \A u \in Tx : Outcomes(u) \cap file' = Outcomes(u) \cap file
  BY <1>4 DEF Outcomes, Begin
<1>9. JournalReplays' /\ AnsweredIsRecorded' /\ ChangesAnnounced'
  BY <1>2, <1>4, <1>8
     DEF IInv, JournalReplays, AnsweredIsRecorded, ChangesAnnounced, Outcomes, Begin
<1> QED
  BY <1>4, <1>5, <1>6, <1>7, <1>9 DEF IInv

(* An outcome is appended by a call that knows the begin, whoever began.   *)
LEMMA OutcomeStep ==
  ASSUME IInv, NEW c \in Call, NEW t \in Tx, NEW kind \in {"commit", "abort"},
         NEW label \in {"idle", "committed"}, NEW raised \in {"idle", "failing"},
         Begin(t) \in seen[c], Append(c, <<kind, t>>, label, raised),
         pc[c] \in Held \/ (label = "idle" /\ raised = "idle"),
         label = "committed" => pc[c] = "recorded" /\ tx[c] = {t} /\ kind = "commit",
         UNCHANGED <<tx, rows, answered>>
  PROVE  IInv'
<1>1. AppendDone(c, <<kind, t>>, label, raised)
  BY AppendEffect
<1>2. Shapes'
  BY <1>1 DEF AppendDone, Shapes, IInv
<1>3. HeldIsBegun' /\ OneTx'
  BY <1>1 DEF AppendDone, IInv, HeldIsBegun, OneTx, Held
<1>4. RecordedHasRow' /\ CommittedIsSeen'
  BY <1>1 DEF AppendDone, IInv, RecordedHasRow, CommittedIsSeen
<1>5. JournalReplays'
  <2> SUFFICES ASSUME tail' = "whole", NEW u \in Tx, Outcomes(u) \cap file' # {}
               PROVE  Begin(u) \in file'
    BY DEF JournalReplays
  <2>1. CASE Outcomes(u) \cap file # {}
    BY <1>1, <2>1 DEF AppendDone, IInv, JournalReplays
  <2>2. CASE Outcomes(u) \cap file = {}
    <3>1. u = t
      BY <1>1, <2>2 DEF AppendDone, Outcomes
    <3> QED
      BY <1>1, <3>1 DEF AppendDone, IInv, SeenIsWritten
  <2> QED
    BY <2>1, <2>2
<1>6. AnsweredIsRecorded' /\ ChangesAnnounced'
  BY <1>1 DEF AppendDone, IInv, AnsweredIsRecorded, ChangesAnnounced, Begin
<1> QED
  BY <1>1, <1>2, <1>3, <1>4, <1>5, <1>6 DEF AppendDone, IInv

(* Every step keeps the invariant. *)
LEMMA NextIInv == IInv /\ [Next]_vars => IInv'
<1> SUFFICES ASSUME IInv, [Next]_vars PROVE IInv'
  OBVIOUS
<1> USE DEF Goto, journal, memory, local
<1>1. CASE UNCHANGED vars
  BY <1>1 DEF vars, IInv, Shapes, SeenIsWritten, HeldIsBegun, RecordedHasRow,
              OneTx, CommittedIsSeen,
         JournalReplays, AnsweredIsRecorded, ChangesAnnounced
<1>2. ASSUME NEW c \in Call, Open(c) PROVE IInv'
  BY <1>2 DEF Open, IInv, Shapes, SeenIsWritten, HeldIsBegun, RecordedHasRow, Held,
              OneTx, CommittedIsSeen,
         JournalReplays, AnsweredIsRecorded, ChangesAnnounced
<1>3. ASSUME NEW c \in Call, BeginTx(c) PROVE IInv'
  BY <1>3, BeginStep
<1>4. ASSUME NEW c \in Call, FinishTx(c) PROVE IInv'
  <2>1. PICK t \in Tx : /\ Pending(seen[c], t)
                        /\ \E event \in Outcomes(t) : Append(c, event, "idle", "idle")
    BY <1>4 DEF FinishTx
  <2>2. PICK kind \in {"commit", "abort"} : Append(c, <<kind, t>>, "idle", "idle")
    BY <2>1 DEF Outcomes
  <2>3. UNCHANGED <<tx, rows, answered>> /\ Begin(t) \in seen[c]
    BY <1>4, <2>1 DEF FinishTx, Pending
  <2> QED
    BY <2>2, <2>3, OutcomeStep
<1>5. ASSUME NEW c \in Call, Check(c) PROVE IInv'
  BY <1>5 DEF Check, IInv, Shapes, SeenIsWritten, HeldIsBegun, RecordedHasRow, Held,
              OneTx, CommittedIsSeen,
         JournalReplays, AnsweredIsRecorded, ChangesAnnounced
<1>6. ASSUME NEW c \in Call, Update(c) PROVE IInv'
  BY <1>6 DEF Update, IInv, Shapes, SeenIsWritten, HeldIsBegun, RecordedHasRow, Held,
              OneTx, CommittedIsSeen,
         JournalReplays, AnsweredIsRecorded, ChangesAnnounced
<1>7. ASSUME NEW c \in Call, Record(c) PROVE IInv'
  <2>1. /\ pc[c] = "updated" /\ pc' = [pc EXCEPT ![c] = "recorded"]
        /\ rows' = rows \cup (tx[c] \X {<<was[c], to[c]>>})
        /\ UNCHANGED <<file, tail, tx, seen, answered>>
    BY <1>7 DEF Record
  <2>2. \A t \in tx[c] : <<t, <<was[c], to[c]>>>> \in rows'
    BY <2>1
  <2>3. \A r \in rows' : r \in rows \/ r[1] \in tx[c]
    BY <2>1
  <2>4. tail = "whole" => \A t \in tx[c] : Begin(t) \in file
    BY <2>1 DEF IInv, HeldIsBegun, SeenIsWritten, Held
  <2>5. Shapes' /\ SeenIsWritten' /\ HeldIsBegun' /\ OneTx' /\ CommittedIsSeen'
    BY <2>1 DEF IInv, Shapes, SeenIsWritten, HeldIsBegun, OneTx, CommittedIsSeen, Held
  <2>6. RecordedHasRow'
    <3> SUFFICES ASSUME NEW d \in Call, pc'[d] \in {"recorded", "committed"}, NEW t \in tx[d]
                 PROVE  \E r \in rows' : r[1] = t
      BY <2>1 DEF RecordedHasRow
    <3>1. CASE d = c
      BY <2>2, <3>1
    <3>2. CASE d # c
      BY <2>1, <3>2 DEF IInv, Shapes, RecordedHasRow
    <3> QED
      BY <3>1, <3>2
  <2>7. JournalReplays' /\ AnsweredIsRecorded'
    BY <2>1 DEF IInv, JournalReplays, AnsweredIsRecorded
  <2>8. ChangesAnnounced'
    BY <2>1, <2>3, <2>4 DEF IInv, ChangesAnnounced
  <2> QED
    BY <2>5, <2>6, <2>7, <2>8 DEF IInv
<1>8. ASSUME NEW c \in Call, Commit(c) PROVE IInv'
  <2>1. PICK t \in tx[c] : /\ Pending(seen[c], t)
                           /\ Append(c, <<"commit", t>>, "committed", "failing")
    BY <1>8 DEF Commit
  <2>2. pc[c] = "recorded" /\ UNCHANGED <<tx, rows, answered>>
    BY <1>8 DEF Commit
  <2>3. t \in Tx /\ tx[c] = {t}
    BY <2>1 DEF IInv, Shapes, OneTx
  <2>4. /\ Begin(t) \in seen[c] /\ Append(c, <<"commit", t>>, "committed", "failing")
        /\ pc[c] \in Held
    BY <2>1, <2>2 DEF Pending, Held
  <2> QED
    BY <2>2, <2>3, <2>4, OutcomeStep
<1>9. ASSUME NEW c \in Call, Raise(c) PROVE IInv'
  BY <1>9 DEF Raise, IInv, Shapes, SeenIsWritten, HeldIsBegun, RecordedHasRow, Held,
              OneTx, CommittedIsSeen,
         JournalReplays, AnsweredIsRecorded, ChangesAnnounced
<1>10. ASSUME NEW c \in Call, Abort(c) PROVE IInv'
  <2>1. PICK t \in tx[c] : Pending(seen[c], t) /\ Append(c, <<"abort", t>>, "idle", "idle")
    BY <1>10 DEF Abort
  <2>2. UNCHANGED <<tx, rows, answered>> /\ t \in Tx
    BY <1>10, <2>1 DEF Abort, IInv, Shapes
  <2> QED
    BY <2>1, <2>2, OutcomeStep DEF Pending
<1>11. ASSUME NEW c \in Call, Crash(c) PROVE IInv'
  BY <1>11 DEF Crash, IInv, Shapes, SeenIsWritten, HeldIsBegun, RecordedHasRow, Held,
               OneTx, CommittedIsSeen,
         JournalReplays, AnsweredIsRecorded, ChangesAnnounced
<1>12. ASSUME NEW c \in Call, Answer(c) PROVE IInv'
  <2>1. /\ pc[c] = "committed" /\ pc' = [pc EXCEPT ![c] = "idle"]
        /\ seen' = [seen EXCEPT ![c] = {}]
        /\ answered' = answered \cup tx[c]
        /\ UNCHANGED <<file, tail, rows, tx>>
    BY <1>12 DEF Answer, Remember
  <2>2. AnsweredIsRecorded'
    <3> SUFFICES ASSUME NEW t \in answered'
                 PROVE  /\ \E r \in rows : r[1] = t
                        /\ tail = "whole" => {Begin(t), <<"commit", t>>} \subseteq file
      BY <2>1 DEF AnsweredIsRecorded
    <3>1. CASE t \in answered
      BY <3>1 DEF IInv, AnsweredIsRecorded
    <3>2. CASE t \in tx[c]
      BY <2>1, <3>2
         DEF IInv, RecordedHasRow, HeldIsBegun, CommittedIsSeen, SeenIsWritten, Held
    <3> QED
      BY <2>1, <3>1, <3>2
  <2>3. Shapes' /\ SeenIsWritten' /\ HeldIsBegun' /\ RecordedHasRow' /\ CommittedIsSeen'
    BY <2>1 DEF IInv, Shapes, SeenIsWritten, HeldIsBegun, RecordedHasRow, CommittedIsSeen, Held
  <2>4. OneTx' /\ JournalReplays' /\ ChangesAnnounced'
    BY <2>1 DEF IInv, OneTx, JournalReplays, ChangesAnnounced
  <2> QED
    BY <2>2, <2>3, <2>4 DEF IInv
<1> QED
  BY <1>1, <1>2, <1>3, <1>4, <1>5, <1>6, <1>7, <1>8, <1>9, <1>10, <1>11, <1>12 DEF Next
-----------------------------------------------------------------------------
LEMMA SpecIInv == Spec => []IInv
  BY InitIInv, NextIInv, PTL DEF Spec

(* Whatever raises, crashes or is torn, a journal that can be loaded never *)
(* holds the outcome of a transaction it does not know (journal.py,        *)
(* _append and _load).                                                     *)
THEOREM JournalReplaysTheorem == Spec => []JournalReplays
<1>1. IInv => JournalReplays
  BY DEF IInv
<1> QED
  BY <1>1, SpecIInv, PTL

(* Where a lifecycle operation returned ok, its transition is recorded and *)
(* a journal that can be loaded holds begin and commit, whatever other     *)
(* calls finished (manager.py: the commit follows the transition, and is   *)
(* synced before ok is returned).                                          *)
THEOREM AnsweredIsRecordedTheorem == Spec => []AnsweredIsRecorded
<1>1. IInv => AnsweredIsRecorded
  BY DEF IInv
<1> QED
  BY <1>1, SpecIInv, PTL

(* Every recorded transition can be found from a journal that can be       *)
(* loaded (manager.py: the transaction is begun before the transition).    *)
THEOREM ChangesAnnouncedTheorem == Spec => []ChangesAnnounced
<1>1. IInv => ChangesAnnounced
  BY DEF IInv
<1> QED
  BY <1>1, SpecIInv, PTL
-----------------------------------------------------------------------------
(***************************************************************************)
(* The control document.                                                   *)
(***************************************************************************)
(* Places of a thread that carries out a command, or edits a proposal.     *)
Place == {"idle", "require", "compile", "commit", "bind", "request", "record",
          "bind approval", "revise", "cancel", "enlist", "complete"}

ControlTypeOK ==
  /\ control \in Document /\ saved \in Document
  /\ order \in [Submission \cup Selection -> Document \cup {None}]
  /\ proposal \in [Proposal -> Prompt \cup {None}]
  /\ approval \in [Selection -> Approval \cup {None}]
  /\ claim \in [Attempt -> {"none", "in_progress", "completed"}] /\ active \subseteq Attempt
  /\ calls \in [Attempt -> Nat]
  /\ at \in [Worker -> Place] /\ mine \in [Worker -> Prompt \cup {None}]
  /\ cmd \in [Worker -> Submission \cup Selection \cup Attempt \cup {None}]

(* The file is at least as new as the document, and the document as every  *)
(* copy of it a command was written for; one revision, one document.       *)
OneDocument ==
  /\ control.revision <= saved.revision
  /\ control.revision = saved.revision => saved = control
  /\ \A c \in Submission \cup Selection : order[c] # None =>
       /\ order[c].revision <= control.revision
       /\ order[c].revision = control.revision => order[c] = control

(* What CursorsAgree says, of a document that may not be the one in force. *)
Agrees(doc) ==
  /\ doc.proposal # None =>
       proposal[doc.proposal] # None /\ proposal[doc.proposal].config = doc.config
  /\ doc.approval # None =>
       /\ approval[doc.approval] # None
       /\ approval[doc.approval].of = doc.proposal
       /\ approval[doc.approval].config = doc.config

AllAgree ==
  /\ Agrees(control) /\ Agrees(saved)
  /\ \A c \in Submission \cup Selection : order[c] # None => Agrees(order[c])

(* What is recorded for a command is of the document it was written for.   *)
Ordered(c) == order[c] # None /\ (c \in Selection => order[c].proposal # None)

RecordsFit ==
  /\ \A p \in Submission : proposal[p] # None =>
       Ordered(p) /\ proposal[p].config = order[p].config
  /\ \A a \in Selection : approval[a] # None =>
       /\ Ordered(a)
       /\ approval[a].of = order[a].proposal /\ approval[a].config = order[a].config

(* And so is what a thread has in hand on the way there.                   *)
ThreadFits(w) ==
  LET c == cmd[w] IN
  /\ at[w] = "require" => c \in Submission \cup Selection /\ Ordered(c)
  /\ at[w] \in {"compile", "commit"} => c \in Proposal /\ (c \in Submission => Ordered(c))
  /\ at[w] \in {"commit", "record", "revise", "cancel"} => mine[w] # None
  /\ at[w] = "commit" /\ c \in Submission => mine[w].config = order[c].config
  /\ at[w] = "bind" => c \in Submission /\ proposal[c] # None
  /\ at[w] \in {"request", "record", "bind approval"} => c \in Selection /\ Ordered(c)
  /\ at[w] = "record" => mine[w].config = order[c].config
  /\ at[w] = "bind approval" => approval[c] # None
  /\ at[w] \in {"revise", "cancel"} =>
       c \in Proposal /\ proposal[c] # None /\ mine[w].config = proposal[c].config
  /\ at[w] \in {"enlist", "complete"} => c \in Attempt

(* A thread on its way through an attempt: there is at most one, none      *)
(* before the claim, and before it compiles nobody has.                    *)
Pursues(w, d) == cmd[w] = d /\ at[w] \in {"enlist", "compile", "commit", "complete"}

Pursuit(d) ==
  /\ calls[d] <= 1
  /\ claim[d] = "none" => calls[d] = 0 /\ \A w \in Worker : ~Pursues(w, d)
  /\ \A w \in Worker : Pursues(w, d) /\ at[w] \in {"enlist", "compile"} => calls[d] = 0
  /\ \A v, w \in Worker : Pursues(v, d) /\ Pursues(w, d) => v = w

ControlInv ==
  /\ ControlTypeOK /\ OneDocument /\ AllAgree /\ RecordsFit
  /\ \A w \in Worker : ThreadFits(w)
  /\ \A d \in Attempt : Pursuit(d)
-----------------------------------------------------------------------------
(* The document of a service that starts for the first time. *)
LEMMA InitControlInv == ControlInit => ControlInv
<1> SUFFICES ASSUME ControlInit PROVE ControlInv
  OBVIOUS
<1>1. PICK c \in Config :
        control = [revision |-> 0, session |-> 0, config |-> c,
                   proposal |-> None, approval |-> None]
  BY DEF ControlInit
<1>2. control \in Document /\ saved = control
  BY <1>1 DEF ControlInit, Document
<1>3. ControlTypeOK
  BY <1>2 DEF ControlInit, ControlTypeOK, Place
<1>4. OneDocument /\ AllAgree
  BY <1>1, <1>2 DEF ControlInit, OneDocument, AllAgree, Agrees, Document
<1>5. RecordsFit /\ \A w \in Worker : ThreadFits(w)
  BY DEF ControlInit, RecordsFit, ThreadFits, Proposal
<1>6. \A d \in Attempt : Pursuit(d)
  BY DEF ControlInit, Pursuit, Pursues
<1> QED
  BY <1>3, <1>4, <1>5, <1>6 DEF ControlInv
-----------------------------------------------------------------------------
(* However a write of the document ends, there is one document per         *)
(* revision, provided that it shows what belongs together.                 *)
LEMMA PersistKeeps ==
  ASSUME ControlInv, NEW doc \in Document, Agrees(doc), Persist(doc), UNCHANGED <<streams, order>>
  PROVE  control' \in Document /\ saved' \in Document /\ OneDocument' /\ AllAgree'
<1> DEFINE next == [doc EXCEPT !.revision = control.revision + 1]
<1>1. /\ next \in Document /\ next.revision = control.revision + 1
      /\ next.config = doc.config /\ next.proposal = doc.proposal
      /\ next.approval = doc.approval
  BY DEF ControlInv, ControlTypeOK, Document
<1>2. \/ saved' = next /\ control' = next
      \/ saved' = next /\ UNCHANGED control
      \/ UNCHANGED <<control, saved>>
  BY DEF Persist, document
<1>3. Agrees(next)
  BY <1>1 DEF Agrees
<1>4. UNCHANGED <<proposal, approval, order>>
  BY DEF streams
<1> HIDE DEF next
<1>5. control' \in Document /\ saved' \in Document
  BY <1>1, <1>2 DEF ControlInv, ControlTypeOK
<1>6. OneDocument'
  BY <1>1, <1>2, <1>4, ControlAssumption
     DEF ControlInv, ControlTypeOK, OneDocument, Document
<1>7. AllAgree'
  BY <1>2, <1>3, <1>4 DEF ControlInv, AllAgree, Agrees
<1> QED
  BY <1>5, <1>6, <1>7

(* What a step may do to orders and streams: write what was not there, and *)
(* leave a proposal its configuration.                                     *)
Grows ==
  /\ \A c \in Submission \cup Selection : order[c] # None => order'[c] = order[c]
  /\ \A p \in Proposal : proposal[p] # None =>
       proposal'[p] # None /\ proposal'[p].config = proposal[p].config
  /\ \A a \in Selection : approval[a] # None => approval'[a] = approval[a]

Only(w) ==
  \A v \in Worker \ {w} : at'[v] = at[v] /\ cmd'[v] = cmd[v] /\ mine'[v] = mine[v]

(* The other threads keep what they have in hand.                          *)
LEMMA OthersFit ==
  ASSUME ControlInv, Grows, NEW w \in Worker, Only(w), ThreadFits(w)'
  PROVE  \A v \in Worker : ThreadFits(v)'
<1> SUFFICES ASSUME NEW v \in Worker, v # w PROVE ThreadFits(v)'
  OBVIOUS
<1>1. ThreadFits(v) /\ at'[v] = at[v] /\ cmd'[v] = cmd[v] /\ mine'[v] = mine[v]
  BY DEF ControlInv, Only
<1> QED
  BY <1>1 DEF ThreadFits, Grows, Ordered, Proposal

(* A document that is not written still shows what belongs together.       *)
LEMMA DocumentsStand ==
  ASSUME ControlInv, Grows, UNCHANGED <<document, order>>
  PROVE  OneDocument' /\ AllAgree'
<1>1. UNCHANGED <<control, saved, order>>
  BY DEF document
<1>2. OneDocument'
  BY <1>1 DEF ControlInv, OneDocument
<1>3. ASSUME NEW doc \in Document, Agrees(doc) PROVE Agrees(doc)'
  BY <1>3 DEF Agrees, Grows, Document, Proposal
<1>4. AllAgree'
  BY <1>1, <1>3 DEF ControlInv, ControlTypeOK, AllAgree, Agrees
<1> QED
  BY <1>2, <1>4

(* A thread that does not enter an attempt leaves every attempt as it is.  *)
LEMMA PursuitsStand ==
  ASSUME ControlInv, NEW w \in Worker, Only(w), UNCHANGED calls,
         \A d \in Attempt : claim'[d] = "none" => claim[d] = "none",
         \A d \in Attempt : Pursues(w, d)' =>
           Pursues(w, d) /\ (at'[w] \in {"enlist", "compile"} => at[w] \in {"enlist", "compile"})
  PROVE  \A d \in Attempt : Pursuit(d)'
<1> SUFFICES ASSUME NEW d \in Attempt PROVE Pursuit(d)'
  OBVIOUS
<1>1. \A v \in Worker : Pursues(v, d)' =>
        Pursues(v, d) /\ (at'[v] \in {"enlist", "compile"} => at[v] \in {"enlist", "compile"})
  BY DEF Only, Pursues
<1> QED
  BY <1>1 DEF ControlInv, Pursuit
-----------------------------------------------------------------------------
(* new_chat and set_configuration take the proposal and the approval out   *)
(* of the document they write.                                             *)
LEMMA DocumentStep ==
  ASSUME ControlInv, NewChat \/ SetConfiguration
  PROVE  ControlInv'
<1>1. control \in Document /\ Agrees(control)
  BY DEF ControlInv, ControlTypeOK, AllAgree
<1>2. PICK doc \in Document : Agrees(doc) /\ Persist(doc)
  <2>1. CASE NewChat
    <3>1. PICK c \in Config :
            Persist([Cleared(control) EXCEPT !.session = control.revision + 1, !.config = c])
      BY <2>1 DEF NewChat
    <3> DEFINE new == [Cleared(control) EXCEPT !.session = control.revision + 1, !.config = c]
    <3>2. new \in Document /\ new.proposal = None /\ new.approval = None
      <4> DEFINE empty == Cleared(control)
      <4>1. empty \in Document /\ empty.proposal = None /\ empty.approval = None
        BY <1>1 DEF Cleared, Document
      <4>2. control.revision + 1 \in Nat
        BY <1>1 DEF Document
      <4> HIDE DEF empty
      <4>3. [empty EXCEPT !.session = control.revision + 1, !.config = c] \in Document
        BY <4>1, <4>2 DEF Document
      <4>4. new = [empty EXCEPT !.session = control.revision + 1, !.config = c]
        BY DEF empty
      <4> QED
        BY <4>1, <4>3, <4>4 DEF Document
    <3>3. Agrees(new) /\ Persist(new)
      BY <3>1, <3>2 DEF Agrees
    <3> HIDE DEF new
    <3> QED
      BY <3>2, <3>3
  <2>2. CASE SetConfiguration
    <3>1. PICK c \in Config :
            Persist(IF c = control.config THEN control
                    ELSE [Cleared(control) EXCEPT !.config = c])
      BY <2>2 DEF SetConfiguration
    <3> DEFINE new == [Cleared(control) EXCEPT !.config = c]
    <3>2. new \in Document /\ new.proposal = None /\ new.approval = None
      BY <1>1 DEF Cleared, Document
    <3>3. Agrees(new)
      BY <3>2 DEF Agrees
    <3> HIDE DEF new
    <3>4. CASE c = control.config
      BY <1>1, <3>1, <3>4
    <3>5. CASE c # control.config
      <4>1. Persist(new)
        BY <3>1, <3>5 DEF new
      <4> QED
        BY <3>2, <3>3, <4>1
    <3> QED
      BY <3>4, <3>5
  <2> QED
    BY <2>1, <2>2
<1>3. UNCHANGED <<streams, attempts, calls, order, at, held, bounds>>
  BY DEF NewChat, SetConfiguration
<1>4. control' \in Document /\ saved' \in Document /\ OneDocument' /\ AllAgree'
  BY <1>2, <1>3, PersistKeeps
<1>5. UNCHANGED <<proposal, approval, claim, active, calls, order, at, cmd, mine>>
  BY <1>3 DEF streams, attempts, held
<1>6. ControlTypeOK'
  BY <1>4, <1>5 DEF ControlInv, ControlTypeOK
<1>7. RecordsFit' /\ \A w \in Worker : ThreadFits(w)'
  BY <1>5 DEF ControlInv, RecordsFit, ThreadFits, Ordered
<1>8. \A d \in Attempt : Pursuit(d)'
  BY <1>5 DEF ControlInv, Pursuit, Pursues
<1> QED
  BY <1>4, <1>6, <1>7, <1>8 DEF ControlInv

(* A thread that returns has nothing in hand.                              *)
LEMMA Returned ==
  ASSUME ControlInv, NEW w \in Worker, Return(w)
  PROVE  /\ at' \in [Worker -> Place] /\ mine' \in [Worker -> Prompt \cup {None}]
         /\ cmd' \in [Worker -> Submission \cup Selection \cup Attempt \cup {None}]
         /\ Only(w) /\ ThreadFits(w)' /\ \A d : ~Pursues(w, d)'
<1>1. /\ at' = [at EXCEPT ![w] = "idle"] /\ cmd' = [cmd EXCEPT ![w] = None]
      /\ mine' = [mine EXCEPT ![w] = None]
  BY DEF Return, Proceed
<1>2. /\ at \in [Worker -> Place] /\ mine \in [Worker -> Prompt \cup {None}]
      /\ cmd \in [Worker -> Submission \cup Selection \cup Attempt \cup {None}]
  BY DEF ControlInv, ControlTypeOK
<1>3. /\ at' \in [Worker -> Place] /\ mine' \in [Worker -> Prompt \cup {None}]
      /\ cmd' \in [Worker -> Submission \cup Selection \cup Attempt \cup {None}]
  BY <1>1, <1>2 DEF Place
<1>4. Only(w) /\ at'[w] = "idle"
  BY <1>1, <1>2 DEF Only
<1> QED
  BY <1>3, <1>4 DEF ThreadFits, Pursues

(* A thread that goes on with the command it has.                          *)
LEMMA Proceeded ==
  ASSUME ControlInv, NEW w \in Worker, NEW label \in Place, Proceed(w, label), UNCHANGED cmd,
         NEW p \in Prompt \cup {None}, mine' \in {mine, [mine EXCEPT ![w] = p]}
  PROVE  /\ at' \in [Worker -> Place] /\ mine' \in [Worker -> Prompt \cup {None}]
         /\ cmd' \in [Worker -> Submission \cup Selection \cup Attempt \cup {None}]
         /\ Only(w) /\ at'[w] = label
  BY DEF ControlInv, ControlTypeOK, Proceed, Only

(* Nothing is written: what holds of the rest is kept.                     *)
LEMMA Quiet ==
  ASSUME ControlInv, NEW w \in Worker,
         UNCHANGED <<document, streams, order>>, Only(w), ThreadFits(w)',
         at' \in [Worker -> Place], mine' \in [Worker -> Prompt \cup {None}],
         cmd' \in [Worker -> Submission \cup Selection \cup Attempt \cup {None}],
         claim' \in [Attempt -> {"none", "in_progress", "completed"}], active' \subseteq Attempt,
         calls' \in [Attempt -> Nat], \A d \in Attempt : Pursuit(d)'
  PROVE  ControlInv'
<1>1. UNCHANGED <<control, saved, proposal, approval, order>>
  BY DEF document, streams
<1>2. Grows
  BY <1>1 DEF Grows
<1>3. OneDocument' /\ AllAgree' /\ \A v \in Worker : ThreadFits(v)'
  BY <1>2, DocumentsStand, OthersFit
<1>4. ControlTypeOK'
  BY <1>1 DEF ControlInv, ControlTypeOK
<1>5. RecordsFit'
  BY <1>1 DEF ControlInv, RecordsFit, Ordered
<1> QED
  BY <1>3, <1>4, <1>5 DEF ControlInv
-----------------------------------------------------------------------------
(* A command that is sent for the first time keeps the document that is in *)
(* force, and every copy sent later is for that one.                       *)
LEMMA SendStep ==
  ASSUME ControlInv, NEW w \in Worker, NEW c \in Submission \cup Selection, Send(w, c)
  PROVE  ControlInv'
<1>1. /\ order' = [order EXCEPT ![c] = IF @ = None THEN control ELSE @]
      /\ c \in Selection => order'[c].proposal # None
      /\ Proceed(w, "require") /\ cmd' = [cmd EXCEPT ![w] = c]
      /\ UNCHANGED <<control, saved, proposal, approval, claim, active, calls, mine>>
  BY DEF Send, document, streams, attempts
<1>2. /\ control \in Document /\ control # None
      /\ order \in [Submission \cup Selection -> Document \cup {None}]
  BY ControlAssumption DEF ControlInv, ControlTypeOK
<1>3. /\ order' \in [Submission \cup Selection -> Document \cup {None}]
      /\ \A b \in Submission \cup Selection : b # c => order'[b] = order[b]
      /\ order'[c] = IF order[c] = None THEN control ELSE order[c]
  BY <1>1, <1>2
<1>4. /\ at' \in [Worker -> Place]
      /\ cmd' \in [Worker -> Submission \cup Selection \cup Attempt \cup {None}]
      /\ Only(w) /\ at'[w] = "require" /\ cmd'[w] = c
  BY <1>1 DEF ControlInv, ControlTypeOK, Proceed, Only, Place
<1>5. ControlTypeOK'
  BY <1>1, <1>3, <1>4 DEF ControlInv, ControlTypeOK
<1>6. Grows
  BY <1>1, <1>3 DEF Grows
<1>7. OneDocument'
  BY <1>1, <1>2, <1>3 DEF ControlInv, OneDocument, Document
<1>8. AllAgree'
  BY <1>1, <1>3 DEF ControlInv, AllAgree, Agrees
<1>9. RecordsFit'
  BY <1>1, <1>6 DEF ControlInv, RecordsFit, Ordered, Grows
<1>10. ThreadFits(w)'
  BY <1>1, <1>2, <1>3, <1>4 DEF ThreadFits, Ordered
<1>11. \A v \in Worker : ThreadFits(v)'
  BY <1>4, <1>6, <1>10, OthersFit
<1>12. \A d \in Attempt : Pursuit(d)'
  BY <1>1, <1>4, PursuitsStand DEF Pursues
<1> QED
  BY <1>5, <1>7, <1>8, <1>9, <1>11, <1>12 DEF ControlInv

LEMMA RequireStep ==
  ASSUME ControlInv, NEW w \in Worker, RequireCurrent(w)
  PROVE  ControlInv'
<1>1. /\ at[w] = "require" /\ ThreadFits(w)
      /\ UNCHANGED <<document, streams, claim, active, calls, order>>
  BY DEF RequireCurrent, ControlInv, attempts
<1>2. CASE Return(w)
  <2>1. /\ at' \in [Worker -> Place] /\ mine' \in [Worker -> Prompt \cup {None}]
        /\ cmd' \in [Worker -> Submission \cup Selection \cup Attempt \cup {None}]
        /\ Only(w) /\ ThreadFits(w)' /\ \A d : ~Pursues(w, d)'
    BY <1>2, Returned
  <2>2. \A d \in Attempt : Pursuit(d)'
    BY <1>1, <2>1, PursuitsStand
  <2> QED
    BY <1>1, <2>1, <2>2, Quiet DEF ControlInv, ControlTypeOK
<1>3. CASE /\ Proceed(w, IF cmd[w] \in Submission THEN "compile" ELSE "request")
           /\ UNCHANGED <<cmd, mine>>
  <2>1. PICK label \in {"compile", "request"} :
          /\ label = IF cmd[w] \in Submission THEN "compile" ELSE "request"
          /\ Proceed(w, label)
    BY <1>3
  <2>2. /\ at' \in [Worker -> Place] /\ mine' \in [Worker -> Prompt \cup {None}]
        /\ cmd' \in [Worker -> Submission \cup Selection \cup Attempt \cup {None}]
        /\ Only(w) /\ at'[w] = label
    BY <1>3, <2>1, Proceeded DEF Place
  <2>3. cmd[w] \in Submission \cup Selection /\ Ordered(cmd[w])
    BY <1>1 DEF ThreadFits
  <2>4. UNCHANGED <<order, cmd, mine>>
    BY <1>1, <1>3
  <2>5. ThreadFits(w)'
    BY <2>1, <2>2, <2>3, <2>4 DEF ThreadFits, Ordered, Proposal
  <2>6. \A d \in Attempt : ~Pursues(w, d)'
    BY <2>3, <2>4, ControlAssumption DEF Pursues
  <2>7. \A d \in Attempt : Pursuit(d)'
    BY <1>1, <2>2, <2>6, PursuitsStand
  <2> QED
    BY <1>1, <2>2, <2>5, <2>7, Quiet DEF ControlInv, ControlTypeOK
<1> QED
  BY <1>2, <1>3 DEF RequireCurrent, held

(* An attempt is claimed before it is compiled, so that only the thread    *)
(* that claimed it gets here, once.                                        *)
LEMMA CompileStep ==
  ASSUME ControlInv, NEW w \in Worker, Compile(w)
  PROVE  ControlInv'
<1> DEFINE c == cmd[w]
<1>1. /\ at[w] = "compile" /\ ThreadFits(w)
      /\ UNCHANGED <<document, streams, claim, active, order, cmd>>
      /\ UNCHANGED proposal
  BY DEF Compile, ControlInv, attempts, streams
<1>2. c \in Proposal /\ (c \in Submission => Ordered(c))
  BY <1>1 DEF ThreadFits
<1>3. CASE /\ proposal[c] = None /\ Proceed(w, "commit")
           /\ calls' = [d \in Attempt |-> IF d = c THEN calls[d] + 1 ELSE calls[d]]
           /\ \E text \in Text : mine' = [mine EXCEPT ![w] = Compiled(c, text)]
  <2>1. PICK text \in Text : mine' = [mine EXCEPT ![w] = Compiled(c, text)]
    BY <1>3
  <2>2. c \in Submission => order[c].config \in Config
    BY <1>2 DEF Ordered, ControlInv, ControlTypeOK, Document
  <2>3. PICK p \in Prompt : p = Compiled(c, text)
    <3>1. Compiled(c, text) \in Prompt
      BY <2>2 DEF Compiled, Prompt
    <3> QED
      BY <3>1
  <2>4. /\ at' \in [Worker -> Place] /\ mine' \in [Worker -> Prompt \cup {None}]
        /\ cmd' \in [Worker -> Submission \cup Selection \cup Attempt \cup {None}]
        /\ Only(w) /\ at'[w] = "commit"
    BY <1>1, <1>3, <2>1, <2>3, Proceeded DEF Place
  <2>5. mine'[w] = p /\ p # None /\ (c \in Submission => p.config = order[c].config)
    BY <2>1, <2>3, ControlAssumption DEF ControlInv, ControlTypeOK, Compiled
  <2>6. ThreadFits(w)'
    BY <1>1, <1>2, <2>4, <2>5 DEF ThreadFits, Ordered
  <2>7. /\ calls' \in [Attempt -> Nat]
        /\ \A d \in Attempt : d # c => calls'[d] = calls[d]
        /\ c \in Attempt => calls'[c] = calls[c] + 1
    BY <1>3 DEF ControlInv, ControlTypeOK
  <2>8. \A d \in Attempt : Pursuit(d)'
    <3> SUFFICES ASSUME NEW d \in Attempt PROVE Pursuit(d)'
      OBVIOUS
    <3>1. \A v \in Worker : Pursues(v, d)' => Pursues(v, d)
      BY <1>1, <2>4 DEF Only, Pursues
    <3>2. CASE d # c
      BY <1>1, <2>4, <2>7, <3>1, <3>2 DEF ControlInv, Pursuit, Pursues, Only
    <3>3. CASE d = c
      <4>1. Pursues(w, d) /\ calls[d] = 0 /\ claim[d] # "none"
        BY <1>1, <3>3 DEF Pursues, ControlInv, Pursuit
      <4> QED
        BY <1>1, <2>4, <2>7, <3>1, <3>3, <4>1 DEF ControlInv, Pursuit, Pursues, Only
    <3> QED
      BY <3>2, <3>3
  <2> QED
    BY <1>1, <2>4, <2>6, <2>7, <2>8, Quiet DEF ControlInv, ControlTypeOK
<1>4. CASE /\ proposal[c] # None /\ Proceed(w, After(c))
           /\ mine' = [mine EXCEPT ![w] = proposal[c]] /\ UNCHANGED calls
  <2>1. PICK label \in {"complete", "bind"} : label = After(c) /\ Proceed(w, label)
    BY <1>4 DEF After
  <2>2. PICK p \in Prompt \cup {None} : p = proposal[c] /\ mine' = [mine EXCEPT ![w] = p]
    BY <1>2, <1>4 DEF ControlInv, ControlTypeOK
  <2>3. /\ at' \in [Worker -> Place] /\ mine' \in [Worker -> Prompt \cup {None}]
        /\ cmd' \in [Worker -> Submission \cup Selection \cup Attempt \cup {None}]
        /\ Only(w) /\ at'[w] = label
    <3>1. label \in Place /\ UNCHANGED cmd /\ mine' \in {mine, [mine EXCEPT ![w] = p]}
      BY <1>1, <2>2 DEF Place
    <3> QED
      BY <2>1, <3>1, Proceeded
  <2>4. ThreadFits(w)'
    BY <1>1, <1>2, <1>4, <2>1, <2>3 DEF ThreadFits, Ordered, After, Proposal
  <2>5. \A d \in Attempt : Pursuit(d)'
    BY <1>1, <1>4, <2>1, <2>3, PursuitsStand DEF Pursues
  <2> QED
    BY <1>1, <1>4, <2>3, <2>4, <2>5, Quiet DEF ControlInv, ControlTypeOK
<1> QED
  BY <1>3, <1>4 DEF Compile
-----------------------------------------------------------------------------
(* Streams are written by a thread that leaves the documents alone.        *)
LEMMA StreamsGrow ==
  ASSUME ControlInv, NEW w \in Worker, Grows,
         UNCHANGED <<document, order, calls>>, Only(w), ThreadFits(w)',
         at' \in [Worker -> Place], mine' \in [Worker -> Prompt \cup {None}],
         cmd' \in [Worker -> Submission \cup Selection \cup Attempt \cup {None}],
         UNCHANGED <<claim, active>>,
         proposal' \in [Proposal -> Prompt \cup {None}],
         approval' \in [Selection -> Approval \cup {None}],
         RecordsFit', \A d \in Attempt : Pursuit(d)'
  PROVE  ControlInv'
<1>1. OneDocument' /\ AllAgree' /\ \A v \in Worker : ThreadFits(v)'
  BY DocumentsStand, OthersFit
<1>2. ControlTypeOK'
  BY DEF ControlInv, ControlTypeOK, document
<1> QED
  BY <1>1, <1>2 DEF ControlInv

LEMMA CommitStep ==
  ASSUME ControlInv, NEW w \in Worker, CommitProposal(w)
  PROVE  ControlInv'
<1> DEFINE c == cmd[w]
<1>1. /\ at[w] = "commit" /\ ThreadFits(w) /\ Proceed(w, After(c))
      /\ proposal' = [proposal EXCEPT ![c] = IF @ = None THEN mine[w] ELSE @]
      /\ UNCHANGED <<document, approval, claim, active, calls, order, cmd, mine>>
  BY DEF CommitProposal, ControlInv, attempts, held
<1>2. /\ c \in Proposal /\ (c \in Submission => Ordered(c)) /\ mine[w] # None
      /\ c \in Submission => mine[w].config = order[c].config
  BY <1>1 DEF ThreadFits
<1>3. mine[w] \in Prompt /\ proposal \in [Proposal -> Prompt \cup {None}]
  BY <1>2 DEF ControlInv, ControlTypeOK
<1>4. /\ proposal' \in [Proposal -> Prompt \cup {None}] /\ proposal'[c] # None
      /\ \A p \in Proposal : p # c => proposal'[p] = proposal[p]
      /\ proposal'[c] = IF proposal[c] = None THEN mine[w] ELSE proposal[c]
  BY <1>1, <1>2, <1>3
<1>5. PICK label \in {"complete", "bind"} : label = After(c) /\ Proceed(w, label)
  BY <1>1 DEF After
<1>6. /\ at' \in [Worker -> Place] /\ mine' \in [Worker -> Prompt \cup {None}]
      /\ cmd' \in [Worker -> Submission \cup Selection \cup Attempt \cup {None}]
      /\ Only(w) /\ at'[w] = label
  <2>1. label \in Place /\ UNCHANGED <<cmd, mine>>
    BY <1>1 DEF Place
  <2> QED
    BY <1>3, <1>5, <2>1, Proceeded
<1>7. Grows
  BY <1>1, <1>4 DEF Grows
<1>8. ThreadFits(w)'
  BY <1>1, <1>2, <1>4, <1>5, <1>6 DEF ThreadFits, After, Proposal
<1>9. RecordsFit'
  BY <1>1, <1>2, <1>4 DEF ControlInv, RecordsFit, Ordered, Proposal
<1>10. \A d \in Attempt : Pursuit(d)'
  BY <1>1, <1>5, <1>6, PursuitsStand DEF Pursues
<1>11. approval' \in [Selection -> Approval \cup {None}]
  BY <1>1 DEF ControlInv, ControlTypeOK
<1> HIDE DEF c
<1> QED
  BY <1>1, <1>4, <1>6, <1>7, <1>8, <1>9, <1>10, <1>11, StreamsGrow

(* A document written by a thread that returns.                            *)
LEMMA BindStep ==
  ASSUME ControlInv, NEW w \in Worker, Return(w),
         UNCHANGED <<streams, claim, active, calls, order>>,
         \/ UNCHANGED document
         \/ \E doc \in Document : Agrees(doc) /\ Persist(doc)
  PROVE  ControlInv'
<1>1. /\ at' \in [Worker -> Place] /\ mine' \in [Worker -> Prompt \cup {None}]
      /\ cmd' \in [Worker -> Submission \cup Selection \cup Attempt \cup {None}]
      /\ Only(w) /\ ThreadFits(w)' /\ \A d : ~Pursues(w, d)'
  BY Returned
<1>2. UNCHANGED <<proposal, approval>>
  BY DEF streams
<1>3. Grows
  BY <1>2 DEF Grows
<1>4. control' \in Document /\ saved' \in Document /\ OneDocument' /\ AllAgree'
  <2>1. CASE UNCHANGED document
    BY <1>3, <2>1, DocumentsStand DEF document, ControlInv, ControlTypeOK
  <2>2. CASE \E doc \in Document : Agrees(doc) /\ Persist(doc)
    BY <2>2, PersistKeeps
  <2> QED
    BY <2>1, <2>2
<1>5. ControlTypeOK'
  BY <1>1, <1>2, <1>4 DEF ControlInv, ControlTypeOK
<1>6. RecordsFit'
  BY <1>2 DEF ControlInv, RecordsFit, Ordered
<1>7. \A v \in Worker : ThreadFits(v)'
  BY <1>1, <1>3, OthersFit
<1>8. \A d \in Attempt : Pursuit(d)'
  BY <1>1, PursuitsStand
<1> QED
  BY <1>4, <1>5, <1>6, <1>7, <1>8 DEF ControlInv

(* A proposal is bound in the document its command was written for, whose  *)
(* configuration it was compiled for.                                      *)
LEMMA BindProposalStep ==
  ASSUME ControlInv, NEW w \in Worker, BindProposal(w)
  PROVE  ControlInv'
<1>1. /\ Return(w) /\ at[w] = "bind" /\ ThreadFits(w)
      /\ UNCHANGED <<streams, claim, active, calls, order>>
  BY DEF BindProposal, ControlInv, attempts
<1>2. cmd[w] \in Submission /\ proposal[cmd[w]] # None
  BY <1>1 DEF ThreadFits
<1>3. ASSUME Current(order[cmd[w]]), Persist([Cleared(control) EXCEPT !.proposal = cmd[w]])
      PROVE  \E doc \in Document : Agrees(doc) /\ Persist(doc)
  <2> DEFINE new == [Cleared(control) EXCEPT !.proposal = cmd[w]]
  <2>1. control \in Document
    BY DEF ControlInv, ControlTypeOK
  <2>2. /\ new \in Document /\ new.proposal = cmd[w] /\ new.approval = None
        /\ new.config = control.config
    BY <1>2, <2>1 DEF Cleared, Document
  <2>3. proposal[cmd[w]].config = control.config
    BY <1>2, <1>3 DEF ControlInv, RecordsFit, Current
  <2>4. Agrees(new)
    BY <1>2, <2>2, <2>3 DEF Agrees
  <2>5. Persist(new)
    BY <1>3
  <2> HIDE DEF new
  <2> QED
    BY <2>2, <2>4, <2>5
<1>4. \/ UNCHANGED document
      \/ Current(order[cmd[w]]) /\ Persist([Cleared(control) EXCEPT !.proposal = cmd[w]])
  BY DEF BindProposal
<1> QED
  BY <1>1, <1>3, <1>4, BindStep

(* An approval is bound in the document its command was written for: that  *)
(* document shows the proposal the approval is of.                         *)
LEMMA BindApprovalStep ==
  ASSUME ControlInv, NEW w \in Worker, BindApproval(w)
  PROVE  ControlInv'
<1>1. /\ Return(w) /\ at[w] = "bind approval" /\ ThreadFits(w)
      /\ UNCHANGED <<streams, claim, active, calls, order>>
  BY DEF BindApproval, ControlInv, attempts
<1>2. cmd[w] \in Selection /\ approval[cmd[w]] # None
  BY <1>1 DEF ThreadFits
<1>3. ASSUME Current(order[cmd[w]]), control.proposal = order[cmd[w]].proposal,
             Persist([control EXCEPT !.approval = cmd[w]])
      PROVE  \E doc \in Document : Agrees(doc) /\ Persist(doc)
  <2> DEFINE new == [control EXCEPT !.approval = cmd[w]]
  <2>1. control \in Document /\ Agrees(control)
    BY DEF ControlInv, ControlTypeOK, AllAgree
  <2>2. /\ new \in Document /\ new.approval = cmd[w]
        /\ new.config = control.config /\ new.proposal = control.proposal
    BY <1>2, <2>1 DEF Document
  <2>3. /\ approval[cmd[w]].of = control.proposal
        /\ approval[cmd[w]].config = control.config
    BY <1>2, <1>3 DEF ControlInv, RecordsFit, Current
  <2>4. Agrees(new)
    BY <1>2, <2>1, <2>2, <2>3 DEF Agrees
  <2>5. Persist(new)
    BY <1>3
  <2> HIDE DEF new
  <2> QED
    BY <2>2, <2>4, <2>5
<1>4. \/ UNCHANGED document
      \/ /\ Current(order[cmd[w]]) /\ control.proposal = order[cmd[w]].proposal
         /\ Persist([control EXCEPT !.approval = cmd[w]])
  BY DEF BindApproval
<1> QED
  BY <1>1, <1>3, <1>4, BindStep
-----------------------------------------------------------------------------
(* The proposal a selection is of was compiled for the configuration of    *)
(* the document the selection was written for.                             *)
LEMMA RequestStep ==
  ASSUME ControlInv, NEW w \in Worker, Request(w)
  PROVE  ControlInv'
<1> DEFINE c == cmd[w]
           q == order[c].proposal
<1>1. /\ at[w] = "request" /\ ThreadFits(w) /\ Proceed(w, "record")
      /\ mine' = [mine EXCEPT ![w] = proposal[q]]
      /\ UNCHANGED <<document, streams, claim, active, calls, order, cmd>>
      /\ UNCHANGED <<proposal, approval>>
  BY DEF Request, ControlInv, attempts, streams
<1>2. c \in Selection /\ Ordered(c)
  BY <1>1 DEF ThreadFits
<1>3. order[c] \in Document /\ Agrees(order[c]) /\ q # None
  BY <1>2 DEF ControlInv, ControlTypeOK, AllAgree, Ordered
<1>4. q \in Proposal /\ proposal[q] # None /\ proposal[q].config = order[c].config
  BY <1>3 DEF Document, Agrees, Proposal
<1>5. PICK p \in Prompt : p = proposal[q] /\ mine' = [mine EXCEPT ![w] = p]
  BY <1>1, <1>4 DEF ControlInv, ControlTypeOK
<1>6. /\ at' \in [Worker -> Place] /\ mine' \in [Worker -> Prompt \cup {None}]
      /\ cmd' \in [Worker -> Submission \cup Selection \cup Attempt \cup {None}]
      /\ Only(w) /\ at'[w] = "record"
  <2>1. "record" \in Place /\ Proceed(w, "record") /\ UNCHANGED cmd
    BY <1>1 DEF Place
  <2>2. p \in Prompt \cup {None} /\ mine' \in {mine, [mine EXCEPT ![w] = p]}
    BY <1>5
  <2> QED
    BY <2>1, <2>2, Proceeded
<1>7. mine'[w] = p
  BY <1>5 DEF ControlInv, ControlTypeOK
<1>8. ThreadFits(w)'
  BY <1>1, <1>2, <1>4, <1>5, <1>6, <1>7, ControlAssumption DEF ThreadFits, Ordered
<1>9. \A d \in Attempt : Pursuit(d)'
  BY <1>1, <1>6, PursuitsStand DEF Pursues
<1> HIDE DEF c, q
<1> QED
  BY <1>1, <1>6, <1>8, <1>9, Quiet DEF ControlInv, ControlTypeOK

LEMMA RecordStep ==
  ASSUME ControlInv, NEW w \in Worker, RecordApproval(w)
  PROVE  ControlInv'
<1> DEFINE c == cmd[w]
           a == [of |-> order[c].proposal, config |-> mine[w].config,
                 revision |-> mine[w].revision]
<1>1. /\ at[w] = "record" /\ ThreadFits(w) /\ Proceed(w, "bind approval")
      /\ approval[c] \in {None, a} /\ approval' = [approval EXCEPT ![c] = a]
      /\ UNCHANGED <<document, proposal, claim, active, calls, order, cmd, mine>>
  BY DEF RecordApproval, ControlInv, attempts, held
<1>2. /\ c \in Selection /\ Ordered(c) /\ mine[w] # None /\ mine[w].config = order[c].config
  BY <1>1 DEF ThreadFits
<1>3. mine[w] \in Prompt /\ order[c] \in Document
  BY <1>2 DEF ControlInv, ControlTypeOK, Ordered
<1>4. /\ order[c].proposal \in Submission /\ order[c].config \in Config
      /\ mine[w].revision \in Nat
  BY <1>2, <1>3 DEF Ordered, Document, Prompt
<1>5. a \in Approval /\ a.of = order[c].proposal /\ a.config = order[c].config
  <2>1. a.config = mine[w].config /\ mine[w].config \in Config
    BY <1>2, <1>4
  <2> QED
    BY <1>2, <1>4, <2>1 DEF Approval
<1>6. a # None
  BY <1>5, ControlAssumption
<1> HIDE DEF a
<1>7. /\ approval' \in [Selection -> Approval \cup {None}] /\ approval'[c] = a
      /\ \A b \in Selection : b # c => approval'[b] = approval[b]
  BY <1>1, <1>2, <1>5 DEF ControlInv, ControlTypeOK
<1>8. Grows
  BY <1>1, <1>7 DEF Grows
<1>9. /\ at' \in [Worker -> Place] /\ mine' \in [Worker -> Prompt \cup {None}]
      /\ cmd' \in [Worker -> Submission \cup Selection \cup Attempt \cup {None}]
      /\ Only(w) /\ at'[w] = "bind approval"
  <2>1. "bind approval" \in Place /\ UNCHANGED <<cmd, mine>>
    BY <1>1 DEF Place
  <2> QED
    BY <1>1, <1>3, <2>1, Proceeded
<1>10. ThreadFits(w)'
  BY <1>1, <1>2, <1>6, <1>7, <1>9 DEF ThreadFits, Ordered
<1>11. RecordsFit'
  BY <1>1, <1>2, <1>5, <1>7 DEF ControlInv, RecordsFit, Ordered
<1>12. \A d \in Attempt : Pursuit(d)'
  BY <1>1, <1>9, PursuitsStand DEF Pursues
<1>13. proposal' \in [Proposal -> Prompt \cup {None}]
  BY <1>1 DEF ControlInv, ControlTypeOK
<1> HIDE DEF c
<1> QED
  BY <1>1, <1>7, <1>8, <1>9, <1>10, <1>11, <1>12, <1>13, StreamsGrow

(* An edit leaves a proposal the configuration it was compiled for.        *)
LEMMA EditStep ==
  ASSUME ControlInv, NEW w \in Worker, Edit(w)
  PROVE  ControlInv'
<1>1. PICK p \in Proposal, kind \in {"revise", "cancel"} :
        /\ proposal[p] # None
        /\ mine' = [mine EXCEPT ![w] = proposal[p]]
        /\ cmd' = [cmd EXCEPT ![w] = p] /\ Proceed(w, kind)
  BY DEF Edit
<1>2. UNCHANGED <<document, streams, claim, active, calls, order, proposal>>
  BY DEF Edit, attempts, streams
<1>3. /\ at' \in [Worker -> Place] /\ mine' \in [Worker -> Prompt \cup {None}]
      /\ cmd' \in [Worker -> Submission \cup Selection \cup Attempt \cup {None}]
      /\ Only(w) /\ at'[w] = kind /\ cmd'[w] = p /\ mine'[w] = proposal[p]
  BY <1>1 DEF ControlInv, ControlTypeOK, Proceed, Only, Place, Proposal
<1>4. ThreadFits(w)'
  BY <1>1, <1>2, <1>3 DEF ThreadFits
<1>5. \A d \in Attempt : Pursuit(d)'
  BY <1>2, <1>3, PursuitsStand DEF Pursues
<1> QED
  BY <1>2, <1>3, <1>4, <1>5, Quiet DEF ControlInv, ControlTypeOK

LEMMA CommitEditStep ==
  ASSUME ControlInv, NEW w \in Worker, CommitEdit(w)
  PROVE  ControlInv'
<1> DEFINE c == cmd[w]
           new == IF at[w] = "cancel" THEN [mine[w] EXCEPT !.state = "cancelled"]
                  ELSE [mine[w] EXCEPT !.revision = @ + 1]
<1>1. /\ Return(w) /\ at[w] \in {"revise", "cancel"} /\ ThreadFits(w)
      /\ proposal' = [proposal EXCEPT ![c] = new]
      /\ UNCHANGED <<document, approval, claim, active, calls, order>>
  BY DEF CommitEdit, ControlInv, attempts
<1>2. /\ c \in Proposal /\ proposal[c] # None /\ mine[w].config = proposal[c].config
      /\ mine[w] # None
  BY <1>1 DEF ThreadFits
<1>3. mine[w] \in Prompt
  BY <1>2 DEF ControlInv, ControlTypeOK
<1>4. new \in Prompt /\ new.config = proposal[c].config
  BY <1>2, <1>3 DEF Prompt
<1> HIDE DEF new
<1>5. /\ proposal' \in [Proposal -> Prompt \cup {None}] /\ proposal'[c] = new
      /\ \A p \in Proposal : p # c => proposal'[p] = proposal[p]
  BY <1>1, <1>2, <1>4 DEF ControlInv, ControlTypeOK
<1>6. new # None
  BY <1>4, ControlAssumption
<1>7. Grows
  BY <1>1, <1>4, <1>5, <1>6 DEF Grows
<1>8. /\ at' \in [Worker -> Place] /\ mine' \in [Worker -> Prompt \cup {None}]
      /\ cmd' \in [Worker -> Submission \cup Selection \cup Attempt \cup {None}]
      /\ Only(w) /\ ThreadFits(w)' /\ \A d : ~Pursues(w, d)'
  BY <1>1, Returned
<1>9. RecordsFit'
  BY <1>1, <1>2, <1>4, <1>5 DEF ControlInv, RecordsFit, Ordered, Proposal
<1>10. \A d \in Attempt : Pursuit(d)'
  BY <1>1, <1>8, PursuitsStand
<1>11. approval' \in [Selection -> Approval \cup {None}]
  BY <1>1 DEF ControlInv, ControlTypeOK
<1> HIDE DEF c
<1> QED
  BY <1>1, <1>5, <1>7, <1>8, <1>9, <1>10, <1>11, StreamsGrow
-----------------------------------------------------------------------------
(* Nobody pursues an attempt that is not claimed; whoever claims it is the *)
(* only one.                                                               *)
LEMMA AdmitStep ==
  ASSUME ControlInv, NEW w \in Worker, NEW d \in Attempt, Admit(w, d)
  PROVE  ControlInv'
<1>1. /\ at[w] = "idle" /\ claim[d] = "none"
      /\ claim' = [claim EXCEPT ![d] = "in_progress"]
      /\ Proceed(w, "enlist") /\ cmd' = [cmd EXCEPT ![w] = d]
      /\ UNCHANGED <<document, streams, active, calls, order, mine>>
  BY DEF Admit
<1>2. /\ at' \in [Worker -> Place] /\ mine' \in [Worker -> Prompt \cup {None}]
      /\ cmd' \in [Worker -> Submission \cup Selection \cup Attempt \cup {None}]
      /\ Only(w) /\ at'[w] = "enlist" /\ cmd'[w] = d
  BY <1>1 DEF ControlInv, ControlTypeOK, Proceed, Only, Place
<1>3. /\ claim' \in [Attempt -> {"none", "in_progress", "completed"}]
      /\ claim'[d] = "in_progress"
      /\ \A e \in Attempt : e # d => claim'[e] = claim[e]
  BY <1>1 DEF ControlInv, ControlTypeOK
<1>4. ThreadFits(w)'
  BY <1>2 DEF ThreadFits
<1>5. \A e \in Attempt : Pursuit(e)'
  <2> SUFFICES ASSUME NEW e \in Attempt PROVE Pursuit(e)'
    OBVIOUS
  <2>1. Pursuit(e)
    BY DEF ControlInv
  <2>2. CASE e # d
    BY <1>1, <1>2, <1>3, <2>1, <2>2 DEF Pursuit, Pursues, Only
  <2>3. CASE e = d
    <3>1. calls[d] = 0 /\ \A v \in Worker : ~Pursues(v, d)
      BY <1>1, <2>1, <2>3 DEF Pursuit
    <3>2. \A v \in Worker : Pursues(v, d)' => v = w
      BY <1>2, <3>1 DEF Only, Pursues
    <3> QED
      BY <1>1, <1>2, <1>3, <2>3, <3>1, <3>2 DEF Pursuit
  <2> QED
    BY <2>2, <2>3
<1> QED
  BY <1>1, <1>2, <1>3, <1>4, <1>5, Quiet DEF ControlInv, ControlTypeOK

LEMMA EnlistStep ==
  ASSUME ControlInv, NEW w \in Worker, Enlist(w)
  PROVE  ControlInv'
<1>1. /\ at[w] = "enlist" /\ ThreadFits(w) /\ Proceed(w, "compile")
      /\ active' = active \cup {cmd[w]}
      /\ UNCHANGED <<document, streams, claim, calls, order, cmd, mine>>
  BY DEF Enlist, ControlInv, held
<1>2. cmd[w] \in Attempt
  BY <1>1 DEF ThreadFits
<1>3. /\ at' \in [Worker -> Place] /\ mine' \in [Worker -> Prompt \cup {None}]
      /\ cmd' \in [Worker -> Submission \cup Selection \cup Attempt \cup {None}]
      /\ Only(w) /\ at'[w] = "compile"
  BY <1>1 DEF ControlInv, ControlTypeOK, Proceed, Only, Place
<1>4. ThreadFits(w)'
  BY <1>1, <1>2, <1>3, ControlAssumption DEF ThreadFits, Proposal
<1>5. \A d \in Attempt : Pursuit(d)'
  BY <1>1, <1>3, PursuitsStand DEF Pursues
<1>6. active' \subseteq Attempt
  BY <1>1, <1>2 DEF ControlInv, ControlTypeOK
<1> QED
  BY <1>1, <1>3, <1>4, <1>5, <1>6, Quiet DEF ControlInv, ControlTypeOK

LEMMA CompleteStep ==
  ASSUME ControlInv, NEW w \in Worker, Complete(w)
  PROVE  ControlInv'
<1>1. /\ Return(w)
      /\ claim' = [claim EXCEPT ![cmd[w]] = "completed"] /\ active' = active \ {cmd[w]}
      /\ UNCHANGED <<document, streams, calls, order>>
  BY DEF Complete
<1>2. /\ at' \in [Worker -> Place] /\ mine' \in [Worker -> Prompt \cup {None}]
      /\ cmd' \in [Worker -> Submission \cup Selection \cup Attempt \cup {None}]
      /\ Only(w) /\ ThreadFits(w)' /\ \A d : ~Pursues(w, d)'
  BY <1>1, Returned
<1>3. /\ claim' \in [Attempt -> {"none", "in_progress", "completed"}]
      /\ \A d \in Attempt : claim'[d] = "none" => claim[d] = "none"
      /\ active' \subseteq Attempt
  BY <1>1 DEF ControlInv, ControlTypeOK
<1>4. \A d \in Attempt : Pursuit(d)'
  BY <1>1, <1>2, <1>3, PursuitsStand
<1> QED
  BY <1>1, <1>2, <1>3, <1>4, Quiet DEF ControlInv, ControlTypeOK

LEMMA AbandonStep ==
  ASSUME ControlInv, NEW w \in Worker, Abandon(w)
  PROVE  ControlInv'
<1>1. Return(w) /\ UNCHANGED <<document, streams, claim, calls, order>>
  BY DEF Abandon
<1>2. /\ at' \in [Worker -> Place] /\ mine' \in [Worker -> Prompt \cup {None}]
      /\ cmd' \in [Worker -> Submission \cup Selection \cup Attempt \cup {None}]
      /\ Only(w) /\ ThreadFits(w)' /\ \A d : ~Pursues(w, d)'
  BY <1>1, Returned
<1>3. active' \subseteq Attempt
  BY DEF Abandon, ControlInv, ControlTypeOK
<1>4. \A d \in Attempt : Pursuit(d)'
  BY <1>1, <1>2, PursuitsStand
<1> QED
  BY <1>1, <1>2, <1>3, <1>4, Quiet DEF ControlInv, ControlTypeOK

(* The document of the file has the revision of an order only if it is the *)
(* document in memory, and so the one of the order.                        *)
LEMMA RestartStep ==
  ASSUME ControlInv, Restart
  PROVE  ControlInv'
<1>1. /\ at' = [w \in Worker |-> "idle"] /\ cmd' = [w \in Worker |-> None]
      /\ mine' = [w \in Worker |-> None] /\ active' = {} /\ control' = saved
      /\ UNCHANGED <<saved, proposal, approval, claim, calls, order>>
  BY DEF Restart, streams
<1>2. ControlTypeOK'
  BY <1>1 DEF ControlInv, ControlTypeOK, Place
<1>3. OneDocument'
  BY <1>1, ControlAssumption DEF ControlInv, ControlTypeOK, OneDocument, Document
<1>4. AllAgree' /\ RecordsFit'
  BY <1>1 DEF ControlInv, AllAgree, Agrees, RecordsFit, Ordered
<1>5. (\A w \in Worker : ThreadFits(w)') /\ \A d \in Attempt : Pursuit(d)'
  BY <1>1 DEF ControlInv, ThreadFits, Pursuit, Pursues
<1> QED
  BY <1>2, <1>3, <1>4, <1>5 DEF ControlInv
-----------------------------------------------------------------------------
LEMMA NextControlInv == ControlInv /\ [ControlNext]_controlVars => ControlInv'
<1> SUFFICES ASSUME ControlInv, [ControlNext]_controlVars PROVE ControlInv'
  OBVIOUS
<1>1. CASE NewChat \/ SetConfiguration
  BY <1>1, DocumentStep
<1>2. CASE Restart
  BY <1>2, RestartStep
<1>3. ASSUME NEW w \in Worker, Thread(w) PROVE ControlInv'
  BY <1>3, SendStep, RequireStep, CompileStep, CommitStep, BindProposalStep, RequestStep,
     RecordStep, BindApprovalStep, EditStep, CommitEditStep, AdmitStep, EnlistStep,
     CompleteStep, AbandonStep DEF Thread
<1>4. CASE UNCHANGED controlVars
  <2>1. UNCHANGED <<control, saved, proposal, approval, claim, active, calls, order, at,
                    cmd, mine>>
    BY <1>4 DEF controlVars, document, streams, attempts, held
  <2>2. ControlTypeOK' /\ OneDocument' /\ AllAgree' /\ RecordsFit'
    BY <2>1 DEF ControlInv, ControlTypeOK, OneDocument, AllAgree, Agrees, RecordsFit, Ordered
  <2>3. (\A w \in Worker : ThreadFits(w)') /\ \A d \in Attempt : Pursuit(d)'
    BY <2>1 DEF ControlInv, ThreadFits, Ordered, Pursuit, Pursues
  <2> QED
    BY <2>2, <2>3 DEF ControlInv
<1> QED
  BY <1>1, <1>2, <1>3, <1>4 DEF ControlNext

LEMMA AlwaysControlInv == ControlSpec => []ControlInv
  BY InitControlInv, NextControlInv, PTL DEF ControlSpec

(* The proposal and the approval a surface shows are of the configuration  *)
(* in force and of each other (operator_control.py with the commands of    *)
(* m1_command_service.py), for any number of threads and commands, and of  *)
(* writes that raise, restarts and edits.                                  *)
THEOREM SurfaceShowsWhatBelongs == ControlSpec => []CursorsAgree
<1>1. ControlInv => CursorsAgree
  BY DEF ControlInv, AllAgree, Agrees, CursorsAgree
<1> QED
  BY <1>1, AlwaysControlInv, PTL

(* A revision of the control document names one document, whatever became  *)
(* of the writes of _persist: require_current may compare revisions.       *)
THEOREM RevisionsNameDocuments == ControlSpec => []RevisionNames
<1>1. ControlInv => RevisionNames
  BY DEF ControlInv, ControlTypeOK, OneDocument, RevisionNames
<1> QED
  BY <1>1, AlwaysControlInv, PTL

(* durable_pi_compile calls the compiler at most once for an attempt,      *)
(* across restarts, and never for one pi_attempt_status does not find.     *)
THEOREM AttemptCompiledOnce == ControlSpec => []AttemptedOnce
<1>1. ControlInv => AttemptedOnce
  <2> SUFFICES ASSUME ControlInv, NEW d \in Attempt
               PROVE  calls[d] <= 1 /\ (Status(d) = "not_found" => calls[d] = 0)
    BY DEF AttemptedOnce
  <2>1. Pursuit(d)
    BY DEF ControlInv
  <2>2. Status(d) = "not_found" => claim[d] = "none"
    BY DEF Status
  <2> QED
    BY <2>1, <2>2 DEF Pursuit
<1> QED
  BY <1>1, AlwaysControlInv, PTL
=============================================================================
