-------------------------- MODULE EventStore_proofs --------------------------
(***************************************************************************)
(* Proofs about EventStore, for any sets of clients, streams, commands and *)
(* keys and any number of crashes and subscriber exceptions.               *)
(***************************************************************************)
EXTENDS EventStore, SequenceTheorems, TLAPS

(* The streams of a command are streams. *)
LEMMA TouchesType ==
  ASSUME NEW c \in Cmd
  PROVE  /\ StreamsOf[c] \in Seq(Stream)
         /\ Touches[c] = Elems(StreamsOf[c])
         /\ Touches[c] \subseteq Stream
<1>1. StreamsOf[c] \in Seq(Stream)
  BY StreamsAssumption
<1>2. Touches[c] = Elems(StreamsOf[c])
  BY DEF Touches
<1> QED
  BY <1>1, <1>2, LenProperties DEF Elems

(* The events one transaction appends to the ledger keep it a ledger, and  *)
(* leave what was there where it was.                                      *)
LEMMA LedgerGrows ==
  ASSUME NEW led \in Seq(Event), NEW c \in Cmd, NEW streams \in Seq(Stream),
         NEW ver \in [Stream -> Nat]
  PROVE  /\ led \o NewEvents(c, streams, ver) \in Seq(Event)
         /\ Len(led \o NewEvents(c, streams, ver)) = Len(led) + Len(streams)
         /\ \A i \in 1..Len(led) : (led \o NewEvents(c, streams, ver))[i] = led[i]
         /\ \A i \in 1..Len(streams) :
              (led \o NewEvents(c, streams, ver))[Len(led) + i] =
                [cmd |-> c, stream |-> streams[i], version |-> ver[streams[i]] + 1]
<1> DEFINE f == NewEvents(c, streams, ver)
<1>1. /\ DOMAIN streams = 1..Len(streams)
      /\ Len(streams) \in Nat
      /\ \A i \in 1..Len(streams) : streams[i] \in Stream
  BY LenProperties
<1>2. \A i \in 1..Len(streams) : f[i] \in Event
  BY <1>1 DEF Event, NewEvents
<1>3. f \in Seq(Event) /\ Len(f) = Len(streams)
  BY <1>1, <1>2 DEF NewEvents
<1>4. /\ led \o f \in Seq(Event)
      /\ Len(led \o f) = Len(led) + Len(f)
      /\ \A i \in 1..Len(led) + Len(f) :
           (led \o f)[i] = IF i <= Len(led) THEN led[i] ELSE f[i - Len(led)]
  BY <1>3, ConcatProperties
<1>5. Len(led) \in Nat
  BY LenProperties
<1>6. \A i \in 1..Len(led) : (led \o f)[i] = led[i]
  BY <1>1, <1>3, <1>4, <1>5
<1>7. \A i \in 1..Len(streams) : (led \o f)[Len(led) + i] = f[i]
  BY <1>1, <1>3, <1>4, <1>5
<1>8. \A i \in 1..Len(streams) : f[i] =
        [cmd |-> c, stream |-> streams[i], version |-> ver[streams[i]] + 1]
  BY <1>1 DEF NewEvents
<1> QED
  BY <1>3, <1>4, <1>6, <1>7, <1>8
-----------------------------------------------------------------------------
(* The empty ledger is well typed. *)
LEMMA InitTypeOK == Init => TypeOK
  BY StreamsAssumption DEF Init, NothingSeen, NoReply, TypeOK, PC, ReplyKind

(* The transaction that writes keeps the tables well typed. *)
LEMMA WriteTypeOK ==
  ASSUME TypeOK, NEW p \in Proc, pc[p] # "idle", WriteAppends(p)
  PROVE  /\ version' \in [Stream -> Nat]
         /\ state' \in [Stream -> Seq(Cmd)]
         /\ ledger' \in Seq(Event)
         /\ Len(ledger') = Len(ledger) + Len(appends[p])
         /\ Len(ledger) \in Nat /\ Len(appends[p]) \in Nat
         /\ receipt' \in [Key -> Receipt \cup {None}]
         /\ pending' \subseteq 1..Len(ledger')
<1>1. /\ cur[p] \in Cmd
      /\ appends[p] \in Seq(Stream)
      /\ ledger \in Seq(Event)
      /\ version \in [Stream -> Nat]
      /\ KeyOf[cur[p]] \in Key
      /\ FpOf[cur[p]] \in Fingerprint
  BY StreamsAssumption DEF TypeOK
<1>2. /\ ledger' \in Seq(Event)
      /\ Len(ledger') = Len(ledger) + Len(appends[p])
  <2>1. ledger' = ledger \o NewEvents(cur[p], appends[p], version)
    BY DEF WriteAppends
  <2> QED
    BY <1>1, <2>1, LedgerGrows
<1>3. version' \in [Stream -> Nat]
  BY <1>1 DEF WriteAppends
<1>4. state' \in [Stream -> Seq(Cmd)]
  BY <1>1 DEF WriteAppends, TypeOK
<1>5. receipt' \in [Key -> Receipt \cup {None}]
  BY <1>1 DEF WriteAppends, TypeOK, Receipt, ReceiptStatus
<1>6. Len(ledger) \in Nat /\ Len(appends[p]) \in Nat
  BY <1>1, LenProperties
<1>7. pending' \subseteq 1..Len(ledger')
  <2>1. pending \subseteq 1..Len(ledger)
    BY DEF TypeOK
  <2>2. pending' = pending \cup (Len(ledger) + 1 .. Len(ledger) + Len(appends[p]))
    BY DEF WriteAppends, NewRows
  <2>3. ASSUME NEW n \in pending' PROVE n \in 1..Len(ledger) + Len(appends[p])
    BY <1>6, <2>1, <2>2
  <2> QED
    BY <1>2, <2>3
<1> QED
  BY <1>2, <1>3, <1>4, <1>5, <1>6, <1>7

(* The transaction leaves everything well typed whichever way it ends:       *)
(* replayed, rolled back or committed.                                      *)
LEMMA CommitTypeOK ==
  ASSUME TypeOK, NEW p \in Proc, pc[p] # "idle", Commit(p)
  PROVE  TypeOK'
<1>1. WriteAppends(p)
  BY DEF Commit
<1>2. /\ version' \in [Stream -> Nat]
      /\ state' \in [Stream -> Seq(Cmd)]
      /\ ledger' \in Seq(Event)
      /\ Len(ledger') = Len(ledger) + Len(appends[p])
      /\ Len(ledger) \in Nat /\ Len(appends[p]) \in Nat
      /\ receipt' \in [Key -> Receipt \cup {None}]
      /\ pending' \subseteq 1..Len(ledger')
  BY <1>1, WriteTypeOK
<1>3. 1..Len(ledger) \subseteq 1..Len(ledger')
  BY <1>2
<1>4. /\ delivered' \subseteq 1..Len(ledger')
      /\ queue' \in [Proc -> SUBSET (1..Len(ledger'))]
  <2>1. /\ delivered \subseteq 1..Len(ledger)
        /\ queue \in [Proc -> SUBSET (1..Len(ledger))]
        /\ delivered' = delivered /\ queue' = queue
    BY DEF Commit, TypeOK, worldVars
  <2> QED BY <1>3, <2>1
<1>5. effects' \in [Key -> Nat] /\ answered' \in [Proc -> BOOLEAN]
      /\ cur' \in [Proc -> Cmd \cup {None}] /\ crashes' \in Nat /\ raises' \in Nat
  BY DEF Commit, TypeOK, worldVars
<1>6. pc' \in [Proc -> PC] /\ \A q \in Proc : pc'[q] # "idle" => cur'[q] \in Cmd
  BY DEF Commit, Goto, TypeOK, PC
<1>7. /\ seenVersion' \in [Proc -> [Stream -> Nat]]
      /\ seenState' \in [Proc -> [Stream -> Seq(Cmd)]]
      /\ verRead' \in [Proc -> SUBSET Stream]
      /\ stRead' \in [Proc -> SUBSET Stream]
      /\ appends' \in [Proc -> Seq(Stream)]
  BY DEF Commit, Answer, Forget, TypeOK
<1>8. reply' \in [Proc -> [kind : ReplyKind, cmd : Cmd \cup {None}]]
  BY DEF Commit, Answer, TypeOK, ReplyKind
<1> QED
  BY <1>2, <1>4, <1>5, <1>6, <1>7, <1>8 DEF TypeOK

(* A client that replays a receipt changes nothing but its own state. *)
LEMMA ReplayedTypeOK ==
  ASSUME TypeOK, NEW p \in Proc, pc[p] # "idle", Replayed(p)
  PROVE  TypeOK'
<1>1. cur[p] \in Cmd /\ KeyOf[cur[p]] \in Key /\ Prior(p) \in Receipt
  BY StreamsAssumption DEF TypeOK, Replayed, Prior
<1>2. CASE Goto(p, "outbox") /\ Answer(p, "idempotent", Prior(p).cmd)
  BY <1>1, <1>2 DEF TypeOK, Replayed, Goto, Answer, Forget, Receipt, PC, ReplyKind, storeVars, worldVars
<1>3. CASE Return(p, "key_conflict", None)
  BY <1>1, <1>3 DEF TypeOK, Replayed, Return, Goto, Answer, Forget, PC, ReplyKind, storeVars, worldVars
<1> QED
  BY <1>2, <1>3 DEF Replayed

(* Every step of the write path keeps every variable well typed and every  *)
(* outbox row on a ledger row.                                             *)
LEMMA NextTypeOK == TypeOK /\ [Next]_vars => TypeOK'
<1> SUFFICES ASSUME TypeOK, [Next]_vars PROVE TypeOK'
  OBVIOUS
<1> USE DEF Goto, Answer, Return, Forget, PC, ReplyKind
<1>1. ASSUME NEW p \in Proc, NEW c \in Cmd, Start(p, c) PROVE TypeOK'
  BY <1>1 DEF TypeOK, Start, NoReply, storeVars, worldVars, readVars
<1>2. ASSUME NEW p \in Proc, Precheck(p) PROVE TypeOK'
  BY <1>2 DEF TypeOK, Precheck, storeVars, worldVars, readVars
<1>3. ASSUME NEW p \in Proc, NEW s \in Stream, ReadVersion(p, s) PROVE TypeOK'
  BY <1>3 DEF TypeOK, ReadVersion, storeVars, worldVars
<1>4. ASSUME NEW p \in Proc, NEW s \in Stream, ReadState(p, s) PROVE TypeOK'
  BY <1>4 DEF TypeOK, ReadState, storeVars, worldVars
<1>5. ASSUME NEW p \in Proc, Decide(p) PROVE TypeOK'
  BY <1>5, StreamsAssumption DEF TypeOK, Decide, storeVars, worldVars, readVars
<1>6. ASSUME NEW p \in Proc, Refuse(p) PROVE TypeOK'
  BY <1>6 DEF TypeOK, Refuse, storeVars, worldVars
<1>7. ASSUME NEW p \in Proc, CheckIdempotency(p) PROVE TypeOK'
  <2>1. CASE Replayed(p)
    BY <1>7, <2>1, ReplayedTypeOK DEF CheckIdempotency
  <2>2. CASE ~Replayed(p)
    BY <1>7, <2>2 DEF TypeOK, CheckIdempotency, storeVars, worldVars, readVars
  <2> QED BY <2>1, <2>2
<1>8. ASSUME NEW p \in Proc, Transact(p) PROVE TypeOK'
  <2>1. CASE Replayed(p)
    BY <1>8, <2>1, ReplayedTypeOK DEF Transact
  <2>2. CASE Rollback(p)
    BY <1>8, <2>2 DEF TypeOK, Transact, Rollback, storeVars, worldVars
  <2>3. CASE Commit(p)
    BY <1>8, <2>3, CommitTypeOK DEF Transact
  <2> QED BY <1>8, <2>1, <2>2, <2>3 DEF Transact
<1>9. ASSUME NEW p \in Proc, BeginDispatch(p) PROVE TypeOK'
  BY <1>9 DEF TypeOK, BeginDispatch, storeVars, worldVars, readVars
<1>10. ASSUME NEW p \in Proc, Deliver(p) PROVE TypeOK'
  BY <1>10 DEF TypeOK, Deliver, storeVars, readVars
<1>11. ASSUME NEW p \in Proc, MarkDispatched(p) PROVE TypeOK'
  BY <1>11 DEF TypeOK, MarkDispatched, Dispatched, worldVars, readVars
<1>12. ASSUME NEW p \in Proc, Claim(p) PROVE TypeOK'
  <2>1. cur[p] \in Cmd /\ KeyOf[cur[p]] \in Key /\ FpOf[cur[p]] \in Fingerprint
    BY <1>12, StreamsAssumption DEF TypeOK, Claim
  <2>2. CASE ClaimNew(p)
    <3>1. receipt' \in [Key -> Receipt \cup {None}]
      BY <2>1, <2>2 DEF TypeOK, ClaimNew, Receipt, ReceiptStatus
    <3> QED
      BY <1>12, <2>1, <2>2, <3>1 DEF TypeOK, Claim, ClaimNew, worldVars, readVars
  <2>3. CASE ClaimKnown(p)
    <3>1. Prior(p).cmd \in Cmd
      BY <2>1, <2>3 DEF TypeOK, Prior, Receipt, ClaimKnown
    <3>2. PICK k \in ReplyKind, c \in Cmd \cup {None} : Return(p, k, c)
      BY <2>3, <3>1 DEF ClaimKnown
    <3>3. receipt' = receipt
      BY <2>3 DEF ClaimKnown
    <3> QED
      BY <1>12, <3>2, <3>3 DEF TypeOK, Claim, worldVars
  <2> QED
    BY <1>12, <2>2, <2>3 DEF Claim
<1>13. ASSUME NEW p \in Proc, Mutate(p) PROVE TypeOK'
  BY <1>13, StreamsAssumption DEF TypeOK, Mutate, storeVars, readVars
<1>14. ASSUME NEW p \in Proc, CompleteClaimed(p) PROVE TypeOK'
  <2>1. cur[p] \in Cmd /\ KeyOf[cur[p]] \in Key /\ Prior(p) \in Receipt
    BY <1>14, StreamsAssumption DEF TypeOK, CompleteClaimed, Prior
  <2>2. receipt' \in [Key -> Receipt \cup {None}]
    <3>1. ASSUME NEW o \in {"completed", "failed"}
          PROVE  [Prior(p) EXCEPT !.status = o] \in Receipt
      BY <2>1 DEF Receipt, ReceiptStatus
    <3>2. PICK o \in {"completed", "failed"} :
            receipt' = [receipt EXCEPT ![KeyOf[cur[p]]] = [Prior(p) EXCEPT !.status = o]]
      BY <1>14 DEF CompleteClaimed, Prior
    <3> QED
      BY <2>1, <3>1, <3>2 DEF TypeOK
  <2> QED
    BY <1>14, <2>1, <2>2 DEF TypeOK, CompleteClaimed, worldVars
<1>15. ASSUME NEW p \in Proc, SubscriberRaises(p) PROVE TypeOK'
  BY <1>15 DEF TypeOK, SubscriberRaises, storeVars, worldVars
<1>16. ASSUME NEW p \in Proc, Crash(p) PROVE TypeOK'
  BY <1>16 DEF TypeOK, Crash, storeVars, worldVars
<1>17. CASE UNCHANGED vars
  BY <1>17 DEF TypeOK, vars, storeVars, worldVars, clientVars, readVars
<1> QED
  BY <1>1, <1>2, <1>3, <1>4, <1>5, <1>6, <1>7, <1>8, <1>9, <1>10, <1>11, <1>12,
     <1>13, <1>14, <1>15, <1>16, <1>17 DEF Next, Step

(* Type correctness of the write path: in particular dispatch never meets  *)
(* an outbox row without a ledger row, in any interleaving.                *)
THEOREM TypeCorrect == Spec => []TypeOK
  BY InitTypeOK, NextTypeOK, PTL DEF Spec
-----------------------------------------------------------------------------
(* A step that only moves client p, not into a claimed section and not to  *)
(* the marking of a delivered event.                                       *)
ClientOnly(p) ==
  /\ UNCHANGED <<version, state, ledger, pending, receipt, effects, delivered>>
  /\ \E l \in PC \ {"effect", "complete", "mark"} : pc' = [pc EXCEPT ![p] = l]
  /\ \A q \in Proc \ {p} : cur'[q] = cur[q] /\ queue'[q] = queue[q]
  /\ queue'[p] \in {queue[p], pending, {}}

(* Answering from a receipt is a step of one client that leaves the tables. *)
LEMMA ReplayedClientOnly ==
  ASSUME TypeOK, NEW p \in Proc, Replayed(p)
  PROVE  ClientOnly(p)
  BY DEF TypeOK, Replayed, Goto, Return, ClientOnly, PC, storeVars, worldVars

(* Every step is a step of one client: a client-only step, or one of the   *)
(* few that change the tables or the world.                                *)
LEMMA StepKinds ==
  ASSUME TypeOK, Next
  PROVE  \E p \in Proc :
           \/ ClientOnly(p)
           \/ pc[p] = "txn" /\ Commit(p)
           \/ Deliver(p)
           \/ MarkDispatched(p)
           \/ Claim(p) /\ ClaimNew(p)
           \/ Mutate(p)
           \/ CompleteClaimed(p)
<1>1. PICK p \in Proc :
        \/ \E c \in Cmd : Start(p, c)
        \/ Step(p)
        \/ SubscriberRaises(p)
        \/ Crash(p)
  BY DEF Next
<1> USE DEF Goto, Return, ClientOnly, PC, TypeOK
<1>2. ASSUME NEW c \in Cmd, Start(p, c) PROVE ClientOnly(p)
  BY <1>2 DEF Start, storeVars, worldVars
<1>3. ASSUME Precheck(p) PROVE ClientOnly(p)
  BY <1>3 DEF Precheck, storeVars, worldVars
<1>4. ASSUME NEW s \in Stream, ReadVersion(p, s) \/ ReadState(p, s) PROVE ClientOnly(p)
  BY <1>4 DEF ReadVersion, ReadState, storeVars, worldVars
<1>5. ASSUME Decide(p) PROVE ClientOnly(p)
  BY <1>5 DEF Decide, storeVars, worldVars
<1>6. ASSUME Refuse(p) PROVE ClientOnly(p)
  BY <1>6 DEF Refuse, storeVars, worldVars
<1>7. ASSUME CheckIdempotency(p) PROVE ClientOnly(p)
  BY <1>7, ReplayedClientOnly DEF CheckIdempotency, storeVars, worldVars
<1>8. ASSUME Transact(p), ~Commit(p) PROVE ClientOnly(p)
  BY <1>8, ReplayedClientOnly DEF Transact, Rollback, storeVars, worldVars
<1>9. ASSUME BeginDispatch(p) PROVE ClientOnly(p)
  BY <1>9 DEF BeginDispatch, storeVars, worldVars
<1>10. ASSUME Claim(p), ~ClaimNew(p) PROVE ClientOnly(p)
  BY <1>10 DEF Claim, ClaimKnown, worldVars
<1>11. ASSUME SubscriberRaises(p) PROVE ClientOnly(p)
  BY <1>11 DEF SubscriberRaises, storeVars, worldVars
<1>12. ASSUME Crash(p) PROVE ClientOnly(p)
  BY <1>12 DEF Crash, storeVars, worldVars
<1> HIDE DEF Goto, Return, ClientOnly, PC, TypeOK
<1> QED
  BY <1>1, <1>2, <1>3, <1>4, <1>5, <1>6, <1>7, <1>8, <1>9, <1>10, <1>11, <1>12
     DEF Step, Transact
-----------------------------------------------------------------------------
ClaimInv == ClaimExclusive /\ EffectAtMostOnce

(* No key is claimed and no effect made in an empty ledger. *)
LEMMA InitClaimInv == Init => ClaimInv
  BY DEF Init, ClaimInv, ClaimExclusive, EffectAtMostOnce

(* Claims stay exclusive and effects single under every step. *)
LEMMA NextClaimInv == TypeOK /\ ClaimInv /\ [Next]_vars => ClaimInv'
<1> SUFFICES ASSUME TypeOK, ClaimInv, [Next]_vars PROVE ClaimInv'
  OBVIOUS
<1> USE DEF ClaimInv, ClaimExclusive, EffectAtMostOnce, Prior
<1>1. CASE UNCHANGED vars
  BY <1>1 DEF vars, storeVars, worldVars, clientVars
<1>2. ASSUME NEW p \in Proc, ClientOnly(p) PROVE ClaimInv'
  BY <1>2 DEF ClientOnly, TypeOK
<1>3. ASSUME NEW p \in Proc, pc[p] = "txn", Commit(p) PROVE ClaimInv'
  BY <1>3, StreamsAssumption DEF Commit, WriteAppends, Goto, TypeOK, Receipt, worldVars
<1>4. ASSUME NEW p \in Proc, Deliver(p) PROVE ClaimInv'
  BY <1>4 DEF Deliver, Goto, TypeOK, storeVars
<1>5. ASSUME NEW p \in Proc, MarkDispatched(p) PROVE ClaimInv'
  BY <1>5 DEF MarkDispatched, Goto, TypeOK, worldVars
<1>6. ASSUME NEW p \in Proc, Claim(p), ClaimNew(p) PROVE ClaimInv'
  <2>1. cur[p] \in Cmd /\ KeyOf[cur[p]] \in Key
    BY <1>6, StreamsAssumption DEF Claim, TypeOK
  <2>2. receipt[KeyOf[cur[p]]] = None /\ effects[KeyOf[cur[p]]] = 0
    BY <1>6, <2>1 DEF ClaimNew, Unclaimed
  <2>3. /\ effects' = effects /\ cur' = cur
        /\ pc' = [pc EXCEPT ![p] = "effect"]
        /\ \A k \in Key \ {KeyOf[cur[p]]} : receipt'[k] = receipt[k]
        /\ receipt'[KeyOf[cur[p]]] =
             [cmd |-> cur[p], fp |-> FpOf[cur[p]], status |-> "in_progress"]
    BY <1>6, <2>1 DEF Claim, ClaimNew, Goto, TypeOK, worldVars
  <2>4. \A q \in Proc : pc[q] \in {"effect", "complete"} =>
          cur[q] \in Cmd /\ KeyOf[cur[q]] \in Key /\ KeyOf[cur[q]] # KeyOf[cur[p]]
    BY <2>2, StreamsAssumption DEF TypeOK
  <2>5. \A q \in Proc \ {p} : pc'[q] = pc[q]
    BY <2>3 DEF TypeOK
  <2>6. [cmd |-> cur[p], fp |-> FpOf[cur[p]], status |-> "in_progress"] # None
    BY <2>1, StreamsAssumption DEF Receipt, ReceiptStatus
  <2>7. pc'[p] = "effect"
    BY <2>3 DEF TypeOK
  <2> QED
    BY <2>1, <2>2, <2>3, <2>4, <2>5, <2>6, <2>7
<1>7. ASSUME NEW p \in Proc, Mutate(p) PROVE ClaimInv'
  BY <1>7, StreamsAssumption DEF Mutate, Goto, TypeOK, storeVars
<1>8. ASSUME NEW p \in Proc, CompleteClaimed(p) PROVE ClaimInv'
  <2>1. /\ cur[p] \in Cmd /\ KeyOf[cur[p]] \in Key
        /\ receipt[KeyOf[cur[p]]] \in Receipt /\ pc[p] = "complete"
    BY <1>8, StreamsAssumption DEF CompleteClaimed, TypeOK
  <2>2. /\ effects' = effects /\ cur' = cur
        /\ pc' = [pc EXCEPT ![p] = "idle"]
        /\ \A k \in Key \ {KeyOf[cur[p]]} : receipt'[k] = receipt[k]
    BY <1>8, <2>1 DEF CompleteClaimed, Return, Goto, TypeOK, worldVars
  <2>3. /\ pc'[p] = "idle"
        /\ \A q \in Proc \ {p} : pc'[q] = pc[q]
    BY <2>2 DEF TypeOK
  <2>4. \A q \in Proc \ {p} : pc[q] \in {"effect", "complete"} =>
          cur[q] \in Cmd /\ KeyOf[cur[q]] \in Key /\ KeyOf[cur[q]] # KeyOf[cur[p]]
    BY <2>1, StreamsAssumption DEF TypeOK
  <2>5. receipt[KeyOf[cur[p]]] # None
    BY <2>1, StreamsAssumption
  <2>6. \A k \in Key : receipt'[k] = None => receipt[k] = None
    <3>1. receipt'[KeyOf[cur[p]]] # None
      <4>1. PICK o \in {"completed", "failed"} :
              receipt' = [receipt EXCEPT ![KeyOf[cur[p]]] =
                            [receipt[KeyOf[cur[p]]] EXCEPT !.status = o]]
        BY <1>8 DEF CompleteClaimed
      <4>2. [receipt[KeyOf[cur[p]]] EXCEPT !.status = o] \in Receipt
        BY <2>1 DEF Receipt, ReceiptStatus
      <4> QED
        BY <2>1, <4>1, <4>2, StreamsAssumption DEF TypeOK
    <3> QED
      BY <2>2, <3>1
  <2> QED
    BY <2>1, <2>2, <2>3, <2>4, <2>6
<1> QED
  BY <1>1, <1>2, <1>3, <1>4, <1>5, <1>6, <1>7, <1>8, StepKinds

(* The external mutation of a claimed command happens at most once per key, *)
(* for any number of duplicates, clients and crashes.                       *)
THEOREM EffectsAtMostOnce == Spec => []EffectAtMostOnce
<1>1. ClaimInv => EffectAtMostOnce
  BY DEF ClaimInv
<1> QED
  BY <1>1, InitClaimInv, NextClaimInv, TypeCorrect, PTL DEF Spec
-----------------------------------------------------------------------------
DispatchInv == LoopDelivered /\ AtLeastOnce /\ DeliveredInOrder

(* Nothing is pending and nothing delivered in an empty ledger. *)
LEMMA InitDispatchInv == Init => DispatchInv
  BY DEF Init, DispatchInv, LoopDelivered, AtLeastOnce, DeliveredInOrder

(* Delivery stays at least once and in order under every step. *)
LEMMA NextDispatchInv == TypeOK /\ DispatchInv /\ [Next]_vars => DispatchInv'
<1> SUFFICES ASSUME TypeOK, DispatchInv, [Next]_vars PROVE DispatchInv'
  OBVIOUS
<1> USE DEF DispatchInv, LoopDelivered, AtLeastOnce, DeliveredInOrder, NextInQueue
<1>1. CASE UNCHANGED vars
  BY <1>1 DEF vars, storeVars, worldVars, clientVars
<1>2. ASSUME NEW p \in Proc, ClientOnly(p) PROVE DispatchInv'
  <2>1. /\ ledger' = ledger /\ pending' = pending /\ delivered' = delivered
        /\ \A q \in Proc \ {p} : pc'[q] = pc[q] /\ queue'[q] = queue[q]
        /\ pc'[p] # "mark"
        /\ queue'[p] \in {queue[p], pending, {}}
    BY <1>2 DEF ClientOnly, TypeOK
  <2>2. ASSUME NEW n \in pending, NEW m \in 1..n, m \notin pending
        PROVE  m \in delivered
    <3>1. n \in 1..Len(ledger) /\ Len(ledger) \in Nat
      BY LenProperties DEF TypeOK
    <3> QED
      BY <2>2, <3>1
  <2>3. ASSUME NEW n \in queue'[p], NEW m \in 1..n, m \notin queue'[p]
        PROVE  m \in delivered
    BY <2>1, <2>2, <2>3
  <2>4. LoopDelivered'
    BY <2>1, <2>3
  <2> QED
    BY <2>1, <2>4
<1>3. ASSUME NEW p \in Proc, pc[p] = "txn", Commit(p) PROVE DispatchInv'
  <2>1. /\ queue' = queue /\ delivered' = delivered
        /\ pc' = [pc EXCEPT ![p] = "outbox"]
        /\ pending' = pending \cup (Len(ledger) + 1 .. Len(ledger) + Len(appends[p]))
    BY <1>3 DEF Commit, WriteAppends, NewRows, Goto, worldVars
  <2>2. /\ Len(ledger') = Len(ledger) + Len(appends[p])
        /\ Len(ledger) \in Nat /\ Len(appends[p]) \in Nat
    BY <1>3, WriteTypeOK DEF Commit
  <2>3. LoopDelivered'
    BY <2>1 DEF TypeOK
  <2>4. ASSUME NEW n \in 1..Len(ledger'), n \notin pending'
        PROVE  n \in (1..Len(ledger)) \ pending
    BY <2>1, <2>2, <2>4
  <2> QED
    BY <2>1, <2>3, <2>4
<1>4. ASSUME NEW p \in Proc, Deliver(p) PROVE DispatchInv'
  BY <1>4 DEF Deliver, Goto, TypeOK, storeVars
<1>5. ASSUME NEW p \in Proc, MarkDispatched(p) PROVE DispatchInv'
  BY <1>5 DEF MarkDispatched, Dispatched, Goto, TypeOK, worldVars
<1>6. ASSUME NEW p \in Proc, Claim(p), ClaimNew(p) PROVE DispatchInv'
  BY <1>6 DEF Claim, ClaimNew, Goto, TypeOK, worldVars
<1>7. ASSUME NEW p \in Proc, Mutate(p) PROVE DispatchInv'
  BY <1>7 DEF Mutate, Goto, TypeOK, storeVars
<1>8. ASSUME NEW p \in Proc, CompleteClaimed(p) PROVE DispatchInv'
  BY <1>8 DEF CompleteClaimed, Return, Goto, TypeOK, worldVars
<1> QED
  BY <1>1, <1>2, <1>3, <1>4, <1>5, <1>6, <1>7, <1>8, StepKinds

(* No event leaves the outbox undelivered, and subscribers first see the   *)
(* events in ledger order, for any number of concurrent dispatch loops,    *)
(* exceptions and crashes.                                                 *)
THEOREM DeliveredAtLeastOnce == Spec => []AtLeastOnce
<1>1. DispatchInv => AtLeastOnce
  BY DEF DispatchInv
<1> QED
  BY <1>1, InitDispatchInv, NextDispatchInv, TypeCorrect, PTL DEF Spec

(* The same invariant gives the order of first deliveries. *)
THEOREM FirstDeliveryOrder == Spec => []DeliveredInOrder
<1>1. DispatchInv => DeliveredInOrder
  BY DEF DispatchInv
<1> QED
  BY <1>1, InitDispatchInv, NextDispatchInv, TypeCorrect, PTL DEF Spec
-----------------------------------------------------------------------------
ReadInv == ReadsConsistent /\ PlanComplete

(* An idle client has read nothing and plans nothing. *)
LEMMA InitReadInv == Init => ReadInv
  BY DEF Init, NothingSeen, ReadInv, ReadsConsistent, PlanComplete

(* A receipt, once written, is never removed. *)
LEMMA ReceiptsStay ==
  ASSUME TypeOK, ClaimInv, Next
  PROVE  \A k \in Key : receipt[k] # None => receipt'[k] # None
<1>1. PICK p \in Proc :
           \/ ClientOnly(p)
           \/ pc[p] = "txn" /\ Commit(p)
           \/ Deliver(p)
           \/ MarkDispatched(p)
           \/ Claim(p) /\ ClaimNew(p)
           \/ Mutate(p)
           \/ CompleteClaimed(p)
  BY StepKinds
<1>2. CASE ClientOnly(p) \/ Deliver(p) \/ MarkDispatched(p) \/ Mutate(p)
  BY <1>2 DEF ClientOnly, Deliver, MarkDispatched, Mutate, storeVars
<1>3. CASE pc[p] = "txn" /\ Commit(p)
  <2>1. [cmd |-> cur[p], fp |-> FpOf[cur[p]], status |-> "applied"] # None
    BY <1>3, StreamsAssumption DEF TypeOK, Receipt, ReceiptStatus
  <2> QED
    BY <1>3, <2>1 DEF Commit, WriteAppends, TypeOK
<1>4. CASE Claim(p) /\ ClaimNew(p)
  <2>1. [cmd |-> cur[p], fp |-> FpOf[cur[p]], status |-> "in_progress"] # None
    BY <1>4, StreamsAssumption DEF TypeOK, Claim, Receipt, ReceiptStatus
  <2> QED
    BY <1>4, <2>1 DEF ClaimNew, TypeOK
<1>5. CASE CompleteClaimed(p)
  <2>1. cur[p] \in Cmd /\ KeyOf[cur[p]] \in Key /\ receipt[KeyOf[cur[p]]] \in Receipt
    BY <1>5, StreamsAssumption DEF CompleteClaimed, TypeOK, Prior
  <2>2. PICK o \in {"completed", "failed"} :
          receipt' = [receipt EXCEPT ![KeyOf[cur[p]]] =
                        [receipt[KeyOf[cur[p]]] EXCEPT !.status = o]]
    BY <1>5 DEF CompleteClaimed
  <2>3. [receipt[KeyOf[cur[p]]] EXCEPT !.status = o] \in Receipt
    BY <2>1 DEF Receipt, ReceiptStatus
  <2> QED
    BY <2>1, <2>2, <2>3, StreamsAssumption DEF TypeOK
<1> QED
  BY <1>1, <1>2, <1>3, <1>4, <1>5

(* What the other clients have read and planned, when p steps. *)
OthersKeep(p) ==
  \A q \in Proc \ {p} :
    /\ pc'[q] = pc[q] /\ cur'[q] = cur[q] /\ appends'[q] = appends[q]
    /\ seenVersion'[q] = seenVersion[q] /\ seenState'[q] = seenState[q]
    /\ verRead'[q] = verRead[q] /\ stRead'[q] = stRead[q]

(* p itself neither reads nor plans in the step. *)
NoPlan(p) ==
  /\ pc'[p] \notin {"check", "txn"}
  /\ appends'[p] = <<>>
  /\ \/ verRead'[p] = {} /\ stRead'[p] = {}
     \/ /\ seenVersion'[p] = seenVersion[p] /\ seenState'[p] = seenState[p]
        /\ verRead'[p] = verRead[p] /\ stRead'[p] = stRead[p]

(* The streams may only move on: a stream that changed has a new version. *)
StreamsMoveOn ==
  \A s \in Stream :
    \/ version'[s] = version[s] /\ state'[s] = state[s]
    \/ version'[s] > version[s]

(* A step of p that plans nothing keeps every client's reads consistent:    *)
(* where it moves a stream's state it moves the stream's version too.       *)
LEMMA ReadInvKept ==
  ASSUME TypeOK, TypeOK', ReadInv, NEW p \in Proc, OthersKeep(p), NoPlan(p), StreamsMoveOn,
         \A k \in Key : receipt[k] # None => receipt'[k] # None
  PROVE  ReadInv'
<1>1. ASSUME NEW q \in Proc
      PROVE  /\ stRead'[q] \subseteq verRead'[q]
             /\ \A s \in verRead'[q] : seenVersion'[q][s] <= version'[s]
             /\ \A s \in stRead'[q] :
                  seenVersion'[q][s] = version'[s] => seenState'[q][s] = state'[s]
  <2>1. CASE verRead'[q] = {} /\ stRead'[q] = {}
    BY <2>1
  <2>2. CASE /\ seenVersion'[q] = seenVersion[q] /\ seenState'[q] = seenState[q]
             /\ verRead'[q] = verRead[q] /\ stRead'[q] = stRead[q]
    <3>1. /\ stRead[q] \subseteq verRead[q] /\ verRead[q] \subseteq Stream
          /\ \A s \in verRead[q] : seenVersion[q][s] <= version[s]
          /\ \A s \in stRead[q] :
               seenVersion[q][s] = version[s] => seenState[q][s] = state[s]
      BY DEF ReadInv, ReadsConsistent, TypeOK
    <3>2. \A s \in Stream :
            version[s] \in Nat /\ version'[s] \in Nat /\ seenVersion[q][s] \in Nat
      BY DEF TypeOK
    <3> QED
      BY <2>2, <3>1, <3>2 DEF StreamsMoveOn
  <2> QED
    BY <2>1, <2>2 DEF OthersKeep, NoPlan
<1>2. ASSUME NEW q \in Proc
      PROVE  IF pc'[q] \in {"check", "txn"}
             THEN \/ /\ appends'[q] = StreamsOf[cur'[q]]
                     /\ AllRead(q)' /\ Accepted(q)'
                  \/ appends'[q] = <<>> /\ Prior(q)' # None
             ELSE appends'[q] = <<>>
  <2>1. CASE q = p
    BY <2>1 DEF NoPlan
  <2>2. CASE q # p
    <3>1. pc[q] \in {"check", "txn"} => cur[q] \in Cmd /\ KeyOf[cur[q]] \in Key
      BY StreamsAssumption DEF TypeOK
    <3> QED
      BY <2>2, <3>1 DEF ReadInv, PlanComplete, OthersKeep, AllRead, Accepted, Prior
  <2> QED BY <2>1, <2>2
<1> QED
  BY <1>1, <1>2 DEF ReadInv, ReadsConsistent, PlanComplete

(* The steps of p that end or pass over its reads and plans. *)
LEMMA PlainSteps ==
  ASSUME TypeOK, ReadInv, NEW p \in Proc,
         \/ \E c \in Cmd : Start(p, c)
         \/ Refuse(p)
         \/ (Replayed(p) /\ pc[p] # "idle")
         \/ Rollback(p)
         \/ BeginDispatch(p) \/ Deliver(p) \/ MarkDispatched(p)
         \/ Claim(p) \/ Mutate(p) \/ CompleteClaimed(p)
         \/ SubscriberRaises(p) \/ Crash(p)
  PROVE  OthersKeep(p) /\ NoPlan(p) /\ UNCHANGED <<version, state>>
<1> USE DEF OthersKeep, NoPlan, TypeOK, Goto, Answer, Return, Forget
<1>1. pc[p] \notin {"check", "txn"} => appends[p] = <<>>
  BY DEF ReadInv, PlanComplete
<1>2. ASSUME NEW c \in Cmd, Start(p, c)
      PROVE  OthersKeep(p) /\ NoPlan(p) /\ UNCHANGED <<version, state>>
  BY <1>1, <1>2 DEF Start, storeVars, readVars
<1>3. CASE Refuse(p) \/ Rollback(p) \/ SubscriberRaises(p) \/ Crash(p)
  BY <1>3 DEF Refuse, Rollback, SubscriberRaises, Crash, storeVars
<1>4. CASE Replayed(p)
  BY <1>4 DEF Replayed, storeVars
<1>5. CASE BeginDispatch(p)
  BY <1>1, <1>5 DEF BeginDispatch, storeVars, readVars
<1>6. CASE Deliver(p) \/ MarkDispatched(p) \/ Mutate(p)
  BY <1>1, <1>6 DEF Deliver, MarkDispatched, Mutate, storeVars, readVars
<1>7. CASE Claim(p)
  BY <1>1, <1>7 DEF Claim, ClaimNew, ClaimKnown, readVars
<1>8. CASE CompleteClaimed(p)
  BY <1>8 DEF CompleteClaimed
<1> QED
  BY <1>2, <1>3, <1>4, <1>5, <1>6, <1>7, <1>8

(* The transaction that writes moves its streams on and forgets the plan. *)
LEMMA CommitStep ==
  ASSUME TypeOK, NEW p \in Proc, Commit(p)
  PROVE  OthersKeep(p) /\ NoPlan(p) /\ StreamsMoveOn
<1>1. OthersKeep(p) /\ NoPlan(p)
  BY DEF Commit, OthersKeep, NoPlan, TypeOK, Goto, Answer, Forget
<1>2. StreamsMoveOn
  BY DEF Commit, WriteAppends, StreamsMoveOn, TypeOK
<1> QED
  BY <1>1, <1>2

(* When services read the version before the state, a read whose version is *)
(* still current is a read of the current state.                           *)
LEMMA NextReadInv ==
  ASSUME StateFirst = {}
  PROVE  TypeOK /\ ClaimInv /\ ReadInv /\ [Next]_vars => ReadInv'
<1> SUFFICES ASSUME TypeOK, ClaimInv, ReadInv, [Next]_vars PROVE ReadInv'
  OBVIOUS
<1>1. CASE UNCHANGED vars
  BY <1>1 DEF vars, storeVars, clientVars, readVars, ReadInv, ReadsConsistent,
     PlanComplete, AllRead, Accepted, Prior
<1>2. CASE Next
  <2>1. TypeOK'
    BY <1>2, NextTypeOK
  <2>2. \A k \in Key : receipt[k] # None => receipt'[k] # None
    BY <1>2, ReceiptsStay
  <2>3. PICK p \in Proc :
          \/ \E c \in Cmd : Start(p, c)
          \/ Step(p) \/ SubscriberRaises(p) \/ Crash(p)
    BY <1>2 DEF Next
  <2>4. ASSUME OthersKeep(p), NoPlan(p), UNCHANGED <<version, state>>
        PROVE  ReadInv'
    BY <2>1, <2>2, <2>4, ReadInvKept DEF StreamsMoveOn
  <2>5. ASSUME Commit(p) PROVE ReadInv'
    BY <2>1, <2>2, <2>5, CommitStep, ReadInvKept
  <2>6. ASSUME Precheck(p) PROVE ReadInv'
    BY <2>6 DEF Precheck, Goto, TypeOK, ReadInv, ReadsConsistent, PlanComplete, AllRead,
       Accepted, Prior, storeVars, readVars
  <2>7. ASSUME NEW s \in Stream, ReadVersion(p, s) PROVE ReadInv'
    <3>1. ReadsConsistent'
      BY <2>7 DEF ReadVersion, TypeOK, ReadInv, ReadsConsistent, storeVars
    <3>2. PlanComplete'
      BY <2>7 DEF ReadVersion, TypeOK, ReadInv, PlanComplete, AllRead, Accepted, Prior,
         storeVars
    <3> QED BY <3>1, <3>2 DEF ReadInv
  <2>8. ASSUME NEW s \in Stream, ReadState(p, s) PROVE ReadInv'
    <3>1. ReadsConsistent'
      BY <2>8 DEF ReadState, TypeOK, ReadInv, ReadsConsistent, storeVars
    <3>2. PlanComplete'
      BY <2>8 DEF ReadState, TypeOK, ReadInv, PlanComplete, AllRead, Accepted, Prior,
         storeVars
    <3> QED BY <3>1, <3>2 DEF ReadInv
  <2>9. ASSUME Decide(p) PROVE ReadInv'
    <3>1. ReadsConsistent'
      BY <2>9 DEF Decide, TypeOK, ReadInv, ReadsConsistent, storeVars, readVars
    <3>2. PlanComplete'
      BY <2>9 DEF Decide, Goto, TypeOK, ReadInv, PlanComplete, AllRead, Accepted, Prior,
         storeVars, readVars
    <3> QED BY <3>1, <3>2 DEF ReadInv
  <2>10. ASSUME CheckIdempotency(p), ~Replayed(p) PROVE ReadInv'
    <3>1. /\ pc[p] = "check" /\ pc' = [pc EXCEPT ![p] = "txn"] /\ UNCHANGED appends
          /\ UNCHANGED <<storeVars, cur, readVars>>
      BY <2>10 DEF CheckIdempotency, Goto
    <3>2. ReadsConsistent'
      BY <3>1 DEF ReadInv, ReadsConsistent, storeVars, readVars
    <3>3. PlanComplete'
      BY <3>1 DEF TypeOK, ReadInv, PlanComplete, AllRead, Accepted, Prior, storeVars,
         readVars
    <3> QED BY <3>2, <3>3 DEF ReadInv
  <2>11. ASSUME CheckIdempotency(p) \/ Transact(p) PROVE ReadInv'
    <3>1. CASE Replayed(p)
      <4>1. pc[p] # "idle"
        BY <2>11 DEF CheckIdempotency, Transact
      <4> QED BY <2>4, <3>1, <4>1, PlainSteps
    <3>2. CASE Rollback(p)
      BY <2>4, <3>2, PlainSteps
    <3> QED
      BY <2>5, <2>10, <2>11, <3>1, <3>2 DEF Transact
  <2>12. CASE Step(p)
    <3>1. CASE \/ Refuse(p) \/ BeginDispatch(p) \/ Deliver(p) \/ MarkDispatched(p)
               \/ Claim(p) \/ Mutate(p) \/ CompleteClaimed(p)
      BY <2>4, <3>1, PlainSteps
    <3> QED
      BY <2>6, <2>7, <2>8, <2>9, <2>11, <2>12, <3>1 DEF Step
  <2> QED
    BY <2>3, <2>4, <2>12, PlainSteps
<1> QED
  BY <1>1, <1>2
-----------------------------------------------------------------------------
(* What the versions check buys: the appends that are written are decided   *)
(* on the current state of exactly the command's streams.                  *)
LEMMA CommitOnCurrentState ==
  ASSUME TypeOK, ReadInv, NEW p \in Proc, pc[p] = "txn", Commit(p)
  PROVE  /\ cur[p] \in Cmd
         /\ appends[p] = StreamsOf[cur[p]]
         /\ Elems(appends[p]) = Touches[cur[p]]
         /\ \A s \in Touches[cur[p]] : Legal(cur[p], state[s])
         /\ \A s \in Stream : state'[s] =
              IF s \in Touches[cur[p]] THEN Append(state[s], cur[p]) ELSE state[s]
         /\ \A s \in Stream : version'[s] =
              IF s \in Touches[cur[p]] THEN version[s] + 1 ELSE version[s]
<1>1. cur[p] \in Cmd /\ Prior(p) = None /\ VersionsMatch(p) /\ WriteAppends(p)
  BY DEF TypeOK, Commit
<1>2. appends[p] = StreamsOf[cur[p]] /\ AllRead(p) /\ Accepted(p)
  BY <1>1 DEF ReadInv, PlanComplete
<1>3. Elems(appends[p]) = Touches[cur[p]] /\ Touches[cur[p]] \subseteq Stream
  BY <1>1, <1>2, TouchesType
<1>4. \A s \in Touches[cur[p]] : seenState[p][s] = state[s]
  BY <1>1, <1>2, <1>3 DEF ReadInv, ReadsConsistent, VersionsMatch, AllRead
<1>5. \A s \in Touches[cur[p]] : Legal(cur[p], state[s])
  BY <1>2, <1>4 DEF Accepted
<1>6. \A s \in Stream : state'[s] =
        IF s \in Touches[cur[p]] THEN Append(state[s], cur[p]) ELSE state[s]
  BY <1>1, <1>3, <1>4 DEF WriteAppends
<1>7. \A s \in Stream : version'[s] =
        IF s \in Touches[cur[p]] THEN version[s] + 1 ELSE version[s]
  BY <1>1, <1>3 DEF WriteAppends
<1> QED
  BY <1>1, <1>2, <1>3, <1>5, <1>6, <1>7

(* A transaction on the current state adds to events and snapshots alike,   *)
(* so each snapshot stays the fold of its stream.                           *)
LEMMA CommitFold ==
  ASSUME TypeOK, ReadInv, SnapshotIsFold, NEW p \in Proc, pc[p] = "txn", Commit(p)
  PROVE  SnapshotIsFold'
<1> DEFINE c == cur[p]
           L == Len(ledger)
           str == StreamsOf[c]
           T == Touches[c]
<1>1. /\ c \in Cmd /\ str \in Seq(Stream) /\ T = Elems(str) /\ T \subseteq Stream
      /\ appends[p] = str
  BY CommitOnCurrentState, TouchesType
<1>2. /\ L \in Nat /\ Len(str) \in Nat
      /\ DOMAIN ledger = 1..L /\ DOMAIN str = 1..Len(str)
      /\ \A i \in 1..Len(str) : str[i] \in T
      /\ \A s \in T : \E i \in 1..Len(str) : str[i] = s
  BY <1>1, LenProperties DEF TypeOK, Elems
<1>3. /\ \A s \in Stream : version[s] \in Nat
      /\ \A s \in Stream : state[s] \in Seq(Cmd) /\ Len(state[s]) = version[s]
      /\ \A n \in 1..L : ledger[n].stream \in Stream /\ ledger[n].version \in Nat
  <2>1. \A n \in 1..L : ledger[n] \in Event
    BY <1>2, LenProperties DEF TypeOK
  <2> QED
    BY <2>1 DEF TypeOK, SnapshotIsFold, Event
<1>4. /\ \A s \in Stream : state'[s] = IF s \in T THEN Append(state[s], c) ELSE state[s]
      /\ \A s \in Stream : version'[s] = IF s \in T THEN version[s] + 1 ELSE version[s]
  BY CommitOnCurrentState
<1>5. /\ Len(ledger') = L + Len(str)
      /\ \A n \in 1..L : ledger'[n] = ledger[n]
      /\ \A i \in 1..Len(str) : ledger'[L + i] =
           [cmd |-> c, stream |-> str[i], version |-> version[str[i]] + 1]
      /\ ledger' \in Seq(Event)
  <2>1. ledger' = ledger \o NewEvents(c, str, version)
    BY <1>1 DEF Commit, WriteAppends
  <2>2. ledger \in Seq(Event) /\ version \in [Stream -> Nat]
    BY DEF TypeOK
  <2> QED
    BY <1>1, <2>1, <2>2, LedgerGrows
<1>6. DOMAIN ledger' = 1..(L + Len(str))
  BY <1>5, LenProperties
<1>7. \A n \in 1..(L + Len(str)) : n \in 1..L \/ \E i \in 1..Len(str) : n = L + i
  <2> SUFFICES ASSUME NEW n \in 1..(L + Len(str)), n \notin 1..L
               PROVE  \E i \in 1..Len(str) : n = L + i
    OBVIOUS
  <2>1. n - L \in 1..Len(str) /\ n = L + (n - L)
    BY <1>2
  <2> QED
    BY <2>1
<1>a. \A s \in Stream :
        /\ Len(Append(state[s], c)) = version[s] + 1
        /\ \A v \in 1..version[s] : Append(state[s], c)[v] = state[s][v]
        /\ Append(state[s], c)[version[s] + 1] = c
  BY <1>1, <1>3, AppendProperties
<1> HIDE DEF c, L, str, T
<1>8. \A s \in Stream : Len(state'[s]) = version'[s]
  BY <1>3, <1>4, <1>a
<1>9. \A s \in Stream : \A v \in 1..version[s] :
        /\ state'[s][v] = state[s][v]
        /\ v \in 1..version'[s]
  <2> TAKE s \in Stream
  <2>1. CASE s \in T
    <3>1. state'[s] = Append(state[s], c) /\ version'[s] = version[s] + 1
      BY <1>4, <2>1
    <3> QED
      BY <1>3, <1>a, <3>1
  <2>2. CASE s \notin T
    <3>1. state'[s] = state[s] /\ version'[s] = version[s]
      BY <1>4, <2>2
    <3> QED
      BY <1>3, <3>1
  <2> QED
    BY <2>1, <2>2
<1>10. \A i \in 1..Len(str) :
         /\ ledger'[L + i].cmd = c
         /\ ledger'[L + i].stream = str[i]
         /\ ledger'[L + i].version = version[str[i]] + 1
         /\ str[i] \in Stream
         /\ version'[str[i]] = version[str[i]] + 1
         /\ state'[str[i]][version[str[i]] + 1] = c
  <2> TAKE i \in 1..Len(str)
  <2>1. str[i] \in T /\ str[i] \in Stream
    BY <1>1, <1>2
  <2>2. ledger'[L + i] = [cmd |-> c, stream |-> str[i], version |-> version[str[i]] + 1]
    BY <1>5
  <2> QED
    <3>1. /\ version'[str[i]] = version[str[i]] + 1
          /\ state'[str[i]] = Append(state[str[i]], c)
      BY <1>4, <2>1
    <3>2. Append(state[str[i]], c)[version[str[i]] + 1] = c
      BY <1>a, <2>1
    <3> QED
      BY <2>1, <2>2, <3>1, <3>2
<1>11. \A n \in 1..L :
         /\ ledger[n].version \in 1..version[ledger[n].stream]
         /\ state[ledger[n].stream][ledger[n].version] = ledger[n].cmd
  BY <1>2 DEF SnapshotIsFold
<1>12. \A n \in DOMAIN ledger' :
         /\ ledger'[n].version \in 1..version'[ledger'[n].stream]
         /\ state'[ledger'[n].stream][ledger'[n].version] = ledger'[n].cmd
  <2> SUFFICES ASSUME NEW n \in 1..(L + Len(str))
               PROVE  /\ ledger'[n].version \in 1..version'[ledger'[n].stream]
                      /\ state'[ledger'[n].stream][ledger'[n].version] = ledger'[n].cmd
    BY <1>6
  <2>1. CASE n \in 1..L
    <3>1. ledger'[n] = ledger[n] /\ ledger[n].stream \in Stream
      BY <2>1, <1>3, <1>5
    <3>2. /\ ledger[n].version \in 1..version[ledger[n].stream]
          /\ state[ledger[n].stream][ledger[n].version] = ledger[n].cmd
      BY <2>1, <1>11
    <3> QED
      BY <3>1, <3>2, <1>9
  <2>2. CASE \E i \in 1..Len(str) : n = L + i
    BY <2>2, <1>3, <1>10
  <2> QED
    BY <1>7, <2>1, <2>2
<1>13. ASSUME NEW s \in Stream, NEW v \in 1..version'[s]
       PROVE  \E n \in DOMAIN ledger' : ledger'[n].stream = s /\ ledger'[n].version = v
  <2>1. CASE v \in 1..version[s]
    <3>1. PICK n \in 1..L : ledger[n].stream = s /\ ledger[n].version = v
      BY <1>2, <2>1 DEF SnapshotIsFold
    <3>2. n \in DOMAIN ledger' /\ ledger'[n] = ledger[n]
      BY <1>2, <1>5, <1>6, <3>1
    <3> QED
      BY <3>1, <3>2
  <2>2. CASE v \notin 1..version[s]
    <3>1. s \in T /\ v = version[s] + 1
      BY <1>3, <1>4, <2>2
    <3>2. PICK i \in 1..Len(str) : str[i] = s
      BY <1>2, <3>1
    <3>3. L + i \in DOMAIN ledger'
      BY <1>2, <1>6
    <3> QED
      BY <1>10, <3>1, <3>2, <3>3
  <2> QED
    BY <2>1, <2>2
<1>14. ASSUME NEW m \in DOMAIN ledger', NEW n \in DOMAIN ledger', m < n,
              ledger'[m].stream = ledger'[n].stream
       PROVE  ledger'[m].version < ledger'[n].version
  <2>1. CASE n \in 1..L
    <3>1. m \in 1..L
      BY <1>2, <1>6, <1>14, <2>1
    <3> QED
      BY <1>2, <1>5, <1>14, <2>1, <3>1 DEF SnapshotIsFold
  <2>2. ASSUME NEW j \in 1..Len(str), n = L + j
        PROVE  ledger'[m].version < ledger'[n].version
    <3>1. CASE m \in 1..L
      <4>1. /\ ledger'[m] = ledger[m] /\ ledger[m].stream = str[j]
            /\ ledger[m].version \in 1..version[str[j]]
        BY <1>5, <1>10, <1>11, <1>14, <2>2, <3>1
      <4>2. ledger'[n].version = version[str[j]] + 1 /\ version[str[j]] \in Nat
        BY <1>3, <1>10, <2>2
      <4> QED
        BY <4>1, <4>2
    <3>2. ASSUME NEW i \in 1..Len(str), m = L + i PROVE FALSE
      <4>1. str[i] = str[j] /\ i # j
        <5>1. ledger'[m].stream = str[i] /\ ledger'[n].stream = str[j]
          BY <1>10, <2>2, <3>2
        <5>2. i # j
          BY <1>2, <1>14, <2>2, <3>2
        <5> QED
          BY <1>14, <5>1, <5>2
      <4> QED
        BY <1>1, <1>2, <4>1, StreamsAssumption DEF str
    <3> QED
      BY <1>6, <1>7, <3>1, <3>2
  <2> QED
    BY <1>6, <1>7, <2>1, <2>2
<1> QED
  BY <1>8, <1>12, <1>13, <1>14 DEF SnapshotIsFold

(* No step that is not a committing transaction touches events or snapshots. *)
LEMMA TablesKept ==
  ASSUME TypeOK, [Next]_vars
  PROVE  \/ UNCHANGED <<version, state, ledger>>
         \/ \E p \in Proc : pc[p] = "txn" /\ Commit(p)
<1>1. CASE UNCHANGED vars
  BY <1>1 DEF vars, storeVars
<1>2. CASE Next
  BY <1>2, StepKinds DEF ClientOnly, Deliver, MarkDispatched, Claim, Mutate,
     CompleteClaimed, storeVars
<1> QED
  BY <1>1, <1>2

StoreInv == TypeOK /\ ClaimInv /\ ReadInv /\ SnapshotIsFold

(* The empty ledger satisfies the inductive invariant of the store. *)
LEMMA InitStoreInv == Init => StoreInv
<1>1. Init => SnapshotIsFold
  BY DEF Init, SnapshotIsFold
<1> QED
  BY <1>1, InitTypeOK, InitClaimInv, InitReadInv DEF StoreInv

(* With the version read first, every step keeps the store's invariant. *)
LEMMA NextStoreInv ==
  ASSUME StateFirst = {}
  PROVE  StoreInv /\ [Next]_vars => StoreInv'
<1> SUFFICES ASSUME StoreInv, [Next]_vars PROVE StoreInv'
  OBVIOUS
<1>1. TypeOK' /\ ClaimInv' /\ ReadInv'
  BY NextTypeOK, NextClaimInv, NextReadInv DEF StoreInv
<1>2. CASE UNCHANGED <<version, state, ledger>>
  BY <1>1, <1>2 DEF StoreInv, SnapshotIsFold
<1>3. CASE \E p \in Proc : pc[p] = "txn" /\ Commit(p)
  BY <1>1, <1>3, CommitFold DEF StoreInv
<1> QED
  BY <1>2, <1>3, TablesKept DEF StoreInv

(* No update is lost: when every service reads the version of a stream     *)
(* before its state, each snapshot stays the fold of its stream's events,  *)
(* for any number of clients and whatever commands race.                   *)
THEOREM NoLostUpdate ==
  ASSUME StateFirst = {}
  PROVE  Spec => []SnapshotIsFold
<1>1. StoreInv => SnapshotIsFold
  BY DEF StoreInv
<1> QED
  BY <1>1, InitStoreInv, NextStoreInv, PTL DEF Spec
-----------------------------------------------------------------------------
(* The empty ledger is the abstract ledger's initial state. *)
LEMMA InitAtomic == Init => Atomic!Init
  BY DEF Init, Atomic!Init, AppliedBy

(* A committing transaction is one abstract step on the current state. *)
LEMMA CommitApplies ==
  ASSUME StoreInv, NEW p \in Proc, pc[p] = "txn", Commit(p)
  PROVE  Atomic!Apply(cur[p])
<1> DEFINE c == cur[p]
<1>1. /\ c \in Cmd /\ KeyOf[c] \in Key /\ FpOf[c] \in Fingerprint
      /\ \A s \in Touches[c] : Legal(c, state[s])
      /\ \A s \in Stream : state'[s] =
           IF s \in Touches[c] THEN Append(state[s], c) ELSE state[s]
  BY CommitOnCurrentState, StreamsAssumption DEF StoreInv
<1>2. state' = [s \in Stream |->
                 IF s \in Touches[c] THEN Append(state[s], c) ELSE state[s]]
  <2>1. state' \in [Stream -> Seq(Cmd)]
    BY WriteTypeOK DEF StoreInv, Commit
  <2> QED
    BY <1>1, <2>1
<1>3. /\ receipt \in [Key -> Receipt \cup {None}]
      /\ receipt[KeyOf[c]] = None
      /\ receipt' = [receipt EXCEPT ![KeyOf[c]] =
                       [cmd |-> c, fp |-> FpOf[c], status |-> "applied"]]
  BY DEF StoreInv, TypeOK, Commit, Prior, WriteAppends
<1>4. [cmd |-> c, fp |-> FpOf[c], status |-> "applied"] # None
  BY <1>1, StreamsAssumption DEF Receipt, ReceiptStatus
<1>5. \A k \in Key : AppliedBy(k)' = IF k = KeyOf[c] THEN c ELSE AppliedBy(k)
  BY <1>1, <1>3, <1>4 DEF AppliedBy
<1>6. AppliedBy(KeyOf[c]) = None
  BY <1>3 DEF AppliedBy
<1> HIDE DEF c
<1>7. [k \in Key |-> AppliedBy(k)]' =
        [[k \in Key |-> AppliedBy(k)] EXCEPT ![KeyOf[c]] = c]
  BY <1>1, <1>5
<1> QED
  BY <1>1, <1>2, <1>6, <1>7 DEF Atomic!Apply, c

(* Claims, completions and everything clients do to themselves are         *)
(* invisible to the abstract ledger.                                       *)
LEMMA AppliedByKept ==
  ASSUME TypeOK, ClaimInv, [Next]_vars, ~ \E p \in Proc : pc[p] = "txn" /\ Commit(p)
  PROVE  \A k \in Key : AppliedBy(k)' = AppliedBy(k)
<1>1. CASE receipt' = receipt
  BY <1>1 DEF AppliedBy
<1>2. ASSUME NEW p \in Proc, Claim(p), ClaimNew(p)
      PROVE  \A k \in Key : AppliedBy(k)' = AppliedBy(k)
  BY <1>2, StreamsAssumption DEF Claim, ClaimNew, Unclaimed, Prior, AppliedBy, TypeOK
<1>3. ASSUME NEW p \in Proc, CompleteClaimed(p)
      PROVE  \A k \in Key : AppliedBy(k)' = AppliedBy(k)
  <2>1. /\ cur[p] \in Cmd /\ KeyOf[cur[p]] \in Key
        /\ receipt[KeyOf[cur[p]]] \in Receipt
        /\ receipt[KeyOf[cur[p]]].status = "in_progress"
    BY <1>3, StreamsAssumption DEF CompleteClaimed, TypeOK, ClaimInv, ClaimExclusive, Prior
  <2>2. PICK o \in {"completed", "failed"} :
          receipt' = [receipt EXCEPT ![KeyOf[cur[p]]] =
                        [receipt[KeyOf[cur[p]]] EXCEPT !.status = o]]
    BY <1>3 DEF CompleteClaimed
  <2>3. [receipt[KeyOf[cur[p]]] EXCEPT !.status = o].status = o
    BY <2>1 DEF Receipt
  <2> QED
    BY <2>1, <2>2, <2>3 DEF AppliedBy, TypeOK
<1>4. CASE UNCHANGED vars
  BY <1>1, <1>4 DEF vars, storeVars
<1>5. CASE Next
  BY <1>1, <1>2, <1>3, <1>5, StepKinds DEF ClientOnly, Deliver, MarkDispatched, Mutate,
     storeVars
<1> QED
  BY <1>4, <1>5

(* Every step of the write path is one abstract step or a stutter. *)
LEMMA StepAtomic ==
  ASSUME StoreInv, [Next]_vars
  PROVE  [Atomic!Next]_(Atomic!vars)
<1>1. CASE \E p \in Proc : pc[p] = "txn" /\ Commit(p)
  <2>1. PICK p \in Proc : pc[p] = "txn" /\ Commit(p)
    BY <1>1
  <2>2. Atomic!Apply(cur[p]) /\ cur[p] \in Cmd
    BY <2>1, CommitApplies DEF StoreInv, TypeOK
  <2> QED
    BY <2>2 DEF Atomic!Next
<1>2. CASE ~ \E p \in Proc : pc[p] = "txn" /\ Commit(p)
  <2>1. state' = state
    BY <1>2, TablesKept DEF StoreInv
  <2>2. \A k \in Key : AppliedBy(k)' = AppliedBy(k)
    BY <1>2, AppliedByKept DEF StoreInv
  <2> QED
    BY <2>1, <2>2 DEF Atomic!vars
<1> QED
  BY <1>1, <1>2

(* The store implements the atomic ledger: each command is applied at most *)
(* once per key, to all of its streams at once, on the state they have at  *)
(* that moment and where the aggregates accept it.                         *)
THEOREM StoreImplementsAtomicLedger ==
  ASSUME StateFirst = {}
  PROVE  Spec => ImplementsAtomicLedger
<1> QED
  BY InitStoreInv, NextStoreInv, InitAtomic, StepAtomic, PTL
     DEF Spec, ImplementsAtomicLedger, Atomic!Spec
-----------------------------------------------------------------------------
Told == {"applied", "idempotent"}

(* Every event of command c is in the ledger. *)
Recorded(c) ==
  \A s \in Touches[c] :
    \E n \in DOMAIN ledger : ledger[n].cmd = c /\ ledger[n].stream = s

(* A receipt carries its command's fingerprint, and its command's events    *)
(* are in the ledger if it says so.                                         *)
ReceiptBacked ==
  \A k \in Key : receipt[k] # None =>
    /\ FpOf[receipt[k].cmd] = receipt[k].fp
    /\ receipt[k].status = "applied" => Recorded(receipt[k].cmd)

(* A reply names the command of a receipt with the caller's fingerprint. *)
ReplyNamed ==
  \A p \in Proc : reply[p].kind \in Told =>
    /\ cur[p] \in Cmd
    /\ receipt[KeyOf[cur[p]]] # None
    /\ receipt[KeyOf[cur[p]]].cmd = reply[p].cmd
    /\ receipt[KeyOf[cur[p]]].fp = FpOf[cur[p]]

(* What goes into a transaction without a receipt is the whole command. *)
PlanWhole ==
  \A p \in Proc : pc[p] \in {"check", "txn"} =>
    appends[p] = StreamsOf[cur[p]] \/ Prior(p) # None

ReplyInv == ReceiptBacked /\ ReplyNamed /\ PlanWhole

(* Nobody has been told anything about an empty ledger. *)
LEMMA InitReplyInv == Init => ReplyInv
  BY DEF Init, ReplyInv, ReceiptBacked, ReplyNamed, PlanWhole, NoReply, Told

(* The command and the fingerprint of a receipt never change, and it is     *)
(* never turned into an applied one.                                        *)
ReceiptsKeep ==
  \A k \in Key : receipt[k] # None =>
    /\ receipt'[k] # None
    /\ receipt'[k].cmd = receipt[k].cmd
    /\ receipt'[k].fp = receipt[k].fp
    /\ receipt'[k].status = "applied" => receipt[k].status = "applied"

(* What p is told in a step, and what it plans, if it does not commit. *)
ToldByReceipt(p) ==
  /\ \/ reply'[p].kind \notin Told
     \/ reply'[p] = reply[p] /\ cur'[p] = cur[p]
     \/ /\ cur'[p] = cur[p] /\ cur[p] \in Cmd /\ Prior(p) # None
        /\ Prior(p).fp = FpOf[cur[p]]
        /\ reply'[p].cmd = Prior(p).cmd
  /\ \/ pc'[p] \notin {"check", "txn"}
     \/ /\ cur'[p] = cur[p] /\ cur[p] \in Cmd
        /\ \/ appends'[p] = StreamsOf[cur[p]] \/ Prior(p) # None
           \/ pc[p] \in {"check", "txn"} /\ appends'[p] = appends[p]

(* The other clients are told nothing and plan nothing. *)
OthersUntold(p) ==
  \A q \in Proc \ {p} :
    /\ reply'[q] = reply[q] /\ cur'[q] = cur[q]
    /\ pc'[q] = pc[q] /\ appends'[q] = appends[q]

(* Every step but the one that writes tells its client what a receipt says. *)
LEMMA AnswerKinds ==
  ASSUME TypeOK, Next
  PROVE  \E p \in Proc :
           /\ OthersUntold(p)
           /\ ToldByReceipt(p) \/ (pc[p] = "txn" /\ Commit(p))
<1>1. PICK p \in Proc :
        \/ \E c \in Cmd : Start(p, c)
        \/ Step(p) \/ SubscriberRaises(p) \/ Crash(p)
  BY DEF Next
<1> USE DEF Goto, Answer, Return, OthersUntold, ToldByReceipt, Told, TypeOK
<1>2. ASSUME NEW c \in Cmd, Start(p, c) PROVE OthersUntold(p) /\ ToldByReceipt(p)
  BY <1>2 DEF Start, NoReply
<1>3. ASSUME Precheck(p) PROVE OthersUntold(p) /\ ToldByReceipt(p)
  BY <1>3 DEF Precheck
<1>4. ASSUME NEW s \in Stream, ReadVersion(p, s) \/ ReadState(p, s)
      PROVE  OthersUntold(p) /\ ToldByReceipt(p)
  BY <1>4 DEF ReadVersion, ReadState
<1>5. ASSUME Decide(p) PROVE OthersUntold(p) /\ ToldByReceipt(p)
  BY <1>5 DEF Decide
<1>6. ASSUME Refuse(p) \/ Rollback(p) \/ SubscriberRaises(p) \/ Crash(p)
      PROVE  OthersUntold(p) /\ ToldByReceipt(p)
  BY <1>6 DEF Refuse, Rollback, SubscriberRaises, Crash, Forget
<1>7. ASSUME Replayed(p), pc[p] # "idle" PROVE OthersUntold(p) /\ ToldByReceipt(p)
  BY <1>7 DEF Replayed, SameOperation, Forget
<1>8. ASSUME CheckIdempotency(p) PROVE OthersUntold(p) /\ ToldByReceipt(p)
  BY <1>7, <1>8 DEF CheckIdempotency
<1>9. ASSUME BeginDispatch(p) \/ Deliver(p) \/ MarkDispatched(p) \/ Mutate(p)
      PROVE  OthersUntold(p) /\ ToldByReceipt(p)
  BY <1>9 DEF BeginDispatch, Deliver, MarkDispatched, Mutate
<1>10. ASSUME Claim(p) PROVE OthersUntold(p) /\ ToldByReceipt(p)
  BY <1>10 DEF Claim, ClaimNew, ClaimKnown, SameOperation, Forget
<1>11. ASSUME CompleteClaimed(p) PROVE OthersUntold(p) /\ ToldByReceipt(p)
  BY <1>11 DEF CompleteClaimed, Forget
<1>12. ASSUME Commit(p) PROVE OthersUntold(p)
  BY <1>12 DEF Commit, Forget
<1> HIDE DEF Goto, Answer, Return, OthersUntold, ToldByReceipt, Told, TypeOK
<1> QED
  BY <1>1, <1>2, <1>3, <1>4, <1>5, <1>6, <1>7, <1>8, <1>9, <1>10, <1>11, <1>12
     DEF Step, Transact

(* Where no transaction writes, receipts keep their names and the ledger is *)
(* as it was; a new receipt is not an applied one.                          *)
LEMMA ReceiptsKept ==
  ASSUME TypeOK, ClaimInv, Next, ~ \E p \in Proc : pc[p] = "txn" /\ Commit(p)
  PROVE  /\ ReceiptsKeep
         /\ ledger' = ledger
         /\ \A k \in Key : receipt[k] = None /\ receipt'[k] # None =>
              /\ FpOf[receipt'[k].cmd] = receipt'[k].fp
              /\ receipt'[k].status # "applied"
<1>1. CASE receipt' = receipt /\ ledger' = ledger
  BY <1>1 DEF ReceiptsKeep
<1>2. ASSUME NEW p \in Proc, Claim(p), ClaimNew(p)
      PROVE  /\ ReceiptsKeep
             /\ ledger' = ledger
             /\ \A k \in Key : receipt[k] = None /\ receipt'[k] # None =>
                  /\ FpOf[receipt'[k].cmd] = receipt'[k].fp
                  /\ receipt'[k].status # "applied"
  <2>1. cur[p] \in Cmd /\ KeyOf[cur[p]] \in Key /\ receipt[KeyOf[cur[p]]] = None
    BY <1>2, StreamsAssumption DEF Claim, ClaimNew, Unclaimed, Prior, TypeOK
  <2>2. /\ ledger' = ledger
        /\ receipt'[KeyOf[cur[p]]] =
             [cmd |-> cur[p], fp |-> FpOf[cur[p]], status |-> "in_progress"]
        /\ \A k \in Key \ {KeyOf[cur[p]]} : receipt'[k] = receipt[k]
    BY <1>2, <2>1 DEF Claim, ClaimNew, TypeOK
  <2> QED
    BY <2>1, <2>2 DEF ReceiptsKeep
<1>3. ASSUME NEW p \in Proc, CompleteClaimed(p)
      PROVE  /\ ReceiptsKeep
             /\ ledger' = ledger
             /\ \A k \in Key : receipt[k] # None \/ receipt'[k] = None
  <2> DEFINE k0 == KeyOf[cur[p]]
  <2>1. cur[p] \in Cmd /\ k0 \in Key /\ receipt[k0] # None /\ receipt[k0] \in Receipt
    BY <1>3, StreamsAssumption DEF CompleteClaimed, TypeOK, Prior
  <2>2. PICK o \in {"completed", "failed"} :
          receipt' = [receipt EXCEPT ![k0] = [receipt[k0] EXCEPT !.status = o]]
    BY <1>3 DEF CompleteClaimed
  <2>3. /\ [receipt[k0] EXCEPT !.status = o] \in Receipt
        /\ [receipt[k0] EXCEPT !.status = o].cmd = receipt[k0].cmd
        /\ [receipt[k0] EXCEPT !.status = o].fp = receipt[k0].fp
        /\ [receipt[k0] EXCEPT !.status = o].status = o
    BY <2>1 DEF Receipt, ReceiptStatus
  <2>4. /\ receipt'[k0] # None
        /\ receipt'[k0].cmd = receipt[k0].cmd
        /\ receipt'[k0].fp = receipt[k0].fp
        /\ receipt'[k0].status # "applied"
        /\ \A k \in Key \ {k0} : receipt'[k] = receipt[k]
    BY <2>1, <2>2, <2>3, StreamsAssumption DEF TypeOK
  <2>5. ledger' = ledger
    BY <1>3 DEF CompleteClaimed
  <2> HIDE DEF k0
  <2> QED
    BY <2>1, <2>4, <2>5 DEF ReceiptsKeep
<1> QED
  BY <1>1, <1>2, <1>3, StepKinds DEF ClientOnly, Deliver, MarkDispatched, Mutate, storeVars

(* The transaction writes a receipt with the events it speaks of, under a   *)
(* key that had none.                                                       *)
LEMMA CommitRecords ==
  ASSUME TypeOK, ReplyInv, NEW p \in Proc, pc[p] = "txn", Commit(p)
  PROVE  /\ cur[p] \in Cmd /\ KeyOf[cur[p]] \in Key /\ cur' = cur
         /\ receipt[KeyOf[cur[p]]] = None
         /\ receipt'[KeyOf[cur[p]]] =
              [cmd |-> cur[p], fp |-> FpOf[cur[p]], status |-> "applied"]
         /\ \A k \in Key \ {KeyOf[cur[p]]} : receipt'[k] = receipt[k]
         /\ reply'[p] = [kind |-> "applied", cmd |-> cur[p]]
         /\ pc'[p] = "outbox"
         /\ Recorded(cur[p])'
         /\ \A c \in Cmd : Recorded(c) => Recorded(c)'
<1>1. /\ cur[p] \in Cmd /\ KeyOf[cur[p]] \in Key /\ cur' = cur
      /\ receipt[KeyOf[cur[p]]] = None
      /\ receipt'[KeyOf[cur[p]]] =
           [cmd |-> cur[p], fp |-> FpOf[cur[p]], status |-> "applied"]
      /\ \A k \in Key \ {KeyOf[cur[p]]} : receipt'[k] = receipt[k]
      /\ reply'[p] = [kind |-> "applied", cmd |-> cur[p]]
      /\ pc'[p] = "outbox"
  BY StreamsAssumption DEF Commit, WriteAppends, Goto, Answer, Prior, TypeOK
<1>2. appends[p] = StreamsOf[cur[p]]
  BY <1>1 DEF ReplyInv, PlanWhole, Prior
<1>3. /\ StreamsOf[cur[p]] \in Seq(Stream)
      /\ Touches[cur[p]] = Elems(StreamsOf[cur[p]])
  BY <1>1, TouchesType
<1>4. ledger' = ledger \o NewEvents(cur[p], StreamsOf[cur[p]], version)
  BY <1>2 DEF Commit, WriteAppends
<1>5. /\ ledger \in Seq(Event) /\ ledger' \in Seq(Event)
      /\ Len(ledger') = Len(ledger) + Len(StreamsOf[cur[p]])
      /\ \A i \in 1..Len(ledger) : ledger'[i] = ledger[i]
      /\ \A i \in 1..Len(StreamsOf[cur[p]]) :
           ledger'[Len(ledger) + i] =
             [cmd |-> cur[p], stream |-> StreamsOf[cur[p]][i],
              version |-> version[StreamsOf[cur[p]][i]] + 1]
  <2>1. ledger \in Seq(Event) /\ version \in [Stream -> Nat]
    BY DEF TypeOK
  <2> DEFINE new == ledger \o NewEvents(cur[p], StreamsOf[cur[p]], version)
  <2>2. /\ new \in Seq(Event)
        /\ Len(new) = Len(ledger) + Len(StreamsOf[cur[p]])
        /\ \A i \in 1..Len(ledger) : new[i] = ledger[i]
        /\ \A i \in 1..Len(StreamsOf[cur[p]]) :
             new[Len(ledger) + i] =
               [cmd |-> cur[p], stream |-> StreamsOf[cur[p]][i],
                version |-> version[StreamsOf[cur[p]][i]] + 1]
    BY <1>1, <1>3, <2>1, LedgerGrows
  <2>3. ledger' = new
    BY <1>4
  <2> HIDE DEF new
  <2> QED
    BY <2>1, <2>2, <2>3
<1>6. /\ DOMAIN ledger = 1..Len(ledger) /\ DOMAIN ledger' = 1..Len(ledger')
      /\ Len(ledger) \in Nat /\ Len(StreamsOf[cur[p]]) \in Nat
      /\ DOMAIN StreamsOf[cur[p]] = 1..Len(StreamsOf[cur[p]])
  BY <1>3, <1>5, LenProperties
<1>7. Recorded(cur[p])'
  <2>1. ASSUME NEW s \in Touches[cur[p]]
        PROVE  \E n \in DOMAIN ledger' : ledger'[n].cmd = cur[p] /\ ledger'[n].stream = s
    <3>1. PICK i \in 1..Len(StreamsOf[cur[p]]) : StreamsOf[cur[p]][i] = s
      BY <1>3, <1>6 DEF Elems
    <3>2. Len(ledger) + i \in DOMAIN ledger'
      BY <1>5, <1>6
    <3>3. ledger'[Len(ledger) + i] =
            [cmd |-> cur[p], stream |-> s, version |-> version[s] + 1]
      BY <1>5, <3>1
    <3> QED
      BY <3>2, <3>3
  <2> QED
    BY <1>1, <2>1 DEF Recorded
<1>8. ASSUME NEW c \in Cmd, Recorded(c) PROVE Recorded(c)'
  <2>1. \A n \in DOMAIN ledger : n \in DOMAIN ledger' /\ ledger'[n] = ledger[n]
    BY <1>5, <1>6
  <2> QED
    BY <1>8, <2>1 DEF Recorded
<1> QED
  BY <1>1, <1>7, <1>8

(* Receipts stay backed and replies named under every step. *)
LEMMA NextReplyInv == TypeOK /\ ClaimInv /\ ReplyInv /\ [Next]_vars => ReplyInv'
<1> SUFFICES ASSUME TypeOK, ClaimInv, ReplyInv, [Next]_vars PROVE ReplyInv'
  OBVIOUS
<1>0. \A c \in Cmd : KeyOf[c] \in Key
  BY StreamsAssumption
<1>1. CASE UNCHANGED vars
  BY <1>1 DEF vars, storeVars, clientVars, ReplyInv, ReceiptBacked, ReplyNamed, PlanWhole,
     Recorded, Prior
<1>2. ASSUME NEW p \in Proc, Next, pc[p] = "txn", Commit(p) PROVE ReplyInv'
  <2>1. \A q \in Proc \ {p} :
          /\ reply'[q] = reply[q] /\ cur'[q] = cur[q]
          /\ pc'[q] = pc[q] /\ appends'[q] = appends[q]
    BY <1>2 DEF Commit, Goto, Answer, Forget, TypeOK
  <2> DEFINE k0 == KeyOf[cur[p]]
             r0 == [cmd |-> cur[p], fp |-> FpOf[cur[p]], status |-> "applied"]
             Rec(c) == \A s \in Touches[c] : \E n \in DOMAIN ledger' :
                         ledger'[n].cmd = c /\ ledger'[n].stream = s
  <2>0. /\ cur[p] \in Cmd /\ k0 \in Key /\ cur'[p] = cur[p]
        /\ receipt[k0] = None /\ receipt'[k0] = r0
        /\ \A k \in Key \ {k0} : receipt'[k] = receipt[k]
        /\ reply'[p] = [kind |-> "applied", cmd |-> cur[p]]
        /\ pc'[p] = "outbox"
        /\ Rec(cur[p])
        /\ \A c \in Cmd : Recorded(c) => Rec(c)
    BY <1>2, CommitRecords DEF Recorded
  <2>2. r0 # None /\ r0.cmd = cur[p] /\ r0.fp = FpOf[cur[p]]
    <3>1. r0 \in Receipt
      BY <2>0, StreamsAssumption DEF Receipt, ReceiptStatus
    <3> QED
      BY <3>1, StreamsAssumption
  <2>3. ReceiptBacked'
    <3>1. ASSUME NEW k \in Key, receipt'[k] # None
          PROVE  /\ FpOf[receipt'[k].cmd] = receipt'[k].fp
                 /\ receipt'[k].status = "applied" => Rec(receipt'[k].cmd)
      <4> HIDE DEF Rec
      <4>1. CASE k = k0
        BY <2>0, <2>2, <4>1
      <4>2. CASE k # k0
        <5>1. receipt'[k] = receipt[k] /\ receipt[k] # None /\ receipt[k].cmd \in Cmd
          BY <2>0, <3>1, <4>2 DEF TypeOK, Receipt
        <5> QED
          BY <2>0, <5>1 DEF ReplyInv, ReceiptBacked
      <4> QED
        BY <4>1, <4>2
    <3> QED
      BY <3>1 DEF ReceiptBacked, Recorded
  <2>4. ReplyNamed'
    BY <1>0, <2>0, <2>1, <2>2 DEF ReplyInv, ReplyNamed
  <2>5. PlanWhole'
    <3>1. ASSUME NEW q \in Proc \ {p}, pc[q] \in {"check", "txn"}
          PROVE  appends[q] = StreamsOf[cur[q]] \/ receipt'[KeyOf[cur[q]]] # None
      <4>1. KeyOf[cur[q]] \in Key
        BY <1>0, <3>1 DEF TypeOK
      <4> QED
        BY <2>0, <2>2, <3>1, <4>1 DEF ReplyInv, PlanWhole, Prior
    <3> QED
      BY <2>0, <2>1, <3>1 DEF PlanWhole, Prior
  <2> QED
    BY <2>3, <2>4, <2>5 DEF ReplyInv
<1>3. ASSUME Next, ~ \E p \in Proc : pc[p] = "txn" /\ Commit(p) PROVE ReplyInv'
  <2>1. PICK p \in Proc : OthersUntold(p) /\ ToldByReceipt(p)
    BY <1>3, AnswerKinds
  <2>2. /\ ReceiptsKeep
        /\ ledger' = ledger
        /\ \A k \in Key : receipt[k] = None /\ receipt'[k] # None =>
             FpOf[receipt'[k].cmd] = receipt'[k].fp /\ receipt'[k].status # "applied"
    BY <1>3, ReceiptsKept
  <2>3. ReceiptBacked'
    BY <2>2 DEF ReplyInv, ReceiptBacked, ReceiptsKeep, Recorded
  <2>4. ReplyNamed'
    BY <1>0, <2>1, <2>2 DEF OthersUntold, ToldByReceipt, ReplyInv, ReplyNamed, ReceiptsKeep,
       Prior
  <2>5. PlanWhole'
    <3>1. ASSUME NEW q \in Proc, pc[q] \in {"check", "txn"} PROVE KeyOf[cur[q]] \in Key
      BY <1>0, <3>1 DEF TypeOK
    <3> QED
      BY <1>0, <2>1, <2>2, <3>1 DEF OthersUntold, ToldByReceipt, ReplyInv, PlanWhole,
         ReceiptsKeep, Prior
  <2> QED
    BY <2>3, <2>4, <2>5 DEF ReplyInv
<1> QED
  BY <1>1, <1>2, <1>3

(* A caller who is told "applied" or "idempotent" is told of an operation    *)
(* with the caller's fingerprint that is in the ledger with every one of    *)
(* its events, whichever clients race for the key, crash or roll back.      *)
THEOREM RepliesFaithful == Spec => []ReplyFaithful
<1>1. ReplyInv => ReplyFaithful
  <2> SUFFICES ASSUME ReplyInv, NEW p \in Proc, reply[p].kind \in Told
               PROVE  /\ receipt[KeyOf[cur[p]]] # None
                      /\ receipt[KeyOf[cur[p]]].cmd = reply[p].cmd
                      /\ FpOf[reply[p].cmd] = FpOf[cur[p]]
                      /\ receipt[KeyOf[cur[p]]].status = "applied" => Recorded(reply[p].cmd)
    BY DEF ReplyFaithful, Recorded, Told
  <2>1. /\ cur[p] \in Cmd
        /\ receipt[KeyOf[cur[p]]] # None
        /\ receipt[KeyOf[cur[p]]].cmd = reply[p].cmd
        /\ receipt[KeyOf[cur[p]]].fp = FpOf[cur[p]]
    BY DEF ReplyInv, ReplyNamed
  <2>2. KeyOf[cur[p]] \in Key
    BY <2>1, StreamsAssumption
  <2> QED
    BY <2>1, <2>2 DEF ReplyInv, ReceiptBacked
<1> QED
  BY <1>1, InitClaimInv, NextClaimInv, InitReplyInv, NextReplyInv, TypeCorrect, PTL DEF Spec
-----------------------------------------------------------------------------
(* A retry whose service looks the key up first never gets to read state:   *)
(* its receipt is still there when it looks.                                *)
RetryInv ==
  \A p \in Proc : answered[p] /\ cur[p] \in Prechecked =>
    /\ cur[p] \in Cmd
    /\ receipt[KeyOf[cur[p]]] # None
    /\ pc[p] # "reading"
    /\ reply[p].kind # "refused"

(* No call has begun in an empty ledger. *)
LEMMA InitRetryInv == Init => RetryInv
  BY DEF Init, RetryInv

(* How p's call may go on: it starts, or it goes on without coming to read  *)
(* where it found a receipt, and without a refusal where it did not read.   *)
CallGoesOn(p) ==
  \/ \E c \in Cmd : Start(p, c)
  \/ /\ cur'[p] = cur[p] /\ answered'[p] = answered[p]
     /\ pc'[p] = "reading" => pc[p] = "reading" \/ (pc[p] = "precheck" /\ Prior(p) = None)
     /\ reply'[p].kind = "refused" => pc[p] = "reading" \/ reply[p].kind = "refused"

(* The other calls stay where they are. *)
OthersWait(p) ==
  \A q \in Proc \ {p} :
    /\ pc'[q] = pc[q] /\ cur'[q] = cur[q]
    /\ reply'[q] = reply[q] /\ answered'[q] = answered[q]

(* Every step is a step of one call. *)
LEMMA CallSteps ==
  ASSUME TypeOK, Next
  PROVE  \E p \in Proc : OthersWait(p) /\ CallGoesOn(p)
<1>1. PICK p \in Proc :
        \/ \E c \in Cmd : Start(p, c)
        \/ Step(p) \/ SubscriberRaises(p) \/ Crash(p)
  BY DEF Next
<1> USE DEF Goto, Answer, Return, Forget, OthersWait, CallGoesOn, TypeOK
<1>2. ASSUME NEW c \in Cmd, Start(p, c) PROVE OthersWait(p) /\ CallGoesOn(p)
  BY <1>2 DEF Start
<1>3. ASSUME Precheck(p) PROVE OthersWait(p) /\ CallGoesOn(p)
  BY <1>3 DEF Precheck
<1>4. ASSUME NEW s \in Stream, ReadVersion(p, s) \/ ReadState(p, s)
      PROVE  OthersWait(p) /\ CallGoesOn(p)
  BY <1>4 DEF ReadVersion, ReadState
<1>5. ASSUME Decide(p) \/ Refuse(p) PROVE OthersWait(p) /\ CallGoesOn(p)
  BY <1>5 DEF Decide, Refuse
<1>6. ASSUME Replayed(p) \/ Rollback(p) \/ Commit(p) PROVE OthersWait(p) /\ CallGoesOn(p)
  BY <1>6 DEF Replayed, Rollback, Commit
<1>7. ASSUME CheckIdempotency(p) \/ Transact(p) PROVE OthersWait(p) /\ CallGoesOn(p)
  BY <1>6, <1>7 DEF CheckIdempotency, Transact
<1>8. ASSUME BeginDispatch(p) \/ Deliver(p) \/ MarkDispatched(p) \/ Mutate(p)
      PROVE  OthersWait(p) /\ CallGoesOn(p)
  BY <1>8 DEF BeginDispatch, Deliver, MarkDispatched, Mutate
<1>9. ASSUME Claim(p) PROVE OthersWait(p) /\ CallGoesOn(p)
  BY <1>9 DEF Claim, ClaimNew, ClaimKnown
<1>10. ASSUME CompleteClaimed(p) PROVE OthersWait(p) /\ CallGoesOn(p)
  BY <1>10 DEF CompleteClaimed
<1>11. ASSUME SubscriberRaises(p) \/ Crash(p) PROVE OthersWait(p) /\ CallGoesOn(p)
  BY <1>11 DEF SubscriberRaises, Crash
<1> HIDE DEF Goto, Answer, Return, Forget, OthersWait, CallGoesOn, TypeOK
<1> QED
  BY <1>1, <1>2, <1>3, <1>4, <1>5, <1>7, <1>8, <1>9, <1>10, <1>11 DEF Step

(* A receipt found at the start of a call is there to its end. *)
LEMMA NextRetryInv == TypeOK /\ ClaimInv /\ RetryInv /\ [Next]_vars => RetryInv'
<1> SUFFICES ASSUME TypeOK, ClaimInv, RetryInv, [Next]_vars PROVE RetryInv'
  OBVIOUS
<1>1. CASE UNCHANGED vars
  BY <1>1 DEF vars, storeVars, clientVars, RetryInv
<1>2. CASE Next
  <2>1. PICK p \in Proc : OthersWait(p) /\ CallGoesOn(p)
    BY <1>2, CallSteps
  <2>2. \A k \in Key : receipt[k] # None => receipt'[k] # None
    BY <1>2, ReceiptsStay
  <2>3. \A c \in Cmd : KeyOf[c] \in Key
    BY StreamsAssumption
  <2>4. ASSUME NEW c \in Cmd, Start(p, c), answered'[p], cur'[p] \in Prechecked
        PROVE  /\ cur'[p] \in Cmd
               /\ receipt'[KeyOf[cur'[p]]] # None
               /\ pc'[p] # "reading"
               /\ reply'[p].kind # "refused"
    BY <2>4 DEF Start, Goto, NoReply, storeVars, TypeOK
  <2> QED
    BY <2>1, <2>2, <2>3, <2>4 DEF OthersWait, CallGoesOn, RetryInv, Prior
<1> QED
  BY <1>1, <1>2

(* A retry of an operation that had its receipt is never refused by the     *)
(* aggregate on the state the operation itself produced, where the service  *)
(* looks the key up before it reads.                                        *)
THEOREM RetriesAnswered == Spec => []RetryAnswered
<1>1. RetryInv => RetryAnswered
  BY DEF RetryInv, RetryAnswered
<1> QED
  BY <1>1, InitClaimInv, NextClaimInv, InitRetryInv, NextRetryInv, TypeCorrect, PTL DEF Spec
=============================================================================
