------------------------- MODULE Checkpoint_proofs -------------------------
(***************************************************************************)
(* What a checkpoint says is right, for any streams, threads and ledger.   *)
(*                                                                         *)
(* History is why four reads may stand for one moment: versions only grow, *)
(* and a stream whose version is the same at two positions has the same    *)
(* state there.  Drafted says that each state was read at some position    *)
(* between the list and the head; if replay then finds the listed version  *)
(* at the head, the stream did not move in between.                        *)
(***************************************************************************)
EXTENDS Checkpoint, TLAPS

Use == {"none", "open", "awaiting_reconciliation"}
Rows == [Stream -> [version : Nat, use : Use]]
Manifests ==
  [version : [Stream -> Nat], todo : SUBSET Stream, open : SUBSET Stream,
   position : Nat, chain : Nat, pending : SUBSET Nat]
Label == {"idle", "aggregates", "head", "chain", "outbox", "save"}

Types ==
  /\ head \in Nat
  /\ table \in [0..head -> Rows]
  /\ dispatched \subseteq Nat
  /\ saved \in [Thread -> Manifests]
  /\ pc \in [Thread -> Label]
  /\ draft \in [Thread -> Manifests]

History ==
  \A n, m \in 0..head : \A s \in Stream : n <= m =>
    /\ table[n][s].version <= table[m][s].version
    /\ table[n][s].version = table[m][s].version => table[n][s] = table[m][s]

(* The state of s was read at a position from the list to the given one.   *)
ReadUpTo(tab, d, s, last) ==
  \E n \in 0..last :
    /\ d.version[s] <= tab[n][s].version
    /\ s \in d.open <=> Unresolved(tab[n][s].use)

Drafted(tab, d, last) ==
  \A s \in Stream :
    d.version[s] > 0 /\ s \notin d.todo => ReadUpTo(tab, d, s, last)

Placed ==
  \A t \in Thread :
    /\ pc[t] \in {"aggregates", "head"} =>
         /\ Drafted(table, draft[t], head)
         /\ \A s \in Stream : draft[t].version[s] <= table[head][s].version
    /\ pc[t] # "aggregates" => draft[t].todo = {}
    /\ draft[t].open \cap draft[t].todo = {} /\ draft[t].position <= head
    /\ pc[t] \in {"chain", "outbox", "save"} =>
         Drafted(table, draft[t], draft[t].position)

Complete(d) == (1..d.position) \ d.pending \subseteq dispatched

Kept ==
  \A t \in Thread :
    /\ Drafted(table, saved[t], saved[t].position)
    /\ saved[t].todo = {} /\ saved[t].position <= head
    /\ Complete(saved[t])
    /\ pc[t] = "save" => Complete(draft[t])

IInv == Types /\ History /\ Placed /\ Kept
-----------------------------------------------------------------------------
LEMMA InitIInv == Init => IInv
<1> SUFFICES ASSUME Init PROVE IInv
  OBVIOUS
<1> USE DEF Init
<1>1. NoDraft \in Manifests
  BY DEF NoDraft, Manifests
<1>2. Types
  BY <1>1 DEF Types, Rows, Use, Empty, Label
<1>3. History
  BY DEF History, Empty
<1>4. /\ NoDraft.todo = {} /\ NoDraft.open = {} /\ NoDraft.position = 0
      /\ \A s \in Stream : NoDraft.version[s] = 0
  BY DEF NoDraft
<1>5. Drafted(table, NoDraft, 0)
  BY <1>4 DEF Drafted
<1>6. Placed
  BY <1>4 DEF Placed
<1>7. Kept
  BY <1>4, <1>5 DEF Kept, Complete
<1> QED
  BY <1>2, <1>3, <1>6, <1>7 DEF IInv

(* A commit adds a position and leaves the others as they are.             *)
LEMMA AppendStep ==
  ASSUME IInv, NEW s \in Stream, NEW use \in Use, Append(s, use)
  PROVE  IInv'
<1> USE DEF IInv, Append
<1>1. /\ head \in Nat /\ head' = head + 1
      /\ 0..head' = (0..head) \cup {head + 1}
      /\ table[head] \in Rows
      /\ \A n \in 0..head : table'[n] = table[n]
  BY DEF Types
<1>2. PICK new \in Rows :
        /\ table'[head + 1] = new
        /\ \A q \in Stream :
             /\ table[head][q].version <= new[q].version
             /\ table[head][q].version = new[q].version => table[head][q] = new[q]
  <2> DEFINE row == [table[head] EXCEPT ![s] = [version |-> @.version + 1, use |-> use]]
  <2>1. table'[head + 1] = row
    BY <1>1
  <2>2. row \in Rows
    BY <1>1 DEF Rows
  <2>3. \A q \in Stream :
          /\ table[head][q].version <= row[q].version
          /\ table[head][q].version = row[q].version => table[head][q] = row[q]
    BY <1>1 DEF Rows
  <2> QED
    BY <2>1, <2>2, <2>3
<1>4. Types'
  <2>1. \A n \in 0..head' : table'[n] \in Rows
    BY <1>1, <1>2 DEF Types
  <2>2. table' = [n \in 0..head' |-> table'[n]]
    BY <1>1
  <2>3. table' \in [0..head' -> Rows] /\ head' \in Nat
    BY <1>1, <2>1, <2>2
  <2> QED
    BY <2>3 DEF Types
<1>6. History'
  <2> SUFFICES ASSUME NEW n \in 0..head', NEW m \in 0..head', NEW q \in Stream, n <= m
               PROVE  /\ table'[n][q].version <= table'[m][q].version
                      /\ table'[n][q].version = table'[m][q].version =>
                           table'[n][q] = table'[m][q]
    BY DEF History
  <2>1. CASE m \in 0..head
    BY <2>1, <1>1, <1>2 DEF History
  <2>2. CASE m = head + 1 /\ n = head + 1
    BY <2>2, <1>2 DEF Rows
  <2>3. CASE m = head + 1 /\ n \in 0..head
    <3>1. table[n] \in Rows /\ table[head] \in Rows
      BY <2>3, <1>1 DEF Types
    <3>2. /\ table[n][q].version <= table[head][q].version
          /\ table[n][q].version = table[head][q].version => table[n][q] = table[head][q]
      BY <2>3, <1>1 DEF History
    <3>3. /\ table[n][q].version \in Nat /\ table[head][q].version \in Nat
          /\ new[q].version \in Nat
      BY <3>1, <1>2 DEF Rows
    <3> QED
      BY <2>3, <1>1, <1>2, <3>2, <3>3
  <2> QED
    BY <2>1, <2>2, <2>3, <1>1
<1>7. ASSUME NEW d, NEW last \in 0..head, NEW up \in last..head', Drafted(table, d, last)
      PROVE  Drafted(table', d, up)
  <2> SUFFICES ASSUME NEW q \in Stream, ReadUpTo(table, d, q, last)
               PROVE  ReadUpTo(table', d, q, up)
    BY <1>7 DEF Drafted
  <2>1. PICK n \in 0..last : /\ d.version[q] <= table[n][q].version
                             /\ q \in d.open <=> Unresolved(table[n][q].use)
    BY DEF ReadUpTo
  <2>2. n \in 0..head /\ n \in 0..up
    BY <1>1, <2>1
  <2>3. table'[n] = table[n]
    BY <2>2, <1>1
  <2> QED
    BY <2>1, <2>2, <2>3 DEF ReadUpTo
<1>8. /\ saved' = saved /\ pc' = pc /\ draft' = draft /\ dispatched' = dispatched
      /\ \A t \in Thread : /\ saved[t] \in Manifests /\ draft[t] \in Manifests
                           /\ saved[t].position \in 0..head
                           /\ draft[t].position \in 0..head
  BY DEF Types, Manifests, Placed, Kept
<1>9. Placed'
  <2> SUFFICES ASSUME NEW t \in Thread
               PROVE  /\ pc[t] \in {"aggregates", "head"} =>
                           /\ Drafted(table', draft[t], head')
                           /\ \A q \in Stream :
                                draft[t].version[q] <= table'[head'][q].version
                      /\ pc[t] # "aggregates" => draft[t].todo = {}
                      /\ draft[t].open \cap draft[t].todo = {}
                      /\ draft[t].position <= head'
                      /\ pc[t] \in {"chain", "outbox", "save"} =>
                           Drafted(table', draft[t], draft[t].position)
    BY <1>8 DEF Placed
  <2>1. ASSUME pc[t] \in {"aggregates", "head"}, NEW q \in Stream
        PROVE  draft[t].version[q] <= table'[head'][q].version
    <3>1. draft[t].version[q] <= table[head][q].version
      BY <2>1 DEF Placed
    <3>2. /\ draft[t].version[q] \in Nat /\ table[head][q].version \in Nat
          /\ new[q].version \in Nat
      BY <1>8, <1>1, <1>2 DEF Manifests, Rows
    <3> QED
      BY <1>1, <1>2, <3>1, <3>2
  <2>2. ASSUME pc[t] \in {"aggregates", "head"}
        PROVE  Drafted(table', draft[t], head')
    <3>1. Drafted(table, draft[t], head) /\ head \in 0..head /\ head' \in head..head'
      BY <2>2, <1>1 DEF Placed
    <3> QED
      BY <3>1, <1>7
  <2>3. ASSUME pc[t] \in {"chain", "outbox", "save"}
        PROVE  Drafted(table', draft[t], draft[t].position)
    <3>1. /\ Drafted(table, draft[t], draft[t].position)
          /\ draft[t].position \in draft[t].position..head'
      BY <2>3, <1>1, <1>8 DEF Placed
    <3> QED
      BY <3>1, <1>7, <1>8
  <2>4. draft[t].position <= head'
    BY <1>1, <1>8
  <2>5. /\ pc[t] # "aggregates" => draft[t].todo = {}
        /\ draft[t].open \cap draft[t].todo = {}
    BY DEF Placed
  <2> QED
    BY <2>1, <2>2, <2>3, <2>4, <2>5
<1>10. Kept'
  <2> SUFFICES ASSUME NEW t \in Thread
               PROVE  /\ Drafted(table', saved[t], saved[t].position)
                      /\ saved[t].todo = {} /\ saved[t].position <= head'
                      /\ Complete(saved[t])
                      /\ pc[t] = "save" => Complete(draft[t])
    BY <1>8 DEF Kept, Complete
  <2>1. /\ Drafted(table, saved[t], saved[t].position)
        /\ saved[t].position \in saved[t].position..head'
    BY <1>1, <1>8 DEF Kept
  <2>2. Drafted(table', saved[t], saved[t].position)
    BY <2>1, <1>7, <1>8
  <2> QED
    BY <2>2, <1>1, <1>8 DEF Kept
<1> QED
  BY <1>4, <1>6, <1>9, <1>10

LEMMA DispatchStep ==
  ASSUME IInv, Dispatch
  PROVE  IInv'
<1> USE DEF IInv, Dispatch
<1>1. dispatched \subseteq dispatched' /\ dispatched' \subseteq Nat
  BY DEF Types
<1>2. Types' /\ History'
  BY <1>1 DEF Types, History
<1>3. Placed' /\ Kept'
  BY <1>1 DEF Placed, Kept, Complete
<1> QED
  BY <1>2, <1>3

(* What is left of a step of one thread, once its own draft and row are    *)
(* shown right.                                                            *)
LEMMA OthersStay ==
  ASSUME IInv, NEW t \in Thread, UNCHANGED ledger,
         NEW d \in Manifests, NEW m \in Manifests, NEW label \in Label,
         draft' = [draft EXCEPT ![t] = d], saved' = [saved EXCEPT ![t] = m],
         pc' = [pc EXCEPT ![t] = label],
         /\ label \in {"aggregates", "head"} =>
              /\ Drafted(table, d, head)
              /\ \A s \in Stream : d.version[s] <= table[head][s].version
         /\ label # "aggregates" => d.todo = {}
         /\ d.open \cap d.todo = {} /\ d.position <= head
         /\ label \in {"chain", "outbox", "save"} => Drafted(table, d, d.position)
         /\ label = "save" => Complete(d),
         m = saved[t] \/ (m = draft[t] /\ pc[t] = "save")
  PROVE  IInv'
<1> USE DEF IInv, ledger
<1>1. Types' /\ History'
  BY DEF Types, History
<1>2. \A u \in Thread : /\ draft'[u] = IF u = t THEN d ELSE draft[u]
                        /\ saved'[u] = IF u = t THEN m ELSE saved[u]
                        /\ pc'[u] = IF u = t THEN label ELSE pc[u]
  BY DEF Types
<1>3. Placed'
  <2> SUFFICES ASSUME NEW u \in Thread
               PROVE  /\ pc'[u] \in {"aggregates", "head"} =>
                           /\ Drafted(table, draft'[u], head)
                           /\ \A s \in Stream :
                                draft'[u].version[s] <= table[head][s].version
                      /\ pc'[u] # "aggregates" => draft'[u].todo = {}
                      /\ draft'[u].open \cap draft'[u].todo = {}
                      /\ draft'[u].position <= head
                      /\ pc'[u] \in {"chain", "outbox", "save"} =>
                           Drafted(table, draft'[u], draft'[u].position)
    BY DEF Placed
  <2>1. CASE u = t
    BY <2>1, <1>2
  <2>2. CASE u # t
    BY <2>2, <1>2 DEF Placed
  <2> QED
    BY <2>1, <2>2
<1>4. /\ Drafted(table, m, m.position)
      /\ m.todo = {} /\ m.position <= head /\ Complete(m)
  BY DEF Placed, Kept
<1>5. Kept'
  <2> SUFFICES ASSUME NEW u \in Thread
               PROVE  /\ Drafted(table, saved'[u], saved'[u].position)
                      /\ saved'[u].todo = {} /\ saved'[u].position <= head
                      /\ Complete(saved'[u])
                      /\ pc'[u] = "save" => Complete(draft'[u])
    BY DEF Kept, Complete
  <2>1. CASE u = t
    BY <2>1, <1>2, <1>4
  <2>2. CASE u # t
    BY <2>2, <1>2 DEF Kept
  <2> QED
    BY <2>1, <2>2
<1> QED
  BY <1>1, <1>3, <1>5

LEMMA ReadStep ==
  ASSUME IInv, NEW t \in Thread, CreateCheckpoint(t)
  PROVE  IInv'
<1> USE DEF IInv
<1>1. /\ head \in Nat /\ table[head] \in Rows
      /\ draft[t] \in Manifests /\ saved[t] \in Manifests
      /\ draft \in [Thread -> Manifests] /\ saved \in [Thread -> Manifests]
      /\ saved = [saved EXCEPT ![t] = saved[t]]
      /\ pc = [pc EXCEPT ![t] = pc[t]]
      /\ pc[t] \in Label
  BY DEF Types
<1>2. CASE ReadAggregates(t)
  <2> DEFINE d == [NoDraft EXCEPT !.version = [s \in Stream |-> Row(s).version],
                                  !.todo = {s \in Stream : Row(s).version > 0}]
  <2>1. /\ d.version = [s \in Stream |-> Row(s).version]
        /\ d.todo = {s \in Stream : Row(s).version > 0}
        /\ d.open = {} /\ d.position = 0
    BY DEF NoDraft
  <2>2. \A s \in Stream : /\ Row(s).version \in Nat
                          /\ Row(s).version <= table[head][s].version
    BY <1>1 DEF Row, Rows
  <2>4. d \in Manifests /\ d.position <= head /\ d.open \cap d.todo = {}
    <3>1. /\ [s \in Stream |-> Row(s).version] \in [Stream -> Nat]
          /\ {s \in Stream : Row(s).version > 0} \in SUBSET Stream
      BY <2>2
    <3>2. NoDraft \in Manifests
      BY DEF NoDraft, Manifests
    <3>3. d \in Manifests
      BY <3>1, <3>2 DEF Manifests
    <3> QED
      BY <1>1, <2>1, <3>3
  <2> HIDE DEF d
  <2>5. \A s \in Stream : d.version[s] = Row(s).version
    BY <2>1
  <2>6. \A s \in Stream : d.version[s] <= table[head][s].version
    BY <2>2, <2>5
  <2>7. Drafted(table, d, head)
    BY <2>1, <2>5 DEF Drafted
  <2>3. /\ draft' = [draft EXCEPT ![t] = d] /\ pc' = [pc EXCEPT ![t] = "aggregates"]
        /\ saved' = [saved EXCEPT ![t] = saved[t]] /\ UNCHANGED ledger
    BY <1>1, <1>2 DEF ReadAggregates, d
  <2> QED
    BY <1>1, <2>3, <2>4, <2>6, <2>7, OthersStay DEF Label
<1>3. CASE ReadState(t)
  <2>1. PICK s \in draft[t].todo :
          draft' = [draft EXCEPT
                      ![t].todo = @ \ {s},
                      ![t].open = IF Unresolved(Row(s).use) THEN @ \cup {s} ELSE @]
    BY <1>3 DEF ReadState
  <2> DEFINE d == [draft[t] EXCEPT !.todo = @ \ {s},
                     !.open = IF Unresolved(Row(s).use) THEN @ \cup {s} ELSE @]
  <2>2. s \in Stream /\ pc[t] = "aggregates" /\ pc' = [pc EXCEPT ![t] = "aggregates"]
    BY <1>1, <1>3, <2>1 DEF ReadState, Manifests
  <2>3. /\ d \in Manifests /\ draft' = [draft EXCEPT ![t] = d]
        /\ d.version = draft[t].version /\ d.position = draft[t].position
        /\ d.todo = draft[t].todo \ {s}
        /\ d.open \ {s} = draft[t].open \ {s}
        /\ Unresolved(Row(s).use) => s \in d.open
        /\ ~Unresolved(Row(s).use) => d.open = draft[t].open
    BY <1>1, <2>1, <2>2 DEF Manifests
  <2> HIDE DEF d
  <2>4. /\ Drafted(table, draft[t], head) /\ s \notin draft[t].open
        /\ draft[t].open \cap draft[t].todo = {}
        /\ \A q \in Stream : draft[t].version[q] <= table[head][q].version
        /\ draft[t].position <= head
    BY <2>1, <2>2 DEF Placed
  <2>5. s \in d.open <=> Unresolved(table[head][s].use)
    BY <2>3, <2>4 DEF Row
  <2>6. Drafted(table, d, head)
    <3> SUFFICES ASSUME NEW q \in Stream, d.version[q] > 0, q \notin d.todo
                 PROVE  ReadUpTo(table, d, q, head)
      BY DEF Drafted
    <3>1. CASE q = s
      <4>1. head \in 0..head
        BY <1>1
      <4> QED
        BY <3>1, <4>1, <2>3, <2>4, <2>5 DEF ReadUpTo
    <3>2. CASE q # s
      <4>1. ReadUpTo(table, draft[t], q, head)
        BY <3>2, <2>3, <2>4 DEF Drafted
      <4>2. q \in d.open <=> q \in draft[t].open
        BY <3>2, <2>3
      <4> QED
        BY <4>1, <4>2, <2>3 DEF ReadUpTo
    <3> QED
      BY <3>1, <3>2
  <2>7. d.open \cap d.todo = {}
    BY <2>3, <2>4
  <2>8. saved' = [saved EXCEPT ![t] = saved[t]] /\ UNCHANGED ledger
    BY <1>1, <1>3 DEF ReadState
  <2> QED
    BY <1>1, <2>2, <2>3, <2>4, <2>6, <2>7, <2>8, OthersStay DEF Label
<1>4. CASE StatesRead(t)
  <2>1. /\ draft[t].todo = {} /\ draft' = [draft EXCEPT ![t] = draft[t]]
        /\ pc[t] = "aggregates" /\ pc' = [pc EXCEPT ![t] = "head"]
        /\ saved' = [saved EXCEPT ![t] = saved[t]] /\ UNCHANGED ledger
    BY <1>1, <1>4 DEF StatesRead, Read, Then
  <2>2. /\ Drafted(table, draft[t], head) /\ draft[t].position <= head
        /\ \A s \in Stream : draft[t].version[s] <= table[head][s].version
    BY <2>1 DEF Placed
  <2> QED
    BY <1>1, <2>1, <2>2, OthersStay DEF Label
<1>5. CASE ReadHead(t)
  <2> DEFINE d == [draft[t] EXCEPT !.position = head]
  <2>1. /\ d \in Manifests /\ d.position = head /\ d.todo = draft[t].todo
        /\ d.version = draft[t].version /\ d.open = draft[t].open
    BY <1>1 DEF Manifests
  <2>2. /\ pc[t] = "head" /\ pc' = [pc EXCEPT ![t] = "chain"]
        /\ draft' = [draft EXCEPT ![t] = d]
        /\ saved' = [saved EXCEPT ![t] = saved[t]] /\ UNCHANGED ledger
    BY <1>1, <1>5 DEF ReadHead, Read, Then
  <2> HIDE DEF d
  <2>3. Drafted(table, d, d.position) /\ d.todo = {} /\ d.position <= head
    BY <1>1, <2>1, <2>2 DEF Placed, Drafted, ReadUpTo
  <2> QED
    BY <1>1, <2>1, <2>2, <2>3, OthersStay DEF Label
<1>6. CASE ReadChain(t)
  <2> DEFINE d == [draft[t] EXCEPT !.chain = head]
  <2>1. /\ d \in Manifests /\ d.position = draft[t].position /\ d.todo = draft[t].todo
        /\ d.version = draft[t].version /\ d.open = draft[t].open
    BY <1>1 DEF Manifests
  <2>2. /\ pc[t] = "chain" /\ pc' = [pc EXCEPT ![t] = "outbox"]
        /\ draft' = [draft EXCEPT ![t] = d]
        /\ saved' = [saved EXCEPT ![t] = saved[t]] /\ UNCHANGED ledger
    BY <1>1, <1>6 DEF ReadChain, Read, Then
  <2> HIDE DEF d
  <2>3. Drafted(table, d, d.position) /\ d.todo = {} /\ d.position <= head
    BY <2>1, <2>2 DEF Placed, Drafted, ReadUpTo
  <2> QED
    BY <1>1, <2>1, <2>2, <2>3, OthersStay DEF Label
<1>7. CASE ReadOutbox(t)
  <2> DEFINE d == [draft[t] EXCEPT !.pending = (1..head) \ dispatched]
  <2>1. /\ d \in Manifests /\ d.position = draft[t].position /\ d.todo = draft[t].todo
        /\ d.version = draft[t].version /\ d.open = draft[t].open
        /\ d.pending = (1..head) \ dispatched
    <3>1. (1..head) \ dispatched \in SUBSET Nat
      BY <1>1
    <3> QED
      BY <1>1, <3>1 DEF Manifests
  <2>2. /\ pc[t] = "outbox" /\ pc' = [pc EXCEPT ![t] = "save"]
        /\ draft' = [draft EXCEPT ![t] = d]
        /\ saved' = [saved EXCEPT ![t] = saved[t]] /\ UNCHANGED ledger
    BY <1>1, <1>7 DEF ReadOutbox, Read, Then
  <2> HIDE DEF d
  <2>3. Drafted(table, d, d.position) /\ d.todo = {} /\ d.position <= head
    BY <2>1, <2>2 DEF Placed, Drafted, ReadUpTo
  <2>4. d.position \in Nat
    BY <2>1, <1>1 DEF Manifests
  <2>5. Complete(d)
    BY <1>1, <2>1, <2>3, <2>4 DEF Complete
  <2> QED
    BY <1>1, <2>1, <2>2, <2>3, <2>5, OthersStay DEF Label
<1>8. CASE Save(t)
  <2>1. /\ NoDraft \in Manifests /\ NoDraft.todo = {} /\ NoDraft.position = 0
        /\ NoDraft.open = {} /\ \A s \in Stream : NoDraft.version[s] = 0
    BY DEF NoDraft, Manifests
  <2>2. /\ pc[t] = "save" /\ pc' = [pc EXCEPT ![t] = "idle"]
        /\ draft' = [draft EXCEPT ![t] = NoDraft]
        /\ saved' = [saved EXCEPT ![t] = draft[t]] /\ UNCHANGED ledger
    BY <1>8 DEF Save
  <2>3. NoDraft.position <= head /\ NoDraft.open \cap NoDraft.todo = {}
    BY <1>1, <2>1
  <2> HIDE DEF NoDraft
  <2> QED
    BY <1>1, <2>1, <2>2, <2>3, OthersStay DEF Label
<1> QED
  BY <1>2, <1>3, <1>4, <1>5, <1>6, <1>7, <1>8 DEF CreateCheckpoint
-----------------------------------------------------------------------------
LEMMA NextIInv == IInv /\ [Next]_vars => IInv'
<1> SUFFICES ASSUME IInv, [Next]_vars PROVE IInv'
  OBVIOUS
<1>1. CASE UNCHANGED vars
  BY <1>1 DEF IInv, Types, History, Placed, Kept, Complete, vars, ledger
<1>2. ASSUME NEW s \in Stream, Issue(s) \/ Change(s) \/ ReserveUse(s) \/ FinalizeUse(s)
      PROVE  IInv'
  <2>1. Row(s).use \in Use
    BY DEF IInv, Types, Row, Rows
  <2>2. \E use \in Use : Append(s, use)
    BY <1>2, <2>1 DEF Issue, Change, ReserveUse, FinalizeUse, Use
  <2> QED
    BY <2>2, AppendStep
<1>3. CASE Dispatch
  BY <1>3, DispatchStep
<1>4. ASSUME NEW t \in Thread, CreateCheckpoint(t)
      PROVE  IInv'
  BY <1>4, ReadStep
<1> QED
  BY <1>1, <1>2, <1>3, <1>4 DEF Next

LEMMA Invariance == Spec => []IInv
  BY InitIInv, NextIInv, PTL DEF Spec

(* Of the streams an accepted checkpoint lists, it names exactly those     *)
(* with unresolved uses at its position, whoever committed meanwhile.      *)
THEOREM AcceptedIsExactTheorem == Spec => []AcceptedIsExact
<1>1. IInv => AcceptedIsExact
  <2> SUFFICES ASSUME IInv, NEW t \in Thread, Accepts(saved[t]),
                      NEW s \in Listed(saved[t])
               PROVE  s \in saved[t].open <=>
                        table[saved[t].position][s].use \in {"open", "awaiting_reconciliation"}
    BY DEF AcceptedIsExact
  <2> DEFINE m == saved[t]
             p == m.position
  <2>1. /\ m \in Manifests /\ p \in 0..head /\ s \in Stream /\ m.todo = {}
        /\ head \in Nat /\ table \in [0..head -> Rows]
        /\ m.version[s] > 0 /\ Drafted(table, m, p)
    BY DEF IInv, Types, Kept, Manifests, Listed
  <2>2. PICK n \in 0..p : /\ m.version[s] <= table[n][s].version
                          /\ s \in m.open <=> Unresolved(table[n][s].use)
    BY <2>1 DEF Drafted, ReadUpTo
  <2>3. n \in 0..head /\ n <= p
    BY <2>1, <2>2
  <2>4. table[p][s].version = m.version[s]
    BY DEF Accepts
  <2>5. /\ table[n][s].version <= table[p][s].version
        /\ table[n][s].version = table[p][s].version => table[n][s] = table[p][s]
    BY <2>1, <2>3 DEF IInv, History
  <2>6. table[n][s].version \in Nat /\ table[p][s].version \in Nat
    BY <2>1, <2>3 DEF Rows
  <2>7. table[n][s] = table[p][s]
    BY <2>2, <2>4, <2>5, <2>6
  <2> QED
    BY <2>2, <2>7 DEF Unresolved
<1> QED
  BY <1>1, Invariance, PTL

(* No event up to the position of a checkpoint is missing in its outbox    *)
(* unless it was dispatched.                                               *)
THEOREM OutboxCompleteTheorem == Spec => []OutboxComplete
<1>1. IInv => OutboxComplete
  BY DEF IInv, Kept, Complete, OutboxComplete
<1> QED
  BY <1>1, Invariance, PTL
=============================================================================
