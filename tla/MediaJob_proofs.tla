--------------------------- MODULE MediaJob_proofs ---------------------------
(***************************************************************************)
(* Proofs about MediaJob, for any number of threads and of restarts.       *)
(***************************************************************************)
EXTENDS MediaJob, TLAPS

Submitting == {"claim", "record", "post", "accepted", "store", "stored", "unknown"}
Polling == {"get status", "write status"}
Owning == {"download", "finish", "settle claim"}
Fetching == {"claim download", "download", "finish", "settle claim"}

(* Before the admission nothing has happened.                              *)
ApprovedIsFresh ==
  approval = "approved" =>
    /\ run = "absent" /\ boundary = "not_dispatched"
    /\ receipt = NoReceipt /\ download = "none" /\ posts = 0 /\ gets = 0

(* One thread submits: the admission picks it.  Until it is done nobody    *)
(* polls or downloads, and its place tells what has left.                  *)
OneSubmits ==
  /\ \A v, w \in Worker : pc[v] \in Submitting /\ pc[w] \in Submitting => v = w
  /\ \A w \in Worker : pc[w] \in Submitting =>
       /\ approval = "consumed" /\ run # "failed" /\ download = "none" /\ gets = 0
       /\ receipt = [state |-> IF pc[w] = "claim" THEN "none" ELSE "claimed",
                     artifact |-> FALSE]
       /\ pc[w] \in {"claim", "record", "post"} => posts = 0
       /\ pc[w] \in {"accepted", "store", "stored"} => posts = 1
       /\ pc[w] \notin {"claim", "record"} => boundary = "request_started"
       /\ pc[w] = "stored" => stored

(* What was paid shows in the boundary, the receipt and the provider.      *)
PaidShows ==
  /\ posts = 1 => boundary = "request_started" /\ receipt.state # "none" /\ provider # "none"
  /\ provider # "none" => posts = 1
  /\ boundary = "request_started" => run # "failed"

(* A receipt a thread holds was in the table, and is as well backed.       *)
CopyBacked ==
  \A w \in Worker :
    /\ copy[w].artifact => stored
    /\ pc[w] \in Polling \cup Fetching =>
         posts = 1 /\ receipt.state \notin {"none", "claimed"}
    /\ pc[w] \in Fetching => provider = "done"
    /\ pc[w] = "write status" /\ answer[w] # "running" => provider = answer[w]

(* One thread downloads: the claim picks it.                               *)
OneDownloads ==
  /\ \A v, w \in Worker : pc[v] \in Owning /\ pc[w] \in Owning => v = w
  /\ \A w \in Worker :
       /\ pc[w] = "download" => download = "claimed" /\ gets = 0
       /\ pc[w] \in {"finish", "settle claim"} => download # "none" /\ stored
  /\ download = "none" => gets = 0

IInv ==
  /\ MediaTypeOK /\ ApprovedIsFresh /\ OneSubmits /\ PaidShows /\ CopyBacked /\ OneDownloads
  /\ posts <= 1 /\ DownloadedOnce /\ ReceiptBacked
-----------------------------------------------------------------------------
(* The initial state satisfies the invariant. *)
LEMMA InitIInv == Init => IInv
<1> SUFFICES ASSUME Init PROVE IInv
  OBVIOUS
<1> USE DEF Init, NoReceipt
<1>1. MediaTypeOK
  BY MediaAssumption DEF MediaTypeOK, Receipts
<1>2. ApprovedIsFresh /\ OneSubmits /\ PaidShows
  BY DEF ApprovedIsFresh, OneSubmits, PaidShows, Submitting
<1>3. CopyBacked /\ OneDownloads
  BY DEF CopyBacked, OneDownloads, Polling, Fetching, Owning
<1>4. posts <= 1 /\ DownloadedOnce /\ ReceiptBacked
  BY DEF DownloadedOnce, ReceiptBacked
<1> QED
  BY <1>1, <1>2, <1>3, <1>4 DEF IInv

(* What holds while a thread submits ... *)
LEMMA WhileSubmitting ==
  ASSUME IInv, NEW w \in Worker, pc[w] \in Submitting
  PROVE  /\ approval = "consumed" /\ run # "failed" /\ download = "none" /\ gets = 0
         /\ receipt = [state |-> IF pc[w] = "claim" THEN "none" ELSE "claimed",
                       artifact |-> FALSE]
         /\ pc[w] \in {"claim", "record", "post"} => posts = 0 /\ provider = "none"
         /\ pc[w] \in {"accepted", "store", "stored"} => posts = 1
         /\ pc[w] \notin {"claim", "record"} => boundary = "request_started"
         /\ pc[w] = "stored" => stored
         /\ \A v \in Worker : pc[v] \in Submitting => v = w
         /\ \A v \in Worker : pc[v] \notin Polling /\ pc[v] \notin Fetching
<1>1. /\ approval = "consumed" /\ run # "failed" /\ download = "none" /\ gets = 0
      /\ receipt = [state |-> IF pc[w] = "claim" THEN "none" ELSE "claimed",
                    artifact |-> FALSE]
      /\ pc[w] \in {"claim", "record", "post"} => posts = 0
      /\ pc[w] \in {"accepted", "store", "stored"} => posts = 1
      /\ pc[w] \notin {"claim", "record"} => boundary = "request_started"
      /\ pc[w] = "stored" => stored
      /\ \A v \in Worker : pc[v] \in Submitting => v = w
  BY DEF IInv, OneSubmits
<1>2. receipt.state \in {"none", "claimed"}
  BY <1>1
<1>3. \A v \in Worker : pc[v] \notin Polling /\ pc[v] \notin Fetching
  BY <1>2 DEF IInv, CopyBacked
<1>4. posts = 0 => provider = "none"
  BY DEF IInv, PaidShows
<1> QED
  BY <1>1, <1>3, <1>4

(* ... and after a submission that was answered. *)
LEMMA OnceAnswered ==
  ASSUME IInv, posts = 1, receipt.state \notin {"none", "claimed"}
  PROVE  /\ approval = "consumed" /\ boundary = "request_started" /\ run # "failed"
         /\ provider # "none" /\ \A v \in Worker : pc[v] \notin Submitting
<1>1. \A v \in Worker : pc[v] \notin Submitting
  <2> SUFFICES ASSUME NEW v \in Worker, pc[v] \in Submitting PROVE FALSE
    OBVIOUS
  <2>1. receipt = [state |-> IF pc[v] = "claim" THEN "none" ELSE "claimed", artifact |-> FALSE]
    BY WhileSubmitting
  <2> QED
    BY <2>1
<1>2. approval = "consumed"
  <2>1. approval \in {"approved", "consumed"}
    BY DEF IInv, MediaTypeOK
  <2> QED
    BY <2>1 DEF IInv, ApprovedIsFresh
<1> QED
  BY <1>1, <1>2 DEF IInv, PaidShows

LEMMA WhilePolling ==
  ASSUME IInv, NEW w \in Worker, pc[w] \in Polling \cup Fetching
  PROVE  /\ posts = 1 /\ receipt.state \notin {"none", "claimed"}
         /\ approval = "consumed" /\ boundary = "request_started" /\ run # "failed"
         /\ provider # "none" /\ \A v \in Worker : pc[v] \notin Submitting
         /\ copy[w].artifact => stored
         /\ pc[w] \in Fetching => provider = "done"
         /\ pc[w] = "write status" /\ answer[w] # "running" => provider = answer[w]
<1>1. /\ posts = 1 /\ receipt.state \notin {"none", "claimed"}
      /\ copy[w].artifact => stored
      /\ pc[w] \in Fetching => provider = "done"
      /\ pc[w] = "write status" /\ answer[w] # "running" => provider = answer[w]
  BY DEF IInv, CopyBacked
<1> QED
  BY <1>1, OnceAnswered

LEMMA Told ==
  ASSUME IInv, NEW w \in Worker, pc[w] = "write status"
  PROVE  answer[w] \in {"running", "done", "error"}
  BY DEF IInv, MediaTypeOK

LEMMA Readable ==
  ASSUME IInv, receipt.state \in {"submitted", "processing", "ready_to_download"}
  PROVE  /\ posts = 1 /\ provider # "none"
         /\ \A v \in Worker : pc[v] \notin Submitting
         /\ receipt.artifact => stored
         /\ receipt.state = "ready_to_download" => provider = "done"
<1>1. posts = 1
  BY DEF IInv, ReceiptBacked, PaidShows
<1> QED
  BY <1>1, OnceAnswered DEF IInv, ReceiptBacked

(* Nothing is paid or written yet. *)
LEMMA SubmitStep ==
  ASSUME IInv, NEW w \in Worker, Submit(w)
  PROVE  IInv'
<1>1. /\ pc[w] = "idle" /\ pc' = [pc EXCEPT ![w] = "admit"]
      /\ UNCHANGED <<async, approval, run, boundary, receipt, download, provider, posts, gets, stored, copy, answer, crashes>>
  BY DEF Submit, Proceed, Goto, WriteReceipt, Read, admission, job, external
<1>2. /\ pc'[w] = "admit" /\ \A v \in Worker : v # w => pc'[v] = pc[v]
  BY <1>1 DEF IInv, MediaTypeOK
<1>4. MediaTypeOK'
  BY <1>1, <1>2 DEF IInv, MediaTypeOK
<1>5. ApprovedIsFresh'
  BY <1>1, <1>2 DEF IInv, ApprovedIsFresh
<1>6. OneSubmits'
  BY <1>1, <1>2 DEF IInv, OneSubmits, Submitting
<1>7. PaidShows'
  BY <1>1, <1>2 DEF IInv, PaidShows
<1>8. CopyBacked'
  BY <1>1, <1>2 DEF IInv, CopyBacked, Polling, Fetching
<1>9. OneDownloads'
  BY <1>1, <1>2 DEF IInv, OneDownloads, Owning
<1>10. (posts <= 1)' /\ DownloadedOnce' /\ ReceiptBacked'
  BY <1>1, <1>2 DEF IInv, DownloadedOnce, ReceiptBacked
<1> QED
  BY <1>4, <1>5, <1>6, <1>7, <1>8, <1>9, <1>10 DEF IInv

(* The thread that is admitted is the only one to submit. *)
LEMMA AdmitStep ==
  ASSUME IInv, NEW w \in Worker, Admit(w)
  PROVE  IInv'
<1>1. ASSUME approval = "approved" PROVE IInv'
  <2>1. /\ pc[w] = "admit" /\ pc' = [pc EXCEPT ![w] = "claim"]
        /\ approval' = "consumed"
        /\ run' = "created"
        /\ UNCHANGED <<async, boundary, receipt, download, provider, posts, gets, stored, copy, answer, crashes>>
    BY <1>1 DEF Admit, Proceed, Goto, WriteReceipt, Read, admission, job, external
  <2>2. /\ pc'[w] = "claim" /\ \A v \in Worker : v # w => pc'[v] = pc[v]
    BY <2>1 DEF IInv, MediaTypeOK
  <2>3. /\ receipt = NoReceipt /\ download = "none" /\ gets = 0 /\ posts = 0
        /\ boundary = "not_dispatched" /\ approval = "approved"
        /\ \A v \in Worker : pc[v] \notin Submitting
        /\ \A v \in Worker : pc[v] \notin Polling /\ pc[v] \notin Fetching
    BY <1>1, <2>1, <2>2, WhileSubmitting, WhilePolling DEF IInv, ApprovedIsFresh
  <2>4. MediaTypeOK'
    BY <2>1, <2>2, <2>3 DEF IInv, MediaTypeOK
  <2>5. ApprovedIsFresh'
    BY <2>1, <2>2, <2>3 DEF IInv, ApprovedIsFresh
  <2>6. OneSubmits'
    BY <2>1, <2>2, <2>3 DEF IInv, OneSubmits, Submitting, NoReceipt
  <2>7. PaidShows'
    BY <2>1, <2>2, <2>3 DEF IInv, PaidShows
  <2>8. CopyBacked'
    BY <2>1, <2>2, <2>3 DEF IInv, CopyBacked, Polling, Fetching
  <2>9. OneDownloads'
    BY <2>1, <2>2, <2>3 DEF IInv, OneDownloads, Owning
  <2>10. (posts <= 1)' /\ DownloadedOnce' /\ ReceiptBacked'
    BY <2>1, <2>2, <2>3 DEF IInv, DownloadedOnce, ReceiptBacked, NoReceipt
  <2> QED
    BY <2>4, <2>5, <2>6, <2>7, <2>8, <2>9, <2>10 DEF IInv
<1>2. ASSUME approval # "approved" PROVE IInv'
  <2>1. /\ pc[w] = "admit" /\ pc' = [pc EXCEPT ![w] = "idle"]
        /\ UNCHANGED <<async, approval, run, boundary, receipt, download, provider, posts, gets, stored, copy, answer, crashes>>
    BY <1>2 DEF Admit, Proceed, Goto, WriteReceipt, Read, admission, job, external
  <2>2. /\ pc'[w] = "idle" /\ \A v \in Worker : v # w => pc'[v] = pc[v]
    BY <2>1 DEF IInv, MediaTypeOK
  <2>4. MediaTypeOK'
    BY <2>1, <2>2 DEF IInv, MediaTypeOK
  <2>5. ApprovedIsFresh'
    BY <2>1, <2>2 DEF IInv, ApprovedIsFresh
  <2>6. OneSubmits'
    BY <2>1, <2>2 DEF IInv, OneSubmits, Submitting
  <2>7. PaidShows'
    BY <2>1, <2>2 DEF IInv, PaidShows
  <2>8. CopyBacked'
    BY <2>1, <2>2 DEF IInv, CopyBacked, Polling, Fetching
  <2>9. OneDownloads'
    BY <2>1, <2>2 DEF IInv, OneDownloads, Owning
  <2>10. (posts <= 1)' /\ DownloadedOnce' /\ ReceiptBacked'
    BY <2>1, <2>2 DEF IInv, DownloadedOnce, ReceiptBacked
  <2> QED
    BY <2>4, <2>5, <2>6, <2>7, <2>8, <2>9, <2>10 DEF IInv
<1> QED
  BY <1>1, <1>2 DEF Admit, Proceed, Goto, WriteReceipt, Read, admission, job, external

(* The job is claimed before the boundary. *)
LEMMA ClaimJobStep ==
  ASSUME IInv, NEW w \in Worker, ClaimJob(w)
  PROVE  IInv'
<1>1. /\ pc[w] = "claim" /\ pc' = [pc EXCEPT ![w] = "record"]
      /\ receipt' = [receipt EXCEPT !.state = "claimed"]
      /\ UNCHANGED <<async, approval, run, boundary, download, provider, posts, gets, stored, copy, answer, crashes>>
  BY DEF ClaimJob, Proceed, Goto, WriteReceipt, Read, admission, job, external
<1>2. /\ pc'[w] = "record" /\ \A v \in Worker : v # w => pc'[v] = pc[v]
  BY <1>1 DEF IInv, MediaTypeOK
<1>3. /\ approval = "consumed" /\ run # "failed" /\ download = "none" /\ gets = 0
      /\ \A v \in Worker : pc[v] \in Submitting => v = w
      /\ \A v \in Worker : pc[v] \notin Polling /\ pc[v] \notin Fetching
      /\ receipt = [state |-> "none", artifact |-> FALSE] /\ posts = 0
      /\ receipt' = [state |-> "claimed", artifact |-> FALSE]
  <2>1. /\ approval = "consumed" /\ run # "failed" /\ download = "none" /\ gets = 0
        /\ \A v \in Worker : pc[v] \in Submitting => v = w
        /\ \A v \in Worker : pc[v] \notin Polling /\ pc[v] \notin Fetching
        /\ receipt = [state |-> "none", artifact |-> FALSE] /\ posts = 0
    BY <1>1, WhileSubmitting DEF Submitting
  <2>2. receipt \in Receipts
    BY DEF IInv, MediaTypeOK
  <2>3. /\ receipt' \in Receipts
        /\ receipt'.state = "claimed" /\ receipt'.artifact = receipt.artifact
    BY <1>1, <2>2 DEF Receipts
  <2>4. receipt.artifact = FALSE
    BY <2>1
  <2>5. receipt' = [state |-> "claimed", artifact |-> FALSE]
    BY <2>3, <2>4 DEF Receipts
  <2> QED
    BY <2>1, <2>5
<1>4. MediaTypeOK'
  BY <1>1, <1>2, <1>3 DEF IInv, MediaTypeOK, Receipts
<1>5. ApprovedIsFresh'
  BY <1>1, <1>2, <1>3 DEF IInv, ApprovedIsFresh
<1>6. OneSubmits'
  BY <1>1, <1>2, <1>3 DEF IInv, OneSubmits, Submitting
<1>7. PaidShows'
  BY <1>1, <1>2, <1>3 DEF IInv, PaidShows
<1>8. CopyBacked'
  BY <1>1, <1>2, <1>3 DEF IInv, CopyBacked, Polling, Fetching
<1>9. OneDownloads'
  BY <1>1, <1>2, <1>3 DEF IInv, OneDownloads, Owning
<1>10. (posts <= 1)' /\ DownloadedOnce' /\ ReceiptBacked'
  BY <1>1, <1>2, <1>3 DEF IInv, DownloadedOnce, ReceiptBacked
<1> QED
  BY <1>4, <1>5, <1>6, <1>7, <1>8, <1>9, <1>10 DEF IInv

(* The boundary is durable before the request. *)
LEMMA RecordBoundaryStep ==
  ASSUME IInv, NEW w \in Worker, RecordBoundary(w)
  PROVE  IInv'
<1>1. /\ pc[w] = "record" /\ pc' = [pc EXCEPT ![w] = "post"]
      /\ boundary' = "request_started"
      /\ UNCHANGED <<async, approval, run, receipt, download, provider, posts, gets, stored, copy, answer, crashes>>
  BY DEF RecordBoundary, Proceed, Goto, WriteReceipt, Read, admission, job, external
<1>2. /\ pc'[w] = "post" /\ \A v \in Worker : v # w => pc'[v] = pc[v]
  BY <1>1 DEF IInv, MediaTypeOK
<1>3. /\ approval = "consumed" /\ run # "failed" /\ download = "none" /\ gets = 0
      /\ \A v \in Worker : pc[v] \in Submitting => v = w
      /\ \A v \in Worker : pc[v] \notin Polling /\ pc[v] \notin Fetching
      /\ receipt = [state |-> "claimed", artifact |-> FALSE] /\ posts = 0
  BY <1>1, <1>2, WhileSubmitting DEF Submitting
<1>4. MediaTypeOK'
  BY <1>1, <1>2, <1>3 DEF IInv, MediaTypeOK
<1>5. ApprovedIsFresh'
  BY <1>1, <1>2, <1>3 DEF IInv, ApprovedIsFresh
<1>6. OneSubmits'
  BY <1>1, <1>2, <1>3 DEF IInv, OneSubmits, Submitting
<1>7. PaidShows'
  BY <1>1, <1>2, <1>3 DEF IInv, PaidShows
<1>8. CopyBacked'
  BY <1>1, <1>2, <1>3 DEF IInv, CopyBacked, Polling, Fetching
<1>9. OneDownloads'
  BY <1>1, <1>2, <1>3 DEF IInv, OneDownloads, Owning
<1>10. (posts <= 1)' /\ DownloadedOnce' /\ ReceiptBacked'
  BY <1>1, <1>2, <1>3 DEF IInv, DownloadedOnce, ReceiptBacked
<1> QED
  BY <1>4, <1>5, <1>6, <1>7, <1>8, <1>9, <1>10 DEF IInv

(* The one submission. *)
LEMMA PostStep ==
  ASSUME IInv, NEW w \in Worker, Post(w)
  PROVE  IInv'
<1> DEFINE place == IF async THEN "accepted" ELSE "store"
           told == IF async THEN "running" ELSE "done"
<1>a. place \in {"accepted", "store"} /\ told \in {"running", "done"}
  OBVIOUS
<1>1. /\ pc[w] = "post" /\ pc' = [pc EXCEPT ![w] = place]
      /\ posts' = posts + 1
      /\ provider' = told
      /\ UNCHANGED <<async, approval, run, boundary, receipt, download, gets, stored, copy, answer, crashes>>
  BY DEF Post, Proceed, Goto, WriteReceipt, Read, admission, job, external
<1> HIDE DEF place, told
<1>2. /\ pc'[w] = place /\ \A v \in Worker : v # w => pc'[v] = pc[v]
  BY <1>1 DEF IInv, MediaTypeOK
<1>3. /\ approval = "consumed" /\ run # "failed" /\ download = "none" /\ gets = 0
      /\ \A v \in Worker : pc[v] \in Submitting => v = w
      /\ \A v \in Worker : pc[v] \notin Polling /\ pc[v] \notin Fetching
      /\ receipt = [state |-> "claimed", artifact |-> FALSE] /\ posts = 0 /\ boundary = "request_started"
      /\ posts' = 1 /\ provider' \in {"running", "done"}
      /\ pc'[w] \in {"accepted", "store"}
  BY <1>a, <1>1, <1>2, WhileSubmitting DEF Submitting
<1>4. MediaTypeOK'
  <2>1. pc' \in [Worker -> {"idle", "admit", "claim", "record", "post", "accepted", "store",
                            "stored", "unknown", "get status", "write status",
                            "claim download", "download", "finish", "settle claim"}]
    BY <1>a, <1>1 DEF IInv, MediaTypeOK
  <2>2. provider' \in {"none", "running", "done", "error"} /\ posts' \in Nat
    BY <1>a, <1>1, <1>3
  <2>3. \A v \in Worker : pc'[v] = "write status" => answer'[v] # "none"
    BY <1>a, <1>1, <1>2 DEF IInv, MediaTypeOK
  <2> QED
    BY <1>1, <2>1, <2>2, <2>3 DEF IInv, MediaTypeOK
<1>5. ApprovedIsFresh'
  BY <1>1, <1>2, <1>3 DEF IInv, ApprovedIsFresh
<1>6. OneSubmits'
  BY <1>1, <1>2, <1>3 DEF IInv, OneSubmits, Submitting
<1>7. PaidShows'
  BY <1>1, <1>2, <1>3 DEF IInv, PaidShows
<1>8. CopyBacked'
  BY <1>1, <1>2, <1>3 DEF IInv, CopyBacked, Polling, Fetching
<1>9. OneDownloads'
  BY <1>1, <1>2, <1>3 DEF IInv, OneDownloads, Owning
<1>10. (posts <= 1)' /\ DownloadedOnce' /\ ReceiptBacked'
  BY <1>1, <1>2, <1>3 DEF IInv, DownloadedOnce, ReceiptBacked
<1> QED
  BY <1>4, <1>5, <1>6, <1>7, <1>8, <1>9, <1>10 DEF IInv

(* A synchronous answer goes to disk. *)
LEMMA StoreStep ==
  ASSUME IInv, NEW w \in Worker, Store(w)
  PROVE  IInv'
<1>1. /\ pc[w] = "store" /\ pc' = [pc EXCEPT ![w] = "stored"]
      /\ stored' = TRUE
      /\ UNCHANGED <<async, approval, run, boundary, receipt, download, provider, posts, gets, copy, answer, crashes>>
  BY DEF Store, Proceed, Goto, WriteReceipt, Read, admission, job, external
<1>2. /\ pc'[w] = "stored" /\ \A v \in Worker : v # w => pc'[v] = pc[v]
  BY <1>1 DEF IInv, MediaTypeOK
<1>3. /\ approval = "consumed" /\ run # "failed" /\ download = "none" /\ gets = 0
      /\ \A v \in Worker : pc[v] \in Submitting => v = w
      /\ \A v \in Worker : pc[v] \notin Polling /\ pc[v] \notin Fetching
      /\ receipt = [state |-> "claimed", artifact |-> FALSE] /\ posts = 1 /\ boundary = "request_started"
  BY <1>1, <1>2, WhileSubmitting DEF Submitting
<1>4. MediaTypeOK'
  BY <1>1, <1>2, <1>3 DEF IInv, MediaTypeOK
<1>5. ApprovedIsFresh'
  BY <1>1, <1>2, <1>3 DEF IInv, ApprovedIsFresh
<1>6. OneSubmits'
  BY <1>1, <1>2, <1>3 DEF IInv, OneSubmits, Submitting
<1>7. PaidShows'
  BY <1>1, <1>2, <1>3 DEF IInv, PaidShows
<1>8. CopyBacked'
  BY <1>1, <1>2, <1>3 DEF IInv, CopyBacked, Polling, Fetching
<1>9. OneDownloads'
  BY <1>1, <1>2, <1>3 DEF IInv, OneDownloads, Owning
<1>10. (posts <= 1)' /\ DownloadedOnce' /\ ReceiptBacked'
  BY <1>1, <1>2, <1>3 DEF IInv, DownloadedOnce, ReceiptBacked
<1> QED
  BY <1>4, <1>5, <1>6, <1>7, <1>8, <1>9, <1>10 DEF IInv

(* The submission ends with the receipt. *)
LEMMA AnsweredStep ==
  ASSUME IInv, NEW w \in Worker, Answered(w)
  PROVE  IInv'
<1>1. ASSUME pc[w] = "accepted" PROVE IInv'
  <2>1. /\ pc[w] = "accepted" /\ pc' = [pc EXCEPT ![w] = "idle"]
        /\ receipt' = [state |-> "submitted", artifact |-> FALSE]
        /\ UNCHANGED <<async, approval, run, boundary, download, provider, posts, gets, stored, copy, answer, crashes>>
    BY <1>1 DEF Answered, Proceed, Goto, WriteReceipt, Read, admission, job, external
  <2>2. /\ pc'[w] = "idle" /\ \A v \in Worker : v # w => pc'[v] = pc[v]
    BY <2>1 DEF IInv, MediaTypeOK
  <2>3. /\ approval = "consumed" /\ run # "failed" /\ download = "none" /\ gets = 0
        /\ \A v \in Worker : pc[v] \in Submitting => v = w
        /\ \A v \in Worker : pc[v] \notin Polling /\ pc[v] \notin Fetching
        /\ receipt = [state |-> "claimed", artifact |-> FALSE] /\ posts = 1 /\ boundary = "request_started"
    BY <1>1, <2>1, <2>2, WhileSubmitting DEF Submitting
  <2>4. MediaTypeOK'
    BY <2>1, <2>2, <2>3 DEF IInv, MediaTypeOK, Receipts
  <2>5. ApprovedIsFresh'
    BY <2>1, <2>2, <2>3 DEF IInv, ApprovedIsFresh
  <2>6. OneSubmits'
    BY <2>1, <2>2, <2>3 DEF IInv, OneSubmits, Submitting
  <2>7. PaidShows'
    BY <2>1, <2>2, <2>3 DEF IInv, PaidShows
  <2>8. CopyBacked'
    BY <2>1, <2>2, <2>3 DEF IInv, CopyBacked, Polling, Fetching
  <2>9. OneDownloads'
    BY <2>1, <2>2, <2>3 DEF IInv, OneDownloads, Owning
  <2>10. (posts <= 1)' /\ DownloadedOnce' /\ ReceiptBacked'
    BY <2>1, <2>2, <2>3 DEF IInv, DownloadedOnce, ReceiptBacked
  <2> QED
    BY <2>4, <2>5, <2>6, <2>7, <2>8, <2>9, <2>10 DEF IInv
<1>2. ASSUME pc[w] = "stored" PROVE IInv'
  <2>1. /\ pc[w] = "stored" /\ pc' = [pc EXCEPT ![w] = "idle"]
        /\ receipt' = [state |-> "completed", artifact |-> TRUE]
        /\ UNCHANGED <<async, approval, run, boundary, download, provider, posts, gets, stored, copy, answer, crashes>>
    BY <1>2 DEF Answered, Proceed, Goto, WriteReceipt, Read, admission, job, external
  <2>2. /\ pc'[w] = "idle" /\ \A v \in Worker : v # w => pc'[v] = pc[v]
    BY <2>1 DEF IInv, MediaTypeOK
  <2>3. /\ approval = "consumed" /\ run # "failed" /\ download = "none" /\ gets = 0
        /\ \A v \in Worker : pc[v] \in Submitting => v = w
        /\ \A v \in Worker : pc[v] \notin Polling /\ pc[v] \notin Fetching
        /\ receipt = [state |-> "claimed", artifact |-> FALSE] /\ posts = 1 /\ boundary = "request_started" /\ stored
    BY <1>2, <2>1, <2>2, WhileSubmitting DEF Submitting
  <2>4. MediaTypeOK'
    BY <2>1, <2>2, <2>3 DEF IInv, MediaTypeOK, Receipts
  <2>5. ApprovedIsFresh'
    BY <2>1, <2>2, <2>3 DEF IInv, ApprovedIsFresh
  <2>6. OneSubmits'
    BY <2>1, <2>2, <2>3 DEF IInv, OneSubmits, Submitting
  <2>7. PaidShows'
    BY <2>1, <2>2, <2>3 DEF IInv, PaidShows
  <2>8. CopyBacked'
    BY <2>1, <2>2, <2>3 DEF IInv, CopyBacked, Polling, Fetching
  <2>9. OneDownloads'
    BY <2>1, <2>2, <2>3 DEF IInv, OneDownloads, Owning
  <2>10. (posts <= 1)' /\ DownloadedOnce' /\ ReceiptBacked'
    BY <2>1, <2>2, <2>3 DEF IInv, DownloadedOnce, ReceiptBacked
  <2> QED
    BY <2>4, <2>5, <2>6, <2>7, <2>8, <2>9, <2>10 DEF IInv
<1>3. ASSUME pc[w] = "unknown" PROVE IInv'
  <2>1. /\ pc[w] = "unknown" /\ pc' = [pc EXCEPT ![w] = "idle"]
        /\ receipt' = [state |-> "indeterminate", artifact |-> FALSE]
        /\ UNCHANGED <<async, approval, run, boundary, download, provider, posts, gets, stored, copy, answer, crashes>>
    BY <1>3 DEF Answered, Proceed, Goto, WriteReceipt, Read, admission, job, external
  <2>2. /\ pc'[w] = "idle" /\ \A v \in Worker : v # w => pc'[v] = pc[v]
    BY <2>1 DEF IInv, MediaTypeOK
  <2>3. /\ approval = "consumed" /\ run # "failed" /\ download = "none" /\ gets = 0
        /\ \A v \in Worker : pc[v] \in Submitting => v = w
        /\ \A v \in Worker : pc[v] \notin Polling /\ pc[v] \notin Fetching
        /\ receipt = [state |-> "claimed", artifact |-> FALSE] /\ boundary = "request_started"
    BY <1>3, <2>1, <2>2, WhileSubmitting DEF Submitting
  <2>4. MediaTypeOK'
    BY <2>1, <2>2, <2>3 DEF IInv, MediaTypeOK, Receipts
  <2>5. ApprovedIsFresh'
    BY <2>1, <2>2, <2>3 DEF IInv, ApprovedIsFresh
  <2>6. OneSubmits'
    BY <2>1, <2>2, <2>3 DEF IInv, OneSubmits, Submitting
  <2>7. PaidShows'
    BY <2>1, <2>2, <2>3 DEF IInv, PaidShows
  <2>8. CopyBacked'
    BY <2>1, <2>2, <2>3 DEF IInv, CopyBacked, Polling, Fetching
  <2>9. OneDownloads'
    BY <2>1, <2>2, <2>3 DEF IInv, OneDownloads, Owning
  <2>10. (posts <= 1)' /\ DownloadedOnce' /\ ReceiptBacked'
    BY <2>1, <2>2, <2>3 DEF IInv, DownloadedOnce, ReceiptBacked
  <2> QED
    BY <2>4, <2>5, <2>6, <2>7, <2>8, <2>9, <2>10 DEF IInv
<1> QED
  BY <1>1, <1>2, <1>3 DEF Answered, Proceed, Goto, WriteReceipt, Read, admission, job, external

(* What raises leaves the run to whoever looks at its boundary. *)
LEMMA SubmitRaisesStep ==
  ASSUME IInv, NEW w \in Worker, SubmitRaises(w)
  PROVE  IInv'
<1>1. ASSUME pc[w] \in {"post", "accepted", "store", "stored"} PROVE IInv'
  <2>1. /\ pc[w] \in {"post", "accepted", "store", "stored"} /\ pc' = [pc EXCEPT ![w] = "unknown"]
        /\ UNCHANGED <<async, approval, run, boundary, receipt, download, provider, posts, gets, stored, copy, answer, crashes>>
    BY <1>1 DEF SubmitRaises, Proceed, Goto, WriteReceipt, Read, admission, job, external
  <2>2. /\ pc'[w] = "unknown" /\ \A v \in Worker : v # w => pc'[v] = pc[v]
    BY <2>1 DEF IInv, MediaTypeOK
  <2>3. /\ approval = "consumed" /\ run # "failed" /\ download = "none" /\ gets = 0
        /\ \A v \in Worker : pc[v] \in Submitting => v = w
        /\ \A v \in Worker : pc[v] \notin Polling /\ pc[v] \notin Fetching
        /\ receipt = [state |-> "claimed", artifact |-> FALSE] /\ boundary = "request_started"
    BY <1>1, <2>1, <2>2, WhileSubmitting DEF Submitting
  <2>4. MediaTypeOK'
    BY <2>1, <2>2, <2>3 DEF IInv, MediaTypeOK
  <2>5. ApprovedIsFresh'
    BY <2>1, <2>2, <2>3 DEF IInv, ApprovedIsFresh
  <2>6. OneSubmits'
    BY <2>1, <2>2, <2>3 DEF IInv, OneSubmits, Submitting
  <2>7. PaidShows'
    BY <2>1, <2>2, <2>3 DEF IInv, PaidShows
  <2>8. CopyBacked'
    BY <2>1, <2>2, <2>3 DEF IInv, CopyBacked, Polling, Fetching
  <2>9. OneDownloads'
    BY <2>1, <2>2, <2>3 DEF IInv, OneDownloads, Owning
  <2>10. (posts <= 1)' /\ DownloadedOnce' /\ ReceiptBacked'
    BY <2>1, <2>2, <2>3 DEF IInv, DownloadedOnce, ReceiptBacked
  <2> QED
    BY <2>4, <2>5, <2>6, <2>7, <2>8, <2>9, <2>10 DEF IInv
<1>2. ASSUME pc[w] \in {"admit", "claim", "record"} PROVE IInv'
  <2>1. /\ pc[w] \in {"admit", "claim", "record"} /\ pc' = [pc EXCEPT ![w] = "idle"]
        /\ UNCHANGED <<async, approval, run, boundary, receipt, download, provider, posts, gets, stored, copy, answer, crashes>>
    BY <1>2 DEF SubmitRaises, Proceed, Goto, WriteReceipt, Read, admission, job, external
  <2>2. /\ pc'[w] = "idle" /\ \A v \in Worker : v # w => pc'[v] = pc[v]
    BY <2>1 DEF IInv, MediaTypeOK
  <2>4. MediaTypeOK'
    BY <2>1, <2>2 DEF IInv, MediaTypeOK
  <2>5. ApprovedIsFresh'
    BY <2>1, <2>2 DEF IInv, ApprovedIsFresh
  <2>6. OneSubmits'
    BY <2>1, <2>2 DEF IInv, OneSubmits, Submitting
  <2>7. PaidShows'
    BY <2>1, <2>2 DEF IInv, PaidShows
  <2>8. CopyBacked'
    BY <2>1, <2>2 DEF IInv, CopyBacked, Polling, Fetching
  <2>9. OneDownloads'
    BY <2>1, <2>2 DEF IInv, OneDownloads, Owning
  <2>10. (posts <= 1)' /\ DownloadedOnce' /\ ReceiptBacked'
    BY <2>1, <2>2 DEF IInv, DownloadedOnce, ReceiptBacked
  <2> QED
    BY <2>4, <2>5, <2>6, <2>7, <2>8, <2>9, <2>10 DEF IInv
<1> QED
  BY <1>1, <1>2 DEF SubmitRaises, Proceed, Goto, WriteReceipt, Read, admission, job, external

(* A poll reads a receipt that is backed. *)
LEMMA PollStep ==
  ASSUME IInv, NEW w \in Worker, Poll(w)
  PROVE  IInv'
<1>1. /\ pc[w] = "idle" /\ pc' = [pc EXCEPT ![w] = "get status"]
      /\ approval = "consumed" /\ receipt.state \in {"submitted", "processing"}
      /\ copy' = [copy EXCEPT ![w] = receipt]
      /\ UNCHANGED <<async, approval, run, boundary, receipt, download, provider, posts, gets, stored, answer, crashes>>
  BY DEF Poll, Proceed, Goto, WriteReceipt, Read, admission, job, external
<1>2. /\ pc'[w] = "get status" /\ \A v \in Worker : v # w => pc'[v] = pc[v]
      /\ copy'[w] = receipt /\ \A v \in Worker : v # w => copy'[v] = copy[v]
  BY <1>1 DEF IInv, MediaTypeOK
<1>3. /\ posts = 1 /\ provider # "none" /\ (receipt.artifact => stored)
      /\ \A v \in Worker : pc[v] \notin Submitting
  BY <1>1, <1>2, Readable
<1>4. MediaTypeOK'
  BY <1>1, <1>2, <1>3 DEF IInv, MediaTypeOK
<1>5. ApprovedIsFresh'
  BY <1>1, <1>2, <1>3 DEF IInv, ApprovedIsFresh
<1>6. OneSubmits'
  BY <1>1, <1>2, <1>3 DEF IInv, OneSubmits, Submitting
<1>7. PaidShows'
  BY <1>1, <1>2, <1>3 DEF IInv, PaidShows
<1>8. CopyBacked'
  BY <1>1, <1>2, <1>3 DEF IInv, CopyBacked, Polling, Fetching
<1>9. OneDownloads'
  BY <1>1, <1>2, <1>3 DEF IInv, OneDownloads, Owning
<1>10. (posts <= 1)' /\ DownloadedOnce' /\ ReceiptBacked'
  BY <1>1, <1>2, <1>3 DEF IInv, DownloadedOnce, ReceiptBacked
<1> QED
  BY <1>4, <1>5, <1>6, <1>7, <1>8, <1>9, <1>10 DEF IInv

(* The provider has the job, and says what it is. *)
LEMMA AskProviderStep ==
  ASSUME IInv, NEW w \in Worker, AskProvider(w)
  PROVE  IInv'
<1>1. /\ pc[w] = "get status" /\ pc' = [pc EXCEPT ![w] = "write status"]
      /\ answer' = [answer EXCEPT ![w] = provider]
      /\ UNCHANGED <<async, approval, run, boundary, receipt, download, provider, posts, gets, stored, copy, crashes>>
  BY DEF AskProvider, Proceed, Goto, WriteReceipt, Read, admission, job, external
<1>2. /\ pc'[w] = "write status" /\ \A v \in Worker : v # w => pc'[v] = pc[v]
      /\ answer'[w] = provider /\ \A v \in Worker : v # w => answer'[v] = answer[v]
  BY <1>1 DEF IInv, MediaTypeOK
<1>3. /\ posts = 1 /\ receipt.state \notin {"none", "claimed"} /\ approval = "consumed"
      /\ boundary = "request_started" /\ run # "failed" /\ provider # "none"
      /\ \A v \in Worker : pc[v] \notin Submitting
  BY <1>1, <1>2, WhilePolling DEF Polling, Fetching
<1>4. MediaTypeOK'
  BY <1>1, <1>2, <1>3 DEF IInv, MediaTypeOK
<1>5. ApprovedIsFresh'
  BY <1>1, <1>2, <1>3 DEF IInv, ApprovedIsFresh
<1>6. OneSubmits'
  BY <1>1, <1>2, <1>3 DEF IInv, OneSubmits, Submitting
<1>7. PaidShows'
  BY <1>1, <1>2, <1>3 DEF IInv, PaidShows
<1>8. CopyBacked'
  BY <1>1, <1>2, <1>3 DEF IInv, CopyBacked, Polling, Fetching
<1>9. OneDownloads'
  BY <1>1, <1>2, <1>3 DEF IInv, OneDownloads, Owning
<1>10. (posts <= 1)' /\ DownloadedOnce' /\ ReceiptBacked'
  BY <1>1, <1>2, <1>3 DEF IInv, DownloadedOnce, ReceiptBacked
<1> QED
  BY <1>4, <1>5, <1>6, <1>7, <1>8, <1>9, <1>10 DEF IInv

(* What a poll writes is what the provider said, and still so where it is final. *)
LEMMA WriteStatusStep ==
  ASSUME IInv, NEW w \in Worker, WriteStatus(w)
  PROVE  IInv'
<1>1. ASSUME answer[w] = "running" PROVE IInv'
  <2>a. StateOf[answer[w]] = "processing"
    BY <1>1 DEF StateOf
  <2>1. /\ pc[w] = "write status" /\ pc' = [pc EXCEPT ![w] = "idle"]
        /\ answer[w] = "running"
        /\ receipt' = [copy[w] EXCEPT !.state = "processing"]
        /\ UNCHANGED <<async, approval, run, boundary, download, provider, posts, gets, stored, copy, answer, crashes>>
    BY <1>1, <2>a DEF WriteStatus, Proceed, Goto, WriteReceipt, admission, job, external
  <2>2. /\ pc'[w] = "idle" /\ \A v \in Worker : v # w => pc'[v] = pc[v]
    BY <2>1 DEF IInv, MediaTypeOK
  <2>3. /\ posts = 1 /\ receipt.state \notin {"none", "claimed"} /\ approval = "consumed"
        /\ boundary = "request_started" /\ run # "failed" /\ provider # "none"
        /\ \A v \in Worker : pc[v] \notin Submitting
        /\ copy[w].artifact => stored
        /\ receipt'.state = "processing" /\ receipt'.artifact = copy[w].artifact
        /\ receipt' \in Receipts
    BY <1>1, <2>1, <2>2, WhilePolling DEF Polling, Fetching, IInv, MediaTypeOK, Receipts
  <2>4. MediaTypeOK'
    BY <2>1, <2>2, <2>3 DEF IInv, MediaTypeOK
  <2>5. ApprovedIsFresh'
    BY <2>1, <2>2, <2>3 DEF IInv, ApprovedIsFresh
  <2>6. OneSubmits'
    BY <2>1, <2>2, <2>3 DEF IInv, OneSubmits, Submitting
  <2>7. PaidShows'
    BY <2>1, <2>2, <2>3 DEF IInv, PaidShows
  <2>8. CopyBacked'
    BY <2>1, <2>2, <2>3 DEF IInv, CopyBacked, Polling, Fetching
  <2>9. OneDownloads'
    BY <2>1, <2>2, <2>3 DEF IInv, OneDownloads, Owning
  <2>10. (posts <= 1)' /\ DownloadedOnce' /\ ReceiptBacked'
    BY <2>1, <2>2, <2>3 DEF IInv, DownloadedOnce, ReceiptBacked
  <2> QED
    BY <2>4, <2>5, <2>6, <2>7, <2>8, <2>9, <2>10 DEF IInv
<1>2. ASSUME answer[w] = "error" PROVE IInv'
  <2>a. StateOf[answer[w]] = "failed"
    BY <1>2 DEF StateOf
  <2>1. /\ pc[w] = "write status" /\ pc' = [pc EXCEPT ![w] = "idle"]
        /\ answer[w] = "error"
        /\ receipt' = [copy[w] EXCEPT !.state = "failed"]
        /\ UNCHANGED <<async, approval, run, boundary, download, provider, posts, gets, stored, copy, answer, crashes>>
    BY <1>2, <2>a DEF WriteStatus, Proceed, Goto, WriteReceipt, admission, job, external
  <2>2. /\ pc'[w] = "idle" /\ \A v \in Worker : v # w => pc'[v] = pc[v]
    BY <2>1 DEF IInv, MediaTypeOK
  <2>3. /\ posts = 1 /\ receipt.state \notin {"none", "claimed"} /\ approval = "consumed"
        /\ boundary = "request_started" /\ run # "failed" /\ provider # "none"
        /\ \A v \in Worker : pc[v] \notin Submitting
        /\ copy[w].artifact => stored
        /\ receipt'.state = "failed" /\ receipt'.artifact = copy[w].artifact
        /\ receipt' \in Receipts
        /\ provider = "error"
    BY <1>2, <2>1, <2>2, WhilePolling DEF Polling, Fetching, IInv, MediaTypeOK, Receipts
  <2>4. MediaTypeOK'
    BY <2>1, <2>2, <2>3 DEF IInv, MediaTypeOK
  <2>5. ApprovedIsFresh'
    BY <2>1, <2>2, <2>3 DEF IInv, ApprovedIsFresh
  <2>6. OneSubmits'
    BY <2>1, <2>2, <2>3 DEF IInv, OneSubmits, Submitting
  <2>7. PaidShows'
    BY <2>1, <2>2, <2>3 DEF IInv, PaidShows
  <2>8. CopyBacked'
    BY <2>1, <2>2, <2>3 DEF IInv, CopyBacked, Polling, Fetching
  <2>9. OneDownloads'
    BY <2>1, <2>2, <2>3 DEF IInv, OneDownloads, Owning
  <2>10. (posts <= 1)' /\ DownloadedOnce' /\ ReceiptBacked'
    BY <2>1, <2>2, <2>3 DEF IInv, DownloadedOnce, ReceiptBacked
  <2> QED
    BY <2>4, <2>5, <2>6, <2>7, <2>8, <2>9, <2>10 DEF IInv
<1>3. ASSUME answer[w] = "done" PROVE IInv'
  <2>a. StateOf[answer[w]] = "ready_to_download"
    BY <1>3 DEF StateOf
  <2>1. /\ pc[w] = "write status" /\ pc' = [pc EXCEPT ![w] = "idle"]
        /\ answer[w] = "done"
        /\ receipt' = [copy[w] EXCEPT !.state = "ready_to_download"]
        /\ UNCHANGED <<async, approval, run, boundary, download, provider, posts, gets, stored, copy, answer, crashes>>
    BY <1>3, <2>a DEF WriteStatus, Proceed, Goto, WriteReceipt, admission, job, external
  <2>2. /\ pc'[w] = "idle" /\ \A v \in Worker : v # w => pc'[v] = pc[v]
    BY <2>1 DEF IInv, MediaTypeOK
  <2>3. /\ posts = 1 /\ receipt.state \notin {"none", "claimed"} /\ approval = "consumed"
        /\ boundary = "request_started" /\ run # "failed" /\ provider # "none"
        /\ \A v \in Worker : pc[v] \notin Submitting
        /\ copy[w].artifact => stored
        /\ receipt'.state = "ready_to_download" /\ receipt'.artifact = copy[w].artifact
        /\ receipt' \in Receipts
        /\ provider = "done"
    BY <1>3, <2>1, <2>2, WhilePolling DEF Polling, Fetching, IInv, MediaTypeOK, Receipts
  <2>4. MediaTypeOK'
    BY <2>1, <2>2, <2>3 DEF IInv, MediaTypeOK
  <2>5. ApprovedIsFresh'
    BY <2>1, <2>2, <2>3 DEF IInv, ApprovedIsFresh
  <2>6. OneSubmits'
    BY <2>1, <2>2, <2>3 DEF IInv, OneSubmits, Submitting
  <2>7. PaidShows'
    BY <2>1, <2>2, <2>3 DEF IInv, PaidShows
  <2>8. CopyBacked'
    BY <2>1, <2>2, <2>3 DEF IInv, CopyBacked, Polling, Fetching
  <2>9. OneDownloads'
    BY <2>1, <2>2, <2>3 DEF IInv, OneDownloads, Owning
  <2>10. (posts <= 1)' /\ DownloadedOnce' /\ ReceiptBacked'
    BY <2>1, <2>2, <2>3 DEF IInv, DownloadedOnce, ReceiptBacked
  <2> QED
    BY <2>4, <2>5, <2>6, <2>7, <2>8, <2>9, <2>10 DEF IInv
<1> QED
  BY <1>1, <1>2, <1>3, Told DEF WriteStatus, StateOf, Proceed, Goto, WriteReceipt, Read, admission, job, external

(* A failed poll changes nothing. *)
LEMMA PollRaisesStep ==
  ASSUME IInv, NEW w \in Worker, PollRaises(w)
  PROVE  IInv'
<1>1. /\ pc[w] \in {"get status", "write status"} /\ pc' = [pc EXCEPT ![w] = "idle"]
      /\ UNCHANGED <<async, approval, run, boundary, receipt, download, provider, posts, gets, stored, copy, answer, crashes>>
  BY DEF PollRaises, Proceed, Goto, WriteReceipt, Read, admission, job, external
<1>2. /\ pc'[w] = "idle" /\ \A v \in Worker : v # w => pc'[v] = pc[v]
  BY <1>1 DEF IInv, MediaTypeOK
<1>4. MediaTypeOK'
  BY <1>1, <1>2 DEF IInv, MediaTypeOK
<1>5. ApprovedIsFresh'
  BY <1>1, <1>2 DEF IInv, ApprovedIsFresh
<1>6. OneSubmits'
  BY <1>1, <1>2 DEF IInv, OneSubmits, Submitting
<1>7. PaidShows'
  BY <1>1, <1>2 DEF IInv, PaidShows
<1>8. CopyBacked'
  BY <1>1, <1>2 DEF IInv, CopyBacked, Polling, Fetching
<1>9. OneDownloads'
  BY <1>1, <1>2 DEF IInv, OneDownloads, Owning
<1>10. (posts <= 1)' /\ DownloadedOnce' /\ ReceiptBacked'
  BY <1>1, <1>2 DEF IInv, DownloadedOnce, ReceiptBacked
<1> QED
  BY <1>4, <1>5, <1>6, <1>7, <1>8, <1>9, <1>10 DEF IInv

(* A download starts from a receipt that says the job is done. *)
LEMMA FetchStep ==
  ASSUME IInv, NEW w \in Worker, Fetch(w)
  PROVE  IInv'
<1>1. /\ pc[w] = "idle" /\ pc' = [pc EXCEPT ![w] = "claim download"]
      /\ approval = "consumed" /\ receipt.state = "ready_to_download"
      /\ copy' = [copy EXCEPT ![w] = receipt]
      /\ UNCHANGED <<async, approval, run, boundary, receipt, download, provider, posts, gets, stored, answer, crashes>>
  BY DEF Fetch, Proceed, Goto, WriteReceipt, Read, admission, job, external
<1>2. /\ pc'[w] = "claim download" /\ \A v \in Worker : v # w => pc'[v] = pc[v]
      /\ copy'[w] = receipt /\ \A v \in Worker : v # w => copy'[v] = copy[v]
  BY <1>1 DEF IInv, MediaTypeOK
<1>3. /\ posts = 1 /\ provider # "none" /\ (receipt.artifact => stored)
      /\ \A v \in Worker : pc[v] \notin Submitting
      /\ provider = "done"
  BY <1>1, <1>2, Readable
<1>4. MediaTypeOK'
  BY <1>1, <1>2, <1>3 DEF IInv, MediaTypeOK
<1>5. ApprovedIsFresh'
  BY <1>1, <1>2, <1>3 DEF IInv, ApprovedIsFresh
<1>6. OneSubmits'
  BY <1>1, <1>2, <1>3 DEF IInv, OneSubmits, Submitting
<1>7. PaidShows'
  BY <1>1, <1>2, <1>3 DEF IInv, PaidShows
<1>8. CopyBacked'
  BY <1>1, <1>2, <1>3 DEF IInv, CopyBacked, Polling, Fetching
<1>9. OneDownloads'
  BY <1>1, <1>2, <1>3 DEF IInv, OneDownloads, Owning
<1>10. (posts <= 1)' /\ DownloadedOnce' /\ ReceiptBacked'
  BY <1>1, <1>2, <1>3 DEF IInv, DownloadedOnce, ReceiptBacked
<1> QED
  BY <1>4, <1>5, <1>6, <1>7, <1>8, <1>9, <1>10 DEF IInv

(* The thread whose claim was the first is the only one to download. *)
LEMMA ClaimDownloadStep ==
  ASSUME IInv, NEW w \in Worker, ClaimDownload(w)
  PROVE  IInv'
<1>1. ASSUME download = "none" PROVE IInv'
  <2>1. /\ pc[w] = "claim download" /\ pc' = [pc EXCEPT ![w] = "download"]
        /\ download = "none"
        /\ download' = "claimed"
        /\ UNCHANGED <<async, approval, run, boundary, receipt, provider, posts, gets, stored, copy, answer, crashes>>
    BY <1>1 DEF ClaimDownload, Proceed, Goto, WriteReceipt, Read, admission, job, external
  <2>2. /\ pc'[w] = "download" /\ \A v \in Worker : v # w => pc'[v] = pc[v]
    BY <2>1 DEF IInv, MediaTypeOK
  <2>3. /\ posts = 1 /\ receipt.state \notin {"none", "claimed"} /\ approval = "consumed"
        /\ boundary = "request_started" /\ run # "failed" /\ provider # "none"
        /\ \A v \in Worker : pc[v] \notin Submitting
        /\ gets = 0
        /\ \A v \in Worker : pc[v] \notin Owning
        /\ provider = "done"
    BY <1>1, <2>1, <2>2, WhilePolling DEF Polling, Fetching, IInv, OneDownloads, Owning
  <2>4. MediaTypeOK'
    BY <2>1, <2>2, <2>3 DEF IInv, MediaTypeOK
  <2>5. ApprovedIsFresh'
    BY <2>1, <2>2, <2>3 DEF IInv, ApprovedIsFresh
  <2>6. OneSubmits'
    BY <2>1, <2>2, <2>3 DEF IInv, OneSubmits, Submitting
  <2>7. PaidShows'
    BY <2>1, <2>2, <2>3 DEF IInv, PaidShows
  <2>8. CopyBacked'
    BY <2>1, <2>2, <2>3 DEF IInv, CopyBacked, Polling, Fetching
  <2>9. OneDownloads'
    BY <2>1, <2>2, <2>3 DEF IInv, OneDownloads, Owning
  <2>10. (posts <= 1)' /\ DownloadedOnce' /\ ReceiptBacked'
    BY <2>1, <2>2, <2>3 DEF IInv, DownloadedOnce, ReceiptBacked
  <2> QED
    BY <2>4, <2>5, <2>6, <2>7, <2>8, <2>9, <2>10 DEF IInv
<1>2. ASSUME download # "none" PROVE IInv'
  <2>1. /\ pc[w] = "claim download" /\ pc' = [pc EXCEPT ![w] = "idle"]
        /\ UNCHANGED <<async, approval, run, boundary, receipt, download, provider, posts, gets, stored, copy, answer, crashes>>
    BY <1>2 DEF ClaimDownload, Proceed, Goto, WriteReceipt, Read, admission, job, external
  <2>2. /\ pc'[w] = "idle" /\ \A v \in Worker : v # w => pc'[v] = pc[v]
    BY <2>1 DEF IInv, MediaTypeOK
  <2>4. MediaTypeOK'
    BY <2>1, <2>2 DEF IInv, MediaTypeOK
  <2>5. ApprovedIsFresh'
    BY <2>1, <2>2 DEF IInv, ApprovedIsFresh
  <2>6. OneSubmits'
    BY <2>1, <2>2 DEF IInv, OneSubmits, Submitting
  <2>7. PaidShows'
    BY <2>1, <2>2 DEF IInv, PaidShows
  <2>8. CopyBacked'
    BY <2>1, <2>2 DEF IInv, CopyBacked, Polling, Fetching
  <2>9. OneDownloads'
    BY <2>1, <2>2 DEF IInv, OneDownloads, Owning
  <2>10. (posts <= 1)' /\ DownloadedOnce' /\ ReceiptBacked'
    BY <2>1, <2>2 DEF IInv, DownloadedOnce, ReceiptBacked
  <2> QED
    BY <2>4, <2>5, <2>6, <2>7, <2>8, <2>9, <2>10 DEF IInv
<1> QED
  BY <1>1, <1>2 DEF ClaimDownload, Proceed, Goto, WriteReceipt, Read, admission, job, external

(* The one download, on disk when it returns. *)
LEMMA DownloadStep ==
  ASSUME IInv, NEW w \in Worker, Download(w)
  PROVE  IInv'
<1>1. /\ pc[w] = "download" /\ pc' = [pc EXCEPT ![w] = "finish"]
      /\ gets' = gets + 1
      /\ stored' = TRUE
      /\ UNCHANGED <<async, approval, run, boundary, receipt, download, provider, posts, copy, answer, crashes>>
  BY DEF Download, Proceed, Goto, WriteReceipt, Read, admission, job, external
<1>2. /\ pc'[w] = "finish" /\ \A v \in Worker : v # w => pc'[v] = pc[v]
  BY <1>1 DEF IInv, MediaTypeOK
<1>3. /\ posts = 1 /\ receipt.state \notin {"none", "claimed"} /\ approval = "consumed"
      /\ boundary = "request_started" /\ run # "failed" /\ provider # "none"
      /\ \A v \in Worker : pc[v] \notin Submitting
      /\ download = "claimed" /\ gets = 0 /\ provider = "done"
      /\ \A v \in Worker : pc[v] \in Owning => v = w
      /\ gets' = 1
  <2>1. /\ posts = 1 /\ receipt.state \notin {"none", "claimed"} /\ approval = "consumed"
        /\ boundary = "request_started" /\ run # "failed" /\ provider = "done"
        /\ \A v \in Worker : pc[v] \notin Submitting
    BY <1>1, WhilePolling DEF Fetching
  <2>2. download = "claimed" /\ gets = 0 /\ \A v \in Worker : pc[v] \in Owning => v = w
    BY <1>1 DEF IInv, OneDownloads, Owning
  <2> QED
    BY <1>1, <2>1, <2>2
<1>4. MediaTypeOK'
  BY <1>1, <1>2, <1>3 DEF IInv, MediaTypeOK
<1>5. ApprovedIsFresh'
  BY <1>1, <1>2, <1>3 DEF IInv, ApprovedIsFresh
<1>6. OneSubmits'
  BY <1>1, <1>2, <1>3 DEF IInv, OneSubmits, Submitting
<1>7. PaidShows'
  BY <1>1, <1>2, <1>3 DEF IInv, PaidShows
<1>8. CopyBacked'
  BY <1>1, <1>2, <1>3 DEF IInv, CopyBacked, Polling, Fetching
<1>9. OneDownloads'
  BY <1>1, <1>2, <1>3 DEF IInv, OneDownloads, Owning
<1>10. (posts <= 1)' /\ DownloadedOnce' /\ ReceiptBacked'
  BY <1>1, <1>2, <1>3 DEF IInv, DownloadedOnce, ReceiptBacked
<1> QED
  BY <1>4, <1>5, <1>6, <1>7, <1>8, <1>9, <1>10 DEF IInv

(* The receipt names the artifact, and the claim is settled. *)
LEMMA FinishDownloadStep ==
  ASSUME IInv, NEW w \in Worker, FinishDownload(w)
  PROVE  IInv'
<1>1. ASSUME pc[w] = "finish" PROVE IInv'
  <2>1. /\ pc[w] = "finish" /\ pc' = [pc EXCEPT ![w] = "settle claim"]
        /\ receipt' = [copy[w] EXCEPT !.state = "completed", !.artifact = TRUE]
        /\ UNCHANGED <<async, approval, run, boundary, download, provider, posts, gets, stored, copy, answer, crashes>>
    BY <1>1 DEF FinishDownload, Proceed, Goto, WriteReceipt, Read, admission, job, external
  <2>2. /\ pc'[w] = "settle claim" /\ \A v \in Worker : v # w => pc'[v] = pc[v]
    BY <2>1 DEF IInv, MediaTypeOK
  <2>3. /\ posts = 1 /\ receipt.state \notin {"none", "claimed"} /\ approval = "consumed"
        /\ boundary = "request_started" /\ run # "failed" /\ provider # "none"
        /\ \A v \in Worker : pc[v] \notin Submitting
        /\ stored /\ provider = "done"
        /\ \A v \in Worker : pc[v] \in Owning => v = w
        /\ receipt'.state = "completed"
        /\ receipt' \in Receipts
    BY <1>1, <2>1, <2>2, WhilePolling DEF Polling, Fetching, IInv, OneDownloads, Owning, MediaTypeOK, Receipts
  <2>4. MediaTypeOK'
    BY <2>1, <2>2, <2>3 DEF IInv, MediaTypeOK
  <2>5. ApprovedIsFresh'
    BY <2>1, <2>2, <2>3 DEF IInv, ApprovedIsFresh
  <2>6. OneSubmits'
    BY <2>1, <2>2, <2>3 DEF IInv, OneSubmits, Submitting
  <2>7. PaidShows'
    BY <2>1, <2>2, <2>3 DEF IInv, PaidShows
  <2>8. CopyBacked'
    BY <2>1, <2>2, <2>3 DEF IInv, CopyBacked, Polling, Fetching
  <2>9. OneDownloads'
    BY <2>1, <2>2, <2>3 DEF IInv, OneDownloads, Owning
  <2>10. (posts <= 1)' /\ DownloadedOnce' /\ ReceiptBacked'
    BY <2>1, <2>2, <2>3 DEF IInv, DownloadedOnce, ReceiptBacked
  <2> QED
    BY <2>4, <2>5, <2>6, <2>7, <2>8, <2>9, <2>10 DEF IInv
<1>2. ASSUME pc[w] = "settle claim" PROVE IInv'
  <2>1. /\ pc[w] = "settle claim" /\ pc' = [pc EXCEPT ![w] = "idle"]
        /\ download' = "completed"
        /\ UNCHANGED <<async, approval, run, boundary, receipt, provider, posts, gets, stored, copy, answer, crashes>>
    BY <1>2 DEF FinishDownload, Proceed, Goto, WriteReceipt, Read, admission, job, external
  <2>2. /\ pc'[w] = "idle" /\ \A v \in Worker : v # w => pc'[v] = pc[v]
    BY <2>1 DEF IInv, MediaTypeOK
  <2>3. /\ posts = 1 /\ receipt.state \notin {"none", "claimed"} /\ approval = "consumed"
        /\ boundary = "request_started" /\ run # "failed" /\ provider # "none"
        /\ \A v \in Worker : pc[v] \notin Submitting
        /\ download # "none"
        /\ \A v \in Worker : pc[v] \in Owning => v = w
    BY <1>2, <2>1, <2>2, WhilePolling DEF Polling, Fetching, IInv, OneDownloads, Owning
  <2>4. MediaTypeOK'
    BY <2>1, <2>2, <2>3 DEF IInv, MediaTypeOK
  <2>5. ApprovedIsFresh'
    BY <2>1, <2>2, <2>3 DEF IInv, ApprovedIsFresh
  <2>6. OneSubmits'
    BY <2>1, <2>2, <2>3 DEF IInv, OneSubmits, Submitting
  <2>7. PaidShows'
    BY <2>1, <2>2, <2>3 DEF IInv, PaidShows
  <2>8. CopyBacked'
    BY <2>1, <2>2, <2>3 DEF IInv, CopyBacked, Polling, Fetching
  <2>9. OneDownloads'
    BY <2>1, <2>2, <2>3 DEF IInv, OneDownloads, Owning
  <2>10. (posts <= 1)' /\ DownloadedOnce' /\ ReceiptBacked'
    BY <2>1, <2>2, <2>3 DEF IInv, DownloadedOnce, ReceiptBacked
  <2> QED
    BY <2>4, <2>5, <2>6, <2>7, <2>8, <2>9, <2>10 DEF IInv
<1> QED
  BY <1>1, <1>2 DEF FinishDownload, Proceed, Goto, WriteReceipt, Read, admission, job, external

(* A claim is never taken back. *)
LEMMA FetchRaisesStep ==
  ASSUME IInv, NEW w \in Worker, FetchRaises(w)
  PROVE  IInv'
<1>1. ASSUME pc[w] = "download" PROVE IInv'
  <2>1. /\ pc[w] = "download" /\ pc' = [pc EXCEPT ![w] = "idle"]
        /\ gets' = gets + 1
        /\ download' = "indeterminate"
        /\ UNCHANGED <<async, approval, run, boundary, receipt, provider, posts, stored, copy, answer, crashes>>
    BY <1>1 DEF FetchRaises, Proceed, Goto, WriteReceipt, Read, admission, job, external
  <2>2. /\ pc'[w] = "idle" /\ \A v \in Worker : v # w => pc'[v] = pc[v]
    BY <2>1 DEF IInv, MediaTypeOK
  <2>3. /\ posts = 1 /\ receipt.state \notin {"none", "claimed"} /\ approval = "consumed"
        /\ boundary = "request_started" /\ run # "failed" /\ provider # "none"
        /\ \A v \in Worker : pc[v] \notin Submitting
        /\ download = "claimed" /\ gets = 0 /\ provider = "done"
        /\ \A v \in Worker : pc[v] \in Owning => v = w
        /\ gets' = 1
    <3>1. /\ posts = 1 /\ receipt.state \notin {"none", "claimed"} /\ approval = "consumed"
          /\ boundary = "request_started" /\ run # "failed" /\ provider = "done"
          /\ \A v \in Worker : pc[v] \notin Submitting
      BY <2>1, WhilePolling DEF Fetching
    <3>2. download = "claimed" /\ gets = 0 /\ \A v \in Worker : pc[v] \in Owning => v = w
      BY <2>1 DEF IInv, OneDownloads, Owning
    <3> QED
      BY <2>1, <3>1, <3>2
  <2>4. MediaTypeOK'
    BY <2>1, <2>2, <2>3 DEF IInv, MediaTypeOK
  <2>5. ApprovedIsFresh'
    BY <2>1, <2>2, <2>3 DEF IInv, ApprovedIsFresh
  <2>6. OneSubmits'
    BY <2>1, <2>2, <2>3 DEF IInv, OneSubmits, Submitting
  <2>7. PaidShows'
    BY <2>1, <2>2, <2>3 DEF IInv, PaidShows
  <2>8. CopyBacked'
    BY <2>1, <2>2, <2>3 DEF IInv, CopyBacked, Polling, Fetching
  <2>9. OneDownloads'
    BY <2>1, <2>2, <2>3 DEF IInv, OneDownloads, Owning
  <2>10. (posts <= 1)' /\ DownloadedOnce' /\ ReceiptBacked'
    BY <2>1, <2>2, <2>3 DEF IInv, DownloadedOnce, ReceiptBacked
  <2> QED
    BY <2>4, <2>5, <2>6, <2>7, <2>8, <2>9, <2>10 DEF IInv
<1>2. ASSUME pc[w] \in {"finish", "settle claim"} PROVE IInv'
  <2>1. /\ pc[w] \in {"finish", "settle claim"} /\ pc' = [pc EXCEPT ![w] = "idle"]
        /\ download' = "indeterminate"
        /\ UNCHANGED <<async, approval, run, boundary, receipt, provider, posts, gets, stored, copy, answer, crashes>>
    BY <1>2 DEF FetchRaises, Proceed, Goto, WriteReceipt, Read, admission, job, external
  <2>2. /\ pc'[w] = "idle" /\ \A v \in Worker : v # w => pc'[v] = pc[v]
    BY <2>1 DEF IInv, MediaTypeOK
  <2>3. /\ posts = 1 /\ receipt.state \notin {"none", "claimed"} /\ approval = "consumed"
        /\ boundary = "request_started" /\ run # "failed" /\ provider # "none"
        /\ \A v \in Worker : pc[v] \notin Submitting
        /\ download # "none"
        /\ \A v \in Worker : pc[v] \in Owning => v = w
    BY <1>2, <2>1, <2>2, WhilePolling DEF Polling, Fetching, IInv, OneDownloads, Owning
  <2>4. MediaTypeOK'
    BY <2>1, <2>2, <2>3 DEF IInv, MediaTypeOK
  <2>5. ApprovedIsFresh'
    BY <2>1, <2>2, <2>3 DEF IInv, ApprovedIsFresh
  <2>6. OneSubmits'
    BY <2>1, <2>2, <2>3 DEF IInv, OneSubmits, Submitting
  <2>7. PaidShows'
    BY <2>1, <2>2, <2>3 DEF IInv, PaidShows
  <2>8. CopyBacked'
    BY <2>1, <2>2, <2>3 DEF IInv, CopyBacked, Polling, Fetching
  <2>9. OneDownloads'
    BY <2>1, <2>2, <2>3 DEF IInv, OneDownloads, Owning
  <2>10. (posts <= 1)' /\ DownloadedOnce' /\ ReceiptBacked'
    BY <2>1, <2>2, <2>3 DEF IInv, DownloadedOnce, ReceiptBacked
  <2> QED
    BY <2>4, <2>5, <2>6, <2>7, <2>8, <2>9, <2>10 DEF IInv
<1> QED
  BY <1>1, <1>2 DEF FetchRaises, Proceed, Goto, WriteReceipt, Read, admission, job, external

(* Every step keeps the invariant. *)
LEMMA NextIInv == IInv /\ [Next]_vars => IInv'
<1> SUFFICES ASSUME IInv, [Next]_vars PROVE IInv'
  OBVIOUS
<1> USE DEF admission, job, external, threads
<1>1. ASSUME NEW w \in Worker, Thread(w) PROVE IInv'
  BY <1>1, SubmitStep, AdmitStep, ClaimJobStep, RecordBoundaryStep,
     PostStep, StoreStep, AnsweredStep, SubmitRaisesStep,
     PollStep, AskProviderStep, WriteStatusStep, PollRaisesStep,
     FetchStep, ClaimDownloadStep, DownloadStep, FinishDownloadStep,
     FetchRaisesStep DEF Thread
<1>2. CASE ProviderEnds
  <2>1. MediaTypeOK'
    BY <1>2 DEF ProviderEnds, IInv, MediaTypeOK
  <2>2. ApprovedIsFresh' /\ OneSubmits' /\ PaidShows'
    BY <1>2 DEF ProviderEnds, IInv, ApprovedIsFresh, OneSubmits, PaidShows
  <2>3. CopyBacked' /\ OneDownloads'
    BY <1>2 DEF ProviderEnds, IInv, CopyBacked, OneDownloads
  <2>4. (posts <= 1)' /\ DownloadedOnce' /\ ReceiptBacked'
    BY <1>2 DEF ProviderEnds, IInv, DownloadedOnce, ReceiptBacked
  <2> QED
    BY <2>1, <2>2, <2>3, <2>4 DEF IInv
<1>3. CASE CancelRun
  <2>1. MediaTypeOK'
    BY <1>3 DEF CancelRun, IInv, MediaTypeOK
  <2>2. ApprovedIsFresh' /\ OneSubmits' /\ PaidShows'
    BY <1>3 DEF CancelRun, IInv, ApprovedIsFresh, OneSubmits, PaidShows
  <2>3. CopyBacked' /\ OneDownloads'
    BY <1>3 DEF CancelRun, IInv, CopyBacked, OneDownloads
  <2>4. (posts <= 1)' /\ DownloadedOnce' /\ ReceiptBacked'
    BY <1>3 DEF CancelRun, IInv, DownloadedOnce, ReceiptBacked
  <2> QED
    BY <2>1, <2>2, <2>3, <2>4 DEF IInv
<1>4. CASE Restart
  <2>1. /\ \A w \in Worker : pc'[w] = "idle" /\ copy'[w] = NoReceipt /\ answer'[w] = "none"
        /\ UNCHANGED <<async, approval, boundary, receipt, download, provider, posts, gets, stored>>
        /\ run' = run \/ (run = "created" /\ run' = "failed" /\ boundary = "not_dispatched")
    BY <1>4 DEF Restart
  <2>2. MediaTypeOK'
    <3>1. NoReceipt \in Receipts
      BY DEF NoReceipt, Receipts
    <3>2. /\ pc' = [w \in Worker |-> "idle"] /\ copy' = [w \in Worker |-> NoReceipt]
          /\ answer' = [w \in Worker |-> "none"] /\ crashes' = crashes + 1
      BY <1>4 DEF Restart
    <3>3. copy' \in [Worker -> Receipts]
      BY <3>1, <3>2
    <3>5. crashes' \in Nat
      <4>1. crashes \in Nat
        BY DEF IInv, MediaTypeOK
      <4> QED
        BY <3>2, <4>1
    <3>4. /\ pc' \in [Worker -> {"idle", "admit", "claim", "record", "post", "accepted",
                                 "store", "stored", "unknown", "get status", "write status",
                                 "claim download", "download", "finish", "settle claim"}]
          /\ answer' \in [Worker -> {"none", "running", "done", "error"}]
      BY <3>2
    <3> QED
      BY <2>1, <3>3, <3>4, <3>5 DEF IInv, MediaTypeOK
  <2>3. ApprovedIsFresh' /\ OneSubmits' /\ PaidShows'
    BY <2>1 DEF IInv, ApprovedIsFresh, OneSubmits, PaidShows, Submitting
  <2>4. CopyBacked'
    <3>1. NoReceipt.artifact = FALSE
      BY DEF NoReceipt
    <3> QED
      BY <2>1, <3>1 DEF CopyBacked, Polling, Fetching
  <2>a. OneDownloads'
    BY <2>1 DEF IInv, OneDownloads, Owning
  <2>5. (posts <= 1)' /\ DownloadedOnce' /\ ReceiptBacked'
    BY <2>1 DEF IInv, DownloadedOnce, ReceiptBacked
  <2> QED
    BY <2>2, <2>3, <2>4, <2>a, <2>5 DEF IInv
<1>5. CASE UNCHANGED vars
  <2> USE <1>5 DEF vars, IInv
  <2>1. MediaTypeOK'
    BY DEF MediaTypeOK
  <2>2. ApprovedIsFresh' /\ OneSubmits' /\ PaidShows'
    BY DEF ApprovedIsFresh, OneSubmits, PaidShows
  <2>3. CopyBacked' /\ OneDownloads'
    BY DEF CopyBacked, OneDownloads
  <2>4. (posts <= 1)' /\ DownloadedOnce' /\ ReceiptBacked'
    BY DEF DownloadedOnce, ReceiptBacked
  <2> QED
    BY <2>1, <2>2, <2>3, <2>4
<1> QED
  BY <1>1, <1>2, <1>3, <1>4, <1>5 DEF Next
-----------------------------------------------------------------------------
LEMMA SpecIInv == Spec => []IInv
  BY InitIInv, NextIInv, PTL DEF Spec

(* The variables of a media job keep their types, and a status is written  *)
(* only by a thread that was told one.                                     *)
THEOREM MediaTypeOKTheorem == Spec => []MediaTypeOK
<1>1. IInv => MediaTypeOK
  BY DEF IInv
<1> QED
  BY <1>1, SpecIInv, PTL

(* A media generation is paid for at most once, behind a durable boundary  *)
(* and a claimed job (submit_approved_media), and a run that recovery      *)
(* calls failed was never paid (the boundary test of its recovery).        *)
THEOREM PaidOnceTheorem == Spec => []PaidOnce
<1>1. IInv => PaidOnce
  <2> SUFFICES ASSUME IInv PROVE PaidOnce
    OBVIOUS
  <2>1. posts \in Nat /\ posts <= 1
    BY DEF IInv, MediaTypeOK
  <2>2. run = "failed" => posts = 0
    BY <2>1 DEF IInv, PaidShows
  <2> QED
    BY <2>1, <2>2 DEF IInv, PaidOnce, PaidShows
<1> QED
  BY <1>1, SpecIInv, PTL

(* An artifact is downloaded at most once (fetch_media_artifact).          *)
THEOREM DownloadedOnceTheorem == Spec => []DownloadedOnce
<1>1. IInv => DownloadedOnce
  BY DEF IInv
<1> QED
  BY <1>1, SpecIInv, PTL

(* What the receipt of a media job says of the disk, the provider and the  *)
(* payment is so, however stale the polls that write it.                   *)
THEOREM ReceiptBackedTheorem == Spec => []ReceiptBacked
<1>1. IInv => ReceiptBacked
  BY DEF IInv
<1> QED
  BY <1>1, SpecIInv, PTL
=============================================================================
