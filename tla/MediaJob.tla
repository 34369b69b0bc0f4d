------------------------------ MODULE MediaJob ------------------------------
(***************************************************************************)
(* One approved media job of capt_runtime/media_execution.py: its paid     *)
(* submission, the polls of an asynchronous (video) job and the download   *)
(* of its artifact, by any number of threads, with what the start of the   *)
(* service does to its run (desktop/capt_runtime_service.py).              *)
(*                                                                         *)
(* The receipt of the job lives in the idempotency table under the key     *)
(* media-job:<run>; complete_claimed_command replaces it as a whole.  The  *)
(* provider is external.  Uploads of files to a provider take the same     *)
(* path with other names and are left out.                                 *)
(***************************************************************************)
EXTENDS Naturals

CONSTANTS
  Worker,
  MaxCrashes   \* bound on restarts of the service

ASSUME MediaAssumption == MaxCrashes \in Nat

VARIABLES
  async,       \* is it a job to be polled, or answered at once?
  approval, run, boundary,
  receipt,     \* the job's receipt: its state, and whether it names an artifact
  download,    \* the claim media-download:<run>
  provider,    \* the job at the provider
  posts, gets, \* submissions paid, downloads begun
  stored,      \* is the artifact on disk?
  pc,          \* each thread's place
  copy,        \* the receipt as the thread read it
  answer,      \* what the provider told the thread
  crashes

admission == <<approval, run, boundary>>
job == <<receipt, download>>
external == <<provider, posts, gets, stored>>
threads == <<pc, copy, answer>>
vars == <<async, admission, job, external, threads, crashes>>

NoReceipt == [state |-> "none", artifact |-> FALSE]

Init ==
  /\ async \in BOOLEAN
  /\ approval = "approved" /\ run = "absent" /\ boundary = "not_dispatched"
  /\ receipt = NoReceipt /\ download = "none"
  /\ provider = "none" /\ posts = 0 /\ gets = 0 /\ stored = FALSE
  /\ pc = [w \in Worker |-> "idle"]
  /\ copy = [w \in Worker |-> NoReceipt]
  /\ answer = [w \in Worker |-> "none"]
  /\ crashes = 0
-----------------------------------------------------------------------------
Goto(w, label) == pc' = [pc EXCEPT ![w] = label]
Proceed(w, from, to) ==
  /\ pc[w] = from /\ Goto(w, to)
  /\ UNCHANGED <<async, copy, answer, crashes>>

(* submit_approved_media.  A consumed approval is answered with the status. *)
Submit(w) ==
  /\ approval = "approved"
  /\ Proceed(w, "idle", "admit")
  /\ UNCHANGED <<admission, job, external>>

(* admit_approved_model_execution, under a key all submissions share.      *)
Admit(w) ==
  \/ /\ approval = "approved" /\ run = "absent"
     /\ approval' = "consumed" /\ run' = "created"
     /\ Proceed(w, "admit", "claim")
     /\ UNCHANGED <<boundary, job, external>>
  \/ /\ approval # "approved"
     /\ Proceed(w, "admit", "idle")
     /\ UNCHANGED <<admission, job, external>>

ClaimJob(w) ==
  /\ Proceed(w, "claim", "record")
  /\ receipt' = [receipt EXCEPT !.state = "claimed"]
  /\ UNCHANGED <<admission, download, external>>

(* The boundary is durable before the request; the run's state is not read. *)
RecordBoundary(w) ==
  /\ Proceed(w, "record", "post")
  /\ boundary' = "request_started"
  /\ UNCHANGED <<approval, run, job, external>>

Post(w) ==
  /\ Proceed(w, "post", IF async THEN "accepted" ELSE "store")
  /\ posts' = posts + 1
  /\ provider' = IF async THEN "running" ELSE "done"
  /\ UNCHANGED <<admission, job, gets, stored>>

(* A synchronous answer is written to disk, then named in the receipt.     *)
Store(w) ==
  /\ Proceed(w, "store", "stored")
  /\ stored' = TRUE
  /\ UNCHANGED <<admission, job, provider, posts, gets>>

WriteReceipt(w, from, to, value) ==
  /\ Proceed(w, from, to)
  /\ receipt' = value
  /\ UNCHANGED <<admission, download, external>>

Answered(w) ==
  \/ WriteReceipt(w, "accepted", "idle", [state |-> "submitted", artifact |-> FALSE])
  \/ WriteReceipt(w, "stored", "idle", [state |-> "completed", artifact |-> TRUE])
  \/ WriteReceipt(w, "unknown", "idle", [state |-> "indeterminate", artifact |-> FALSE])

\* Mutant: a submission that raised is made again.
SubmitRaises_Retried(w) ==
  \/ /\ pc[w] \in {"post", "accepted", "store", "stored"}
     /\ Proceed(w, pc[w], "post")
     /\ UNCHANGED <<admission, job, external>>
  \/ /\ pc[w] \in {"admit", "claim", "record"}
     /\ Proceed(w, pc[w], "idle")
     /\ UNCHANGED <<admission, job, external>>

(* What raises after the boundary makes the receipt indeterminate; what    *)
(* raises before it leaves the call.                                       *)
SubmitRaises(w) ==
  \/ /\ pc[w] \in {"post", "accepted", "store", "stored"}
     /\ Proceed(w, pc[w], "unknown")
     /\ UNCHANGED <<admission, job, external>>
  \/ /\ pc[w] \in {"admit", "claim", "record"}
     /\ Proceed(w, pc[w], "idle")
     /\ UNCHANGED <<admission, job, external>>
-----------------------------------------------------------------------------
(* _job_binding, and the receipt read for a poll or a download.            *)
Read(w, states, label) ==
  /\ pc[w] = "idle" /\ async
  /\ approval = "consumed" /\ receipt.state \in states
  /\ Goto(w, label)
  /\ copy' = [copy EXCEPT ![w] = receipt]
  /\ UNCHANGED <<async, admission, job, external, answer, crashes>>

Poll(w) == Read(w, {"submitted", "processing"}, "get status")

AskProvider(w) ==
  /\ pc[w] = "get status" /\ Goto(w, "write status")
  /\ answer' = [answer EXCEPT ![w] = provider]
  /\ UNCHANGED <<async, admission, job, external, copy, crashes>>

StateOf ==
  [running |-> "processing", error |-> "failed", done |-> "ready_to_download"]

(* The state is put into the receipt read before the provider was asked.   *)
WriteStatus(w) ==
  /\ pc[w] = "write status"
  /\ WriteReceipt(w, "write status", "idle",
                  [copy[w] EXCEPT !.state = StateOf[answer[w]]])

Fetch(w) == Read(w, {"ready_to_download"}, "claim download")

\* Mutant: a claim somebody else made is taken for one's own.
ClaimDownload_Replayed(w) ==
  /\ Proceed(w, "claim download", "download")
  /\ download' = "claimed"
  /\ UNCHANGED <<admission, receipt, external>>

ClaimDownload(w) ==
  \/ /\ download = "none" /\ download' = "claimed"
     /\ Proceed(w, "claim download", "download")
     /\ UNCHANGED <<admission, receipt, external>>
  \/ /\ download # "none"
     /\ Proceed(w, "claim download", "idle")
     /\ UNCHANGED <<admission, job, external>>

\* Mutant: the receipt is completed before the file is on disk.
Download_Unsynced(w) ==
  /\ Proceed(w, "download", "finish")
  /\ gets' = gets + 1
  /\ UNCHANGED <<admission, job, provider, posts, stored>>

Download(w) ==
  /\ Proceed(w, "download", "finish")
  /\ gets' = gets + 1 /\ stored' = TRUE
  /\ UNCHANGED <<admission, job, provider, posts>>

FinishDownload(w) ==
  \/ /\ pc[w] = "finish"
     /\ WriteReceipt(w, "finish", "settle claim",
                     [copy[w] EXCEPT !.state = "completed", !.artifact = TRUE])
  \/ /\ Proceed(w, "settle claim", "idle") /\ download' = "completed"
     /\ UNCHANGED <<admission, receipt, external>>

(* Whatever raises after the claim settles it as indeterminate.            *)
FetchRaises(w) ==
  \/ /\ pc[w] = "download" /\ gets' = gets + 1
     /\ Proceed(w, "download", "idle") /\ download' = "indeterminate"
     /\ UNCHANGED <<admission, receipt, provider, posts, stored>>
  \/ /\ pc[w] \in {"finish", "settle claim"}
     /\ Proceed(w, pc[w], "idle") /\ download' = "indeterminate"
     /\ UNCHANGED <<admission, receipt, external>>

PollRaises(w) ==
  /\ pc[w] \in {"get status", "write status"}
  /\ Proceed(w, pc[w], "idle")
  /\ UNCHANGED <<admission, job, external>>
-----------------------------------------------------------------------------
(* External: an accepted job ends.                                         *)
ProviderEnds ==
  /\ provider = "running" /\ provider' \in {"done", "error"}
  /\ UNCHANGED <<async, admission, job, posts, gets, stored, threads, crashes>>

(* cancel_driver_run: the only way such a run leaves "created".            *)
CancelRun ==
  /\ run = "created" /\ run' = "cancelled"
  /\ UNCHANGED <<async, approval, boundary, job, external, threads, crashes>>

(* The service dies, and its recovery fails the run only if its boundary   *)
(* proves that nothing left.  Receipts and claims are left as they are.    *)
Restart ==
  /\ crashes < MaxCrashes /\ crashes' = crashes + 1
  /\ pc' = [w \in Worker |-> "idle"]
  /\ copy' = [w \in Worker |-> NoReceipt]
  /\ answer' = [w \in Worker |-> "none"]
  /\ run' = IF run = "created" /\ boundary = "not_dispatched" THEN "failed" ELSE run
  /\ UNCHANGED <<async, approval, boundary, job, external>>
-----------------------------------------------------------------------------
Thread(w) ==
  \/ Submit(w) \/ Admit(w) \/ ClaimJob(w) \/ RecordBoundary(w) \/ Post(w)
  \/ Store(w) \/ Answered(w) \/ SubmitRaises(w)
  \/ Poll(w) \/ AskProvider(w) \/ WriteStatus(w) \/ PollRaises(w)
  \/ Fetch(w) \/ ClaimDownload(w) \/ Download(w) \/ FinishDownload(w) \/ FetchRaises(w)

Next == (\E w \in Worker : Thread(w)) \/ ProviderEnds \/ CancelRun \/ Restart

Spec == Init /\ [][Next]_vars
-----------------------------------------------------------------------------
Receipts ==
  [state : {"none", "claimed", "submitted", "processing", "failed", "indeterminate",
            "ready_to_download", "completed"},
   artifact : BOOLEAN]

(* Types; and that a thread writes a status only when it was told one.     *)
MediaTypeOK ==
  /\ async \in BOOLEAN
  /\ approval \in {"approved", "consumed"}
  /\ run \in {"absent", "created", "cancelled", "failed"}
  /\ boundary \in {"not_dispatched", "request_started"}
  /\ receipt \in Receipts /\ copy \in [Worker -> Receipts]
  /\ download \in {"none", "claimed", "completed", "indeterminate"}
  /\ provider \in {"none", "running", "done", "error"}
  /\ posts \in Nat /\ gets \in Nat /\ crashes \in Nat /\ stored \in BOOLEAN
  /\ pc \in [Worker -> {"idle", "admit", "claim", "record", "post", "accepted", "store",
                        "stored", "unknown", "get status", "write status",
                        "claim download", "download", "finish", "settle claim"}]
  /\ answer \in [Worker -> {"none", "running", "done", "error"}]
  /\ \A w \in Worker : pc[w] = "write status" => answer[w] # "none"

(* The generation is paid for once, whatever is sent again, raises or      *)
(* crashes, and never without a durable boundary and a claimed job ("Never *)
(* auto-retry", submit_approved_media); and a run is called failed only if *)
(* nothing was paid.                                                       *)
PaidOnce ==
  /\ posts <= 1
  /\ posts = 1 => boundary = "request_started" /\ receipt.state # "none"
  /\ run = "failed" => posts = 0

(* The artifact is downloaded at most once ("Never automatically           *)
(* re-download", fetch_media_artifact).                                    *)
DownloadedOnce == gets <= 1

(* What a receipt says is so: an artifact it names is on disk, a job ready *)
(* for download is done and a failed one has failed at the provider.       *)
ReceiptBacked ==
  /\ receipt.artifact => stored
  /\ receipt.state = "ready_to_download" => provider = "done"
  /\ receipt.state = "failed" => provider = "error"
  /\ receipt.state \in {"submitted", "processing", "completed"} => posts = 1

(* A receipt replaces "an admitted command's provisional receipt with its  *)
(* outcome" (complete_claimed_command): a completed one stays.             *)
CompletedStays ==
  [][receipt.state = "completed" => receipt'.state = "completed"]_vars
=============================================================================
