------------------------------ MODULE TenantJobs ------------------------------
(***************************************************************************)
(* The background jobs of one tenant: the job table, the job workers of    *)
(* the server instances with the handler of each type of job, and the      *)
(* owner's lifecycle routes that create export and deletion jobs.          *)
(*                                                                         *)
(* A worker runs one database statement, transaction or call to the SMTP   *)
(* server or the file system per step.  Deleting the tenant removes every  *)
(* row of this module but the receipts.                                    *)
(***************************************************************************)
EXTENDS Integers, FiniteSets

CONSTANTS
  Sends,        \* messages queued for the SMTP provider: SMTP_SEND jobs
  Digests,      \* NOTIFICATION_DIGEST jobs
  Exports,      \* DATA_EXPORT jobs
  Deletions,    \* tenant deletion requests, each with its DATA_DELETION job
  Owners,       \* requests of owners that may be in progress at the same time
  Workers,      \* job workers: one per server instance
  MaxAttempts,  \* background_jobs.max_attempts
  MaxJobs,      \* bound: how many jobs are queued, deletions aside
  MaxFaults,    \* bound: how many calls may fail
  MaxCrash      \* bound: how many workers may die in the middle of a job

Jobs == Sends \cup Digests \cup Exports \cup Deletions

ASSUME JobAssumption ==
  /\ Sends \cap (Digests \cup Exports \cup Deletions) = {}
  /\ Digests \cap (Exports \cup Deletions) = {}
  /\ Exports \cap Deletions = {}
  /\ Owners \cap Workers = {}
  /\ MaxAttempts \in Nat \ {0}
  /\ MaxJobs \in Nat
  /\ MaxFaults \in Nat
  /\ MaxCrash \in Nat

VARIABLES
  job,       \* background_jobs: status, attempts, whether run_at has passed, payload.confirmed
  req,       \* status of the deletion requests in data_lifecycle_requests
  tenant,    \* TRUE while the tenant's row exists
  receipts,  \* tenant_deletion_receipts: the requests that have one
  files,     \* export files on disk, named by the job and the attempt that wrote them
  result,    \* attempt whose file a completed export names, 0 when it is not completed
  work,      \* the job workers
  form,      \* the owners' requests in progress
  smtp,      \* history: how often each message was handed to the SMTP server
  digests,   \* notifications created by each digest job
  orphan,    \* history: jobs left RUNNING: their worker died, or let go of them
  stray,     \* history: export files that nobody removes any more
  unsure,    \* history: jobs with a committed transaction whose answer was lost
  budget     \* failures and crashes still allowed

vars == <<job, req, tenant, receipts, files, result, work, form, smtp, digests, orphan,
          stray, unsure, budget>>
lifecycle == <<req, tenant, receipts>>
effects   == <<files, result, smtp, digests>>
history   == <<orphan, stray, unsure, budget>>

JobStates == {"NONE", "PENDING", "RETRY", "RUNNING", "COMPLETED", "FAILED", "CANCELLED", "GONE"}
Stages    == {"NONE", "REQUESTED", "APPROVED", "PROCESSING", "CANCELLED", "GONE"}
Settled   == {"COMPLETED", "FAILED", "CANCELLED", "GONE"}

IdleWorker == [pc |-> "idle", job |-> {}, try |-> 0, keys |-> {}]
IdleForm   == [pc |-> "idle", req |-> {}, linked |-> FALSE]

Taken(j)   == [pc |-> "start", job |-> {j}, try |-> job[j].attempts + 1, keys |-> {}]

At(w, pc, j)     == work[w].pc = pc /\ work[w].job = {j}
GoOn(w, pc)      == work' = [work EXCEPT ![w].pc = pc]
Rest(w)          == work' = [work EXCEPT ![w] = IdleWorker]
Answering(o, pc, d) == form[o].pc = pc /\ form[o].req = {d}

\* A call fails: the database, the SMTP server or the file system.  What is done on a tenant
\* that is gone fails by itself.
Fault == budget.fault > 0 /\ budget' = [budget EXCEPT !.fault = @ - 1]
FaultOrGone == IF tenant THEN Fault ELSE UNCHANGED budget

Created == [status |-> "PENDING", attempts |-> 0, due |-> TRUE, confirmed |-> FALSE]

-----------------------------------------------------------------------------
(* The owner's routes                                                      *)

\* enqueue: an upsert by idempotency key that leaves an existing job as it is.
Enqueue(j) ==
  /\ tenant
  /\ job[j].status = "NONE"
  /\ Cardinality({k \in Jobs \ Deletions : job[k].status # "NONE"}) < MaxJobs
  /\ job' = [job EXCEPT ![j] = Created]
  /\ UNCHANGED <<lifecycle, effects, work, form, history>>

RequestDeletion(d) ==
  /\ tenant
  /\ req[d] = "NONE"
  /\ req' = [req EXCEPT ![d] = "REQUESTED"]
  /\ UNCHANGED <<job, tenant, receipts, effects, work, form, history>>

\* approve, confirm-deletion and cancel read the request, and then change it by id.
Open(o, d, pc, readable) ==
  /\ form[o] = IdleForm
  /\ readable
  /\ form' = [form EXCEPT ![o] = [pc |-> pc, req |-> {d}, linked |-> job[d].status # "NONE"]]
  /\ UNCHANGED <<job, lifecycle, effects, work, history>>

Close(o) == form' = [form EXCEPT ![o] = IdleForm]

ApproveRead(o, d) == Open(o, d, "approve", req[d] = "REQUESTED")

ApproveWrite(o, d) ==
  /\ Answering(o, "approve", d)
  /\ IF tenant
     THEN /\ req' = [req EXCEPT ![d] = "APPROVED"]
          /\ job' = [job EXCEPT ![d] = IF @.status = "NONE" THEN Created ELSE @]
     ELSE UNCHANGED <<req, job>>
  /\ Close(o)
  /\ UNCHANGED <<tenant, receipts, effects, work, history>>

ConfirmRead(o, d) ==
  Open(o, d, "confirm", req[d] = "APPROVED" /\ job[d].status = "PENDING")

ConfirmWrite(o, d) ==
  /\ Answering(o, "confirm", d)
  /\ IF tenant
     THEN /\ req' = [req EXCEPT ![d] = "PROCESSING"]
          /\ job' = [job EXCEPT ![d].confirmed = TRUE, ![d].due = TRUE]
     ELSE UNCHANGED <<req, job>>
  /\ Close(o)
  /\ UNCHANGED <<tenant, receipts, effects, work, history>>

\* Mutant of CancelRead: a confirmed request may be cancelled too.
CancelReadLate(o, d) ==
  Open(o, d, "cancel", req[d] \in {"REQUESTED", "APPROVED", "PROCESSING"})

CancelRead(o, d) == Open(o, d, "cancel", req[d] \in {"REQUESTED", "APPROVED"})

\* The job is cancelled only if the request had one when it was read, and is still PENDING.
CancelWrite(o, d) ==
  /\ Answering(o, "cancel", d)
  /\ IF tenant
     THEN /\ req' = [req EXCEPT ![d] = "CANCELLED"]
          /\ job' = [job EXCEPT ![d].status =
                       IF form[o].linked /\ @ = "PENDING" THEN "CANCELLED" ELSE @]
     ELSE UNCHANGED <<req, job>>
  /\ Close(o)
  /\ UNCHANGED <<tenant, receipts, effects, work, history>>

-----------------------------------------------------------------------------
(* The queue                                                               *)

\* A deletion is offered to the workers only with its final confirmation.
Supported(j) == j \in Deletions => job[j].confirmed

\* Mutant of Claim: a job that is RUNNING may be claimed (a lock that is not looked at).
ClaimRunning(w, j) ==
  /\ work[w] = IdleWorker
  /\ job[j].status \in {"PENDING", "RETRY", "RUNNING"} /\ job[j].due /\ Supported(j)
  /\ job' = [job EXCEPT ![j].status = "RUNNING", ![j].attempts = @ + 1]
  /\ work' = [work EXCEPT ![w] = Taken(j)]
  /\ UNCHANGED <<lifecycle, effects, form, history>>

\* claimSupported: one UPDATE over a SELECT ... FOR UPDATE SKIP LOCKED, and then a read of the
\* claimed row.  If the read fails the run ends there, and the row stays RUNNING.
Claim(w, j) ==
  /\ work[w] = IdleWorker
  /\ job[j].status \in {"PENDING", "RETRY"} /\ job[j].due /\ Supported(j)
  /\ job' = [job EXCEPT ![j].status = "RUNNING", ![j].attempts = @ + 1]
  /\ \/ work' = [work EXCEPT ![w] = Taken(j)] /\ UNCHANGED <<orphan, budget>>
     \/ Fault /\ orphan' = orphan \cup {j} /\ UNCHANGED work
  /\ UNCHANGED <<lifecycle, effects, form, stray, unsure>>

\* Mutants of Verdict: no limit; a retry that stays RUNNING.
VerdictEndless(j) == [status |-> "RETRY", due |-> FALSE]
VerdictLost(j)    == IF job[j].attempts < MaxAttempts THEN [status |-> "RUNNING", due |-> FALSE]
                                                      ELSE [status |-> "FAILED", due |-> TRUE]
Verdict(j) == IF job[j].attempts < MaxAttempts THEN [status |-> "RETRY", due |-> FALSE]
                                               ELSE [status |-> "FAILED", due |-> TRUE]

\* The catch block of processNext.  fail throws when the row is gone or one of its own two
\* queries fails: the run ends, and what was RUNNING stays so.
Fail(w, j) ==
  /\ At(w, "failing", j)
  /\ \/ /\ tenant
        /\ job' = [job EXCEPT ![j].status = Verdict(j).status, ![j].due = Verdict(j).due]
        /\ UNCHANGED <<orphan, budget>>
     \/ ~tenant /\ UNCHANGED <<job, orphan, budget>>
     \/ tenant /\ Fault /\ orphan' = orphan \cup {j} /\ UNCHANGED job
  /\ Rest(w)
  /\ UNCHANGED <<lifecycle, effects, form, stray, unsure>>

RetryDue(j) ==
  /\ job[j].status = "RETRY" /\ ~job[j].due
  /\ job' = [job EXCEPT ![j].due = TRUE]
  /\ UNCHANGED <<lifecycle, effects, work, form, history>>

-----------------------------------------------------------------------------
(* SMTP_SEND and NOTIFICATION_DIGEST                                       *)

\* sendMessage: the message is handed over, then its recipients are updated in a
\* transaction, then the job is completed: three steps, each of which may fail, the first
\* also after the server has taken the message.
SmtpSend(w, j) ==
  /\ At(w, "start", j) /\ j \in Sends
  /\ \/ /\ tenant
        /\ smtp' = [smtp EXCEPT ![j] = @ + 1]
        /\ GoOn(w, "record")
        /\ UNCHANGED budget
     \/ /\ tenant /\ Fault
        /\ smtp' \in {smtp, [smtp EXCEPT ![j] = @ + 1]}
        /\ GoOn(w, "failing")
     \/ /\ ~tenant
        /\ GoOn(w, "failing")
        /\ UNCHANGED <<smtp, budget>>
  /\ UNCHANGED <<job, lifecycle, files, result, digests, form, orphan, stray, unsure>>

SmtpRecord(w, j) ==
  /\ At(w, "record", j)
  /\ \/ tenant /\ GoOn(w, "complete") /\ UNCHANGED budget
     \/ FaultOrGone /\ GoOn(w, "failing")
  /\ UNCHANGED <<job, lifecycle, effects, form, orphan, stray, unsure>>

\* How a transaction that completes job j ends, with the worker at pc after a failure: it
\* commits; it commits and its answer is lost; or it does nothing.
Commits(w, j, pc) ==
  \/ Rest(w) /\ UNCHANGED <<unsure, budget>>
  \/ Fault /\ unsure' = unsure \cup {j} /\ GoOn(w, pc)
RollsBack(w, pc) == FaultOrGone /\ GoOn(w, pc) /\ UNCHANGED unsure

Complete(w, j) ==
  /\ At(w, "complete", j)
  /\ \/ /\ tenant /\ Commits(w, j, "failing")
        /\ job' = [job EXCEPT ![j].status = "COMPLETED"]
     \/ RollsBack(w, "failing") /\ UNCHANGED job
  /\ UNCHANGED <<lifecycle, effects, form, orphan, stray>>

\* processDigest: the notification and the end of the job in one transaction.
DigestWrite(w, j) ==
  /\ At(w, "start", j) /\ j \in Digests
  /\ \/ /\ tenant /\ Commits(w, j, "failing")
        /\ digests' = [digests EXCEPT ![j] = @ + 1]
        /\ job' = [job EXCEPT ![j].status = "COMPLETED"]
     \/ RollsBack(w, "failing") /\ UNCHANGED <<digests, job>>
  /\ UNCHANGED <<lifecycle, files, result, smtp, form, orphan, stray>>

-----------------------------------------------------------------------------
(* DATA_EXPORT                                                             *)

\* processExport: the tenant is read and written to a new file (a write that fails may leave
\* a part of it, under a name nobody learns) ...
ExportSave(w, j) ==
  /\ At(w, "start", j) /\ j \in Exports
  /\ \/ /\ tenant
        /\ files' = files \cup {<<j, work[w].try>>}
        /\ GoOn(w, "export")
        /\ UNCHANGED <<stray, budget>>
     \/ /\ tenant /\ Fault
        /\ files' = files \cup {<<j, work[w].try>>}
        /\ stray' = stray \cup {<<j, work[w].try>>}
        /\ GoOn(w, "failing")
     \/ FaultOrGone /\ GoOn(w, "failing") /\ UNCHANGED <<files, stray>>
  /\ UNCHANGED <<job, lifecycle, result, smtp, digests, form, orphan, unsure>>

\* ... the job is completed with the file's key in its result ...
ExportCommit(w, j) ==
  /\ At(w, "export", j)
  /\ \/ /\ tenant /\ Commits(w, j, "unsave")
        /\ job' = [job EXCEPT ![j].status = "COMPLETED"]
        /\ result' = [result EXCEPT ![j] = work[w].try]
     \/ RollsBack(w, "unsave") /\ UNCHANGED <<job, result>>
  /\ UNCHANGED <<lifecycle, files, smtp, digests, form, orphan, stray>>

\* Mutant of ExportUnsave: the error is passed on and the file stays.
ExportKeepFile(w, j) ==
  /\ At(w, "unsave", j)
  /\ GoOn(w, "failing")
  /\ UNCHANGED <<job, lifecycle, effects, form, history>>

\* ... or the file is removed again and the error passed on, or that of the removal.
ExportUnsave(w, j) ==
  /\ At(w, "unsave", j)
  /\ \/ files' = files \ {<<j, work[w].try>>} /\ UNCHANGED <<stray, budget>>
     \/ Fault /\ stray' = stray \cup {<<j, work[w].try>>} /\ UNCHANGED files
  /\ GoOn(w, "failing")
  /\ UNCHANGED <<job, lifecycle, result, smtp, digests, form, orphan, unsure>>

-----------------------------------------------------------------------------
(* DATA_DELETION                                                           *)

\* processDeletion reads the request and the keys of the export files ...
Results == {<<e, result[e]>> : e \in {x \in Exports : result[x] > 0}}

DeletionRead(w, j) ==
  /\ At(w, "start", j) /\ j \in Deletions
  /\ \/ /\ tenant /\ req[j] = "PROCESSING"
        /\ work' = [work EXCEPT ![w].pc = "erase", ![w].keys = Results]
        /\ UNCHANGED budget
     \/ ~(tenant /\ req[j] = "PROCESSING") /\ GoOn(w, "failing") /\ UNCHANGED budget
     \/ Fault /\ GoOn(w, "failing")
  /\ UNCHANGED <<job, lifecycle, effects, form, orphan, stray, unsure>>

\* ... creates the receipt and deletes the tenant in one transaction: an export that completed
\* since the read leaves its file, and all do when the answer of the commit is lost ...
Erased(j) ==
  /\ receipts' = receipts \cup {j}
  /\ tenant' = FALSE
  /\ job' = [x \in Jobs |-> [job[x] EXCEPT !.status = "GONE"]]
  /\ req' = [d \in Deletions |-> "GONE"]

DeletionWrite(w, j) ==
  /\ At(w, "erase", j) /\ j \in Deletions
  /\ \/ /\ tenant /\ Erased(j)
        /\ \/ /\ stray' = stray \cup (Results \ work[w].keys)
              /\ GoOn(w, "files")
              /\ UNCHANGED budget
           \/ Fault /\ stray' = stray \cup Results /\ GoOn(w, "failing")
     \/ /\ FaultOrGone
        /\ GoOn(w, "failing")
        /\ UNCHANGED <<lifecycle, job, stray>>
  /\ UNCHANGED <<effects, form, orphan, unsure>>

\* ... and then deletes the files it knew of; what cannot be deleted is left, and no error.
DeletionFiles(w, j) ==
  /\ At(w, "files", j)
  /\ \E left \in SUBSET (files \cap work[w].keys) :
       /\ files' = (files \ work[w].keys) \cup left
       /\ stray' = stray \cup left
       /\ IF left = {} THEN UNCHANGED budget ELSE Fault
  /\ Rest(w)
  /\ UNCHANGED <<job, lifecycle, result, smtp, digests, form, orphan, unsure>>

\* The files a worker is still to record or to remove.
FilesOf(w) == {f \in files : \/ work[w].job = {f[1]} /\ work[w].try = f[2]
                             \/ work[w].pc = "files" /\ f \in work[w].keys}

\* The server instance dies; nothing ever looks at locked_at of a RUNNING job.
Crash(w) ==
  /\ work[w] # IdleWorker
  /\ budget.crash > 0
  /\ budget' = [budget EXCEPT !.crash = @ - 1]
  /\ orphan' = orphan \cup work[w].job
  /\ stray' = stray \cup FilesOf(w)
  /\ Rest(w)
  /\ UNCHANGED <<job, lifecycle, effects, form, unsure>>

-----------------------------------------------------------------------------
Init ==
  /\ job = [j \in Jobs |-> [Created EXCEPT !.status = "NONE"]]
  /\ req = [d \in Deletions |-> "NONE"]
  /\ tenant = TRUE
  /\ receipts = {}
  /\ files = {}
  /\ result = [e \in Exports |-> 0]
  /\ work = [w \in Workers |-> IdleWorker]
  /\ form = [o \in Owners |-> IdleForm]
  /\ smtp = [j \in Sends |-> 0]
  /\ digests = [j \in Digests |-> 0]
  /\ orphan = {}
  /\ stray = {}
  /\ unsure = {}
  /\ budget = [fault |-> MaxFaults, crash |-> MaxCrash]

OwnerStep(o, d) ==
  \/ ApproveRead(o, d) \/ ApproveWrite(o, d)
  \/ ConfirmRead(o, d) \/ ConfirmWrite(o, d)
  \/ CancelRead(o, d) \/ CancelWrite(o, d)

WorkerStep(w, j) ==
  \/ Claim(w, j) \/ Fail(w, j)
  \/ SmtpSend(w, j) \/ SmtpRecord(w, j) \/ Complete(w, j)
  \/ DigestWrite(w, j)
  \/ ExportSave(w, j) \/ ExportCommit(w, j) \/ ExportUnsave(w, j)
  \/ DeletionRead(w, j) \/ DeletionWrite(w, j) \/ DeletionFiles(w, j)

Next ==
  \/ \E j \in Jobs \ Deletions : Enqueue(j)
  \/ \E d \in Deletions : RequestDeletion(d)
  \/ \E o \in Owners, d \in Deletions : OwnerStep(o, d)
  \/ \E w \in Workers, j \in Jobs : WorkerStep(w, j)
  \/ \E j \in Jobs : RetryDue(j)
  \/ \E w \in Workers : Crash(w)

Spec == Init /\ [][Next]_vars

\* The worker's timer fires again and again, its awaits return, and back-off times pass.
Progress(w) == \E j \in Jobs : WorkerStep(w, j)
FairSpec ==
  /\ Spec
  /\ \A w \in Workers : WF_vars(Progress(w))
  /\ \A j \in Jobs : WF_vars(RetryDue(j))

-----------------------------------------------------------------------------
(* Properties                                                              *)

Pcs == {"idle", "start", "failing", "record", "complete", "export", "unsave", "erase", "files"}

JobType  == job \in [Jobs -> [status : JobStates, attempts : Nat, due : BOOLEAN,
                              confirmed : BOOLEAN]]
LifecycleType ==
  /\ req \in [Deletions -> Stages]
  /\ tenant \in BOOLEAN
  /\ receipts \subseteq Deletions
EffectType ==
  /\ files \subseteq Exports \X Nat
  /\ result \in [Exports -> Nat]
  /\ smtp \in [Sends -> Nat]
  /\ digests \in [Digests -> Nat]
WorkType == work \in [Workers -> [pc : Pcs, job : SUBSET Jobs, try : Nat,
                                  keys : SUBSET (Exports \X Nat)]]
FormType == form \in [Owners -> [pc : {"idle", "approve", "confirm", "cancel"},
                                 req : SUBSET Deletions, linked : BOOLEAN]]
HistoryType == /\ orphan \subseteq Jobs /\ stray \subseteq Jobs \X Nat
               /\ unsure \subseteq Jobs
               /\ budget \in [fault : Nat, crash : Nat]

TypeOK == JobType /\ LifecycleType /\ EffectType /\ WorkType /\ FormType /\ HistoryType

Busy(w, j) == work[w].job = {j} /\ work[w].pc # "idle"

\* A job is RUNNING only while one worker is busy with it, or because that worker died or a
\* query outside of the try of processNext failed (the read of the claimed row, those of
\* fail): no failure of a handler or of complete leaves one behind, and no two workers run
\* the same job (claimSupported never takes a RUNNING job).
RunningIsHeld ==
  \A j \in Jobs :
    /\ job[j].status = "RUNNING" => j \in orphan \/ \E w \in Workers : Busy(w, j)
    /\ \A v, w \in Workers : Busy(v, j) /\ Busy(w, j) => v = w

\* A message is handed to the SMTP server at most once per attempt of its job, so never
\* more often than max_attempts, whatever fails between the hand-over and the end of the job;
\* a digest creates its notification when it completes, and never a second one unless the
\* answer of that transaction was lost.
EffectsBounded ==
  /\ \A j \in Sends : smtp[j] <= job[j].attempts /\ job[j].attempts <= MaxAttempts
  /\ \A j \in Digests : /\ digests[j] <= 1 \/ j \in unsure
                        /\ job[j].status = "COMPLETED" => digests[j] >= 1

\* A completed export can be downloaded, unless the answer of its transaction was lost; and
\* every export file is the result of an export or in the hands of a worker.  Nothing else of
\* the tenant's data is left on disk once it is erased but what stray names: files whose
\* writing or removal failed, those of a worker that died, and of an export that completed
\* between the deletion's read and its transaction or whose deletion's answer was lost.
FilesAccounted ==
  /\ \A e \in Exports : tenant /\ job[e].status = "COMPLETED" =>
                          <<e, result[e]>> \in files \/ e \in unsure
  /\ \A f \in files \ stray :
       \/ tenant /\ result[f[1]] = f[2]
       \/ \E w \in Workers : f \in FilesOf(w)

\* With one owner's request at a time the lifecycle routes and the worker implement the
\* three-stage deletion.
Deletion == INSTANCE TenantDeletion WITH stage <- req, erased <- receipts
ThreeStages == Deletion!Spec

\* A job that may run ends: completed, failed for good or cancelled, unless its worker died
\* or a query outside of the try of processNext failed.
JobsSettle ==
  \A j \in Jobs :
    job[j].status \in {"PENDING", "RETRY"} /\ Supported(j)
      ~> job[j].status \in Settled \/ j \in orphan

\* No tenant is erased under a request that is CANCELLED.
CancelledStands == [][\A d \in receipts' \ receipts : req[d] # "CANCELLED"]_vars

=============================================================================
