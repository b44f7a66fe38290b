-------------------------- MODULE TenantJobsProofs --------------------------
(***************************************************************************)
(* Proofs about TenantJobs, for every number of jobs, requests, owners and *)
(* workers.                                                                *)
(***************************************************************************)
EXTENDS TenantJobs, TLAPS

-----------------------------------------------------------------------------
(* Types                                                                   *)

\* The ways a worker's and an owner's record change keep their types.
LEMMA GoOnType ==
  ASSUME WorkType, NEW w \in Workers, NEW pc \in Pcs, GoOn(w, pc) PROVE WorkType'
  BY DEF WorkType, GoOn

LEMMA RestType == ASSUME WorkType, NEW w \in Workers, Rest(w) PROVE WorkType'
  BY DEF WorkType, Rest, IdleWorker, Pcs

LEMMA CloseType == ASSUME FormType, NEW o \in Owners, Close(o) PROVE FormType'
  BY DEF FormType, Close, IdleForm

\* The ways the history changes keep its types.
LEMMA HistoryKept ==
  ASSUME HistoryType, Fault \/ FaultOrGone \/ UNCHANGED budget,
         orphan' \subseteq Jobs, stray' \subseteq Jobs \X Nat, unsure' \subseteq Jobs
  PROVE  HistoryType'
<1>1. UNCHANGED budget \/ Fault
  BY DEF FaultOrGone
<1>2. budget' \in [fault : Nat, crash : Nat]
  BY <1>1 DEF HistoryType, Fault
<1> QED
  BY <1>2 DEF HistoryType

LEMMA ResultsType == ASSUME EffectType PROVE Results \subseteq Exports \X Nat
  BY DEF EffectType, Results

LEMMA CreatedType ==
  Created \in [status : JobStates, attempts : Nat, due : BOOLEAN, confirmed : BOOLEAN]
  BY DEF Created, JobStates

LEMMA InitTypeOK == Init => TypeOK
<1> SUFFICES ASSUME Init PROVE TypeOK
  OBVIOUS
<1>1. JobType
  <2>1. [Created EXCEPT !.status = "NONE"]
          \in [status : JobStates, attempts : Nat, due : BOOLEAN, confirmed : BOOLEAN]
    BY DEF Created, JobStates
  <2> QED
    BY <2>1 DEF Init, JobType
<1>2. LifecycleType /\ EffectType /\ HistoryType
  BY JobAssumption DEF Init, LifecycleType, EffectType, HistoryType, Stages
<1>3. WorkType
  BY DEF Init, WorkType, IdleWorker, Pcs
<1>4. FormType
  BY DEF Init, FormType, IdleForm
<1> QED
  BY <1>1, <1>2, <1>3, <1>4 DEF TypeOK

\* A step of an owner's request keeps the types.
LEMMA OwnerTypeOK ==
  ASSUME TypeOK, NEW o \in Owners, NEW d \in Deletions, OwnerStep(o, d)
  PROVE  TypeOK'
<1> USE DEF TypeOK
<1>0. d \in Jobs
  BY DEF Jobs
<1>1. ASSUME NEW pc \in {"approve", "confirm", "cancel"}, NEW readable,
             Open(o, d, pc, readable)
      PROVE  TypeOK'
  <2>1. FormType'
    BY <1>1 DEF Open, FormType
  <2> QED
    BY <1>1, <2>1 DEF Open, lifecycle, effects, JobType, LifecycleType, EffectType, WorkType,
                      HistoryType, history
<1>2. CASE ApproveWrite(o, d)
  <2>1. JobType'
    BY <1>0, <1>2, CreatedType DEF ApproveWrite, JobType
  <2>2. LifecycleType'
    BY <1>2 DEF ApproveWrite, LifecycleType, Stages
  <2>3. FormType'
    BY <1>2, CloseType DEF ApproveWrite
  <2> QED
    BY <1>2, <2>1, <2>2, <2>3 DEF ApproveWrite, effects, EffectType, WorkType, HistoryType, history
<1>3. CASE ConfirmWrite(o, d)
  <2>1. JobType'
    <3>1. \/ job' = job
          \/ job' = [job EXCEPT ![d].confirmed = TRUE, ![d].due = TRUE]
      BY <1>3, Zenon DEF ConfirmWrite
    <3> QED
      BY <1>0, <3>1 DEF JobType
  <2>2. LifecycleType'
    BY <1>3 DEF ConfirmWrite, LifecycleType, Stages
  <2>3. FormType'
    BY <1>3, CloseType DEF ConfirmWrite
  <2> QED
    BY <1>3, <2>1, <2>2, <2>3 DEF ConfirmWrite, effects, EffectType, WorkType, HistoryType, history
<1>4. CASE CancelWrite(o, d)
  <2>1. JobType'
    <3>1. \/ job' = job
          \/ job' = [job EXCEPT ![d].status = "CANCELLED"]
          \/ job' = [job EXCEPT ![d].status = job[d].status]
      BY <1>4, Zenon DEF CancelWrite
    <3>2. "CANCELLED" \in JobStates
      BY DEF JobStates
    <3> QED
      BY <1>0, <3>1, <3>2 DEF JobType
  <2>2. LifecycleType'
    BY <1>4 DEF CancelWrite, LifecycleType, Stages
  <2>3. FormType'
    BY <1>4, CloseType DEF CancelWrite
  <2> QED
    BY <1>4, <2>1, <2>2, <2>3 DEF CancelWrite, effects, EffectType, WorkType, HistoryType, history
<1> QED
  BY <1>1, <1>2, <1>3, <1>4 DEF OwnerStep, ApproveRead, ConfirmRead, CancelRead

\* Claiming a job and the catch block keep the types.
LEMMA QueueTypeOK ==
  ASSUME TypeOK, NEW w \in Workers, NEW j \in Jobs, Claim(w, j) \/ Fail(w, j)
  PROVE  TypeOK'
<1> USE DEF TypeOK
<1>1. CASE Claim(w, j)
  <2>1. JobType'
    BY <1>1 DEF Claim, JobType, JobStates
  <2>2. WorkType'
    <3>1. Taken(j) \in [pc : Pcs, job : SUBSET Jobs, try : Nat, keys : SUBSET (Exports \X Nat)]
      BY DEF Taken, Pcs, JobType
    <3>2. work' = work \/ work' = [work EXCEPT ![w] = Taken(j)]
      BY <1>1 DEF Claim
    <3> QED
      BY <3>1, <3>2 DEF WorkType
  <2>3. HistoryType'
    <3>1. (Fault \/ UNCHANGED budget) /\ orphan' \subseteq Jobs /\ UNCHANGED <<stray, unsure>>
      BY <1>1 DEF Claim, HistoryType
    <3> QED
      BY <3>1, HistoryKept DEF HistoryType
  <2> QED
    BY <1>1, <2>1, <2>2, <2>3 DEF Claim, lifecycle, effects, LifecycleType, EffectType, FormType
<1>2. CASE Fail(w, j)
  <2>1. JobType'
    <3> DEFINE v == Verdict(j)
    <3>1. v.status \in JobStates /\ v.due \in BOOLEAN
      BY DEF Verdict, JobStates
    <3>2. job' = job \/ job' = [job EXCEPT ![j].status = v.status, ![j].due = v.due]
      BY <1>2, Zenon DEF Fail
    <3> HIDE DEF v
    <3> QED
      BY <3>1, <3>2 DEF JobType
  <2>2. WorkType'
    BY <1>2, RestType DEF Fail
  <2>3. HistoryType'
    <3>1. (Fault \/ UNCHANGED budget) /\ orphan' \subseteq Jobs /\ UNCHANGED <<stray, unsure>>
      BY <1>2 DEF Fail, HistoryType
    <3> QED
      BY <3>1, HistoryKept DEF HistoryType
  <2> QED
    BY <1>2, <2>1, <2>2, <2>3 DEF Fail, lifecycle, effects, LifecycleType, EffectType, FormType
<1> QED
  BY <1>1, <1>2

\* How a transaction ends keeps the types.
LEMMA CommitType ==
  ASSUME WorkType, HistoryType, NEW w \in Workers, NEW j \in Jobs, NEW pc \in Pcs,
         Commits(w, j, pc) \/ RollsBack(w, pc), UNCHANGED <<orphan, stray>>
  PROVE  WorkType' /\ HistoryType'
<1>1. WorkType'
  BY GoOnType, RestType DEF Commits, RollsBack
<1>2. (Fault \/ FaultOrGone \/ UNCHANGED budget) /\ unsure' \subseteq Jobs
  BY DEF Commits, RollsBack, HistoryType
<1> QED
  BY <1>1, <1>2, HistoryKept DEF HistoryType

\* A step of a handler keeps the types.
LEMMA HandlerTypeOK ==
  ASSUME TypeOK, NEW w \in Workers, NEW j \in Jobs, WorkerStep(w, j)
  PROVE  TypeOK'
<1> USE DEF TypeOK
<1>1. CASE SmtpSend(w, j)
  <2>1. j \in Sends /\ smtp' \in {smtp, [smtp EXCEPT ![j] = @ + 1]}
    BY <1>1 DEF SmtpSend
  <2>2. EffectType'
    BY <1>1, <2>1 DEF SmtpSend, EffectType
  <2>3. WorkType'
    BY <1>1, GoOnType DEF SmtpSend, Pcs
  <2>4. HistoryType'
    BY <1>1, HistoryKept DEF SmtpSend, HistoryType
  <2> QED
    BY <1>1, <2>2, <2>3, <2>4 DEF SmtpSend, lifecycle, JobType, LifecycleType, FormType
<1>2. CASE SmtpRecord(w, j)
  <2>1. WorkType'
    BY <1>2, GoOnType DEF SmtpRecord, Pcs
  <2>2. HistoryType'
    BY <1>2, HistoryKept DEF SmtpRecord, HistoryType
  <2> QED
    BY <1>2, <2>1, <2>2
    DEF SmtpRecord, lifecycle, effects, JobType, LifecycleType, EffectType, FormType
<1>3. ASSUME job' = job \/ job' = [job EXCEPT ![j].status = "COMPLETED"] PROVE JobType'
  BY <1>3 DEF JobType, JobStates
<1>4. CASE Complete(w, j)
  <2>1. WorkType' /\ HistoryType'
    BY <1>4, CommitType DEF Complete, Pcs
  <2> QED
    BY <1>3, <1>4, <2>1 DEF Complete, lifecycle, effects, LifecycleType, EffectType, FormType
<1>5. CASE DigestWrite(w, j)
  <2>1. EffectType'
    BY <1>5 DEF DigestWrite, EffectType
  <2>2. WorkType' /\ HistoryType'
    BY <1>5, CommitType DEF DigestWrite, Pcs
  <2> QED
    BY <1>3, <1>5, <2>1, <2>2 DEF DigestWrite, lifecycle, LifecycleType, FormType
<1>6. CASE ExportSave(w, j)
  <2>0. <<j, work[w].try>> \in Exports \X Nat
    BY <1>6 DEF ExportSave, WorkType
  <2>1. EffectType'
    BY <1>6, <2>0 DEF ExportSave, EffectType
  <2>2. WorkType'
    BY <1>6, GoOnType DEF ExportSave, Pcs
  <2>3. HistoryType'
    <3>1. /\ Fault \/ FaultOrGone \/ UNCHANGED budget
          /\ stray' \subseteq Jobs \X Nat /\ UNCHANGED <<orphan, unsure>>
      BY <1>6, <2>0 DEF ExportSave, HistoryType
    <3> QED
      BY <3>1, HistoryKept DEF HistoryType
  <2> QED
    BY <1>6, <2>1, <2>2, <2>3 DEF ExportSave, lifecycle, JobType, LifecycleType, FormType
<1>7. CASE ExportCommit(w, j)
  <2>1. EffectType'
    BY <1>7 DEF ExportCommit, EffectType, WorkType
  <2>2. WorkType' /\ HistoryType'
    BY <1>7, CommitType DEF ExportCommit, Pcs
  <2> QED
    BY <1>3, <1>7, <2>1, <2>2 DEF ExportCommit, lifecycle, LifecycleType, FormType
<1>8. CASE ExportUnsave(w, j)
  <2>1. WorkType'
    BY <1>8, GoOnType DEF ExportUnsave, Pcs
  <2>2. EffectType'
    BY <1>8 DEF ExportUnsave, EffectType
  <2>3. HistoryType'
    <3>1. <<j, work[w].try>> \in Jobs \X Nat
      BY DEF WorkType
    <3>2. /\ Fault \/ UNCHANGED budget
          /\ stray' \subseteq Jobs \X Nat /\ UNCHANGED <<orphan, unsure>>
      BY <1>8, <3>1 DEF ExportUnsave, HistoryType
    <3> QED
      BY <3>2, HistoryKept DEF HistoryType
  <2> QED
    BY <1>8, <2>1, <2>2, <2>3 DEF ExportUnsave, lifecycle, JobType, LifecycleType, FormType
<1>9. CASE DeletionRead(w, j)
  <2>1. WorkType'
    <3>1. \/ GoOn(w, "failing")
          \/ work' = [work EXCEPT ![w].pc = "erase", ![w].keys = Results]
      BY <1>9 DEF DeletionRead
    <3> QED
      BY <3>1, GoOnType, ResultsType DEF WorkType, Pcs
  <2>2. HistoryType'
    BY <1>9, HistoryKept DEF DeletionRead, HistoryType
  <2> QED
    BY <1>9, <2>1, <2>2
    DEF DeletionRead, lifecycle, effects, JobType, LifecycleType, EffectType, FormType
<1>10. CASE DeletionWrite(w, j)
  <2>1. JobType' /\ LifecycleType'
    <3>1. [x \in Jobs |-> [job[x] EXCEPT !.status = "GONE"]]
             \in [Jobs -> [status : JobStates, attempts : Nat, due : BOOLEAN, confirmed : BOOLEAN]]
      BY DEF JobType, JobStates
    <3>2. Erased(j) \/ UNCHANGED <<lifecycle, job>>
      BY <1>10 DEF DeletionWrite
    <3> QED
      BY <1>10, <3>1, <3>2 DEF DeletionWrite, Erased, lifecycle, JobType, LifecycleType, Stages
  <2>2. WorkType'
    BY <1>10, GoOnType DEF DeletionWrite, Pcs
  <2>3. HistoryType'
    <3>1. Results \subseteq Jobs \X Nat
      BY ResultsType DEF Jobs
    <3>2. /\ Fault \/ FaultOrGone \/ UNCHANGED budget
          /\ stray' \subseteq Jobs \X Nat /\ UNCHANGED <<orphan, unsure>>
      BY <1>10, <3>1 DEF DeletionWrite, HistoryType
    <3> QED
      BY <3>2, HistoryKept DEF HistoryType
  <2> QED
    BY <1>10, <2>1, <2>2, <2>3 DEF DeletionWrite, effects, EffectType, FormType
<1>11. CASE DeletionFiles(w, j)
  <2>1. PICK left \in SUBSET (files \cap work[w].keys) :
          /\ files' = (files \ work[w].keys) \cup left
          /\ stray' = stray \cup left
          /\ UNCHANGED budget \/ Fault
    BY <1>11, Zenon DEF DeletionFiles
  <2>2. WorkType'
    BY <1>11, RestType DEF DeletionFiles
  <2>3. EffectType'
    BY <1>11, <2>1 DEF DeletionFiles, EffectType
  <2>4. HistoryType'
    <3>1. stray' \subseteq Jobs \X Nat /\ UNCHANGED <<orphan, unsure>>
      BY <1>11, <2>1 DEF DeletionFiles, HistoryType, EffectType, Jobs
    <3> QED
      BY <2>1, <3>1, HistoryKept DEF HistoryType
  <2> QED
    BY <1>11, <2>2, <2>3, <2>4 DEF DeletionFiles, lifecycle, JobType, LifecycleType, FormType
<1> QED
  BY QueueTypeOK, <1>1, <1>2, <1>4, <1>5, <1>6, <1>7, <1>8, <1>9, <1>10, <1>11 DEF WorkerStep

\* Every state of every run is well typed.
THEOREM JobsTypeCorrect == Spec => []TypeOK
<1>1. Init => TypeOK
  BY InitTypeOK
<1>2. TypeOK /\ [Next]_vars => TypeOK'
  <2> SUFFICES ASSUME TypeOK, [Next]_vars PROVE TypeOK'
    OBVIOUS
  <2>0. JobType /\ LifecycleType /\ EffectType /\ WorkType /\ FormType /\ HistoryType
    BY DEF TypeOK
  <2>1. CASE UNCHANGED vars
    BY <2>1 DEF vars, TypeOK, JobType, LifecycleType, EffectType, WorkType, FormType, HistoryType
  <2>2. ASSUME NEW j \in Jobs, Enqueue(j) PROVE TypeOK'
    <3>1. JobType'
      BY <2>0, <2>2, CreatedType DEF Enqueue, JobType
    <3> QED
      BY <2>0, <2>2, <3>1 DEF Enqueue, lifecycle, effects, history, TypeOK, LifecycleType,
                              EffectType, WorkType, FormType, HistoryType
  <2>3. ASSUME NEW d \in Deletions, RequestDeletion(d) PROVE TypeOK'
    <3>1. LifecycleType'
      BY <2>0, <2>3 DEF RequestDeletion, LifecycleType, Stages
    <3> QED
      BY <2>0, <2>3, <3>1 DEF RequestDeletion, effects, history, TypeOK, JobType, EffectType,
                              WorkType, FormType, HistoryType
  <2>4. ASSUME NEW j \in Jobs, RetryDue(j) PROVE TypeOK'
    <3>1. JobType'
      BY <2>0, <2>4 DEF RetryDue, JobType
    <3> QED
      BY <2>0, <2>4, <3>1 DEF RetryDue, lifecycle, effects, history, TypeOK, LifecycleType,
                              EffectType, WorkType, FormType, HistoryType
  <2>5. ASSUME NEW w \in Workers, Crash(w) PROVE TypeOK'
    <3>1. WorkType'
      BY <2>0, <2>5, RestType DEF Crash
    <3>2. HistoryType'
      <4>1. FilesOf(w) \subseteq Jobs \X Nat
        BY <2>0 DEF FilesOf, EffectType, Jobs
      <4> QED
        BY <2>0, <2>5, <4>1 DEF Crash, HistoryType, WorkType
    <3> QED
      BY <2>0, <2>5, <3>1, <3>2 DEF Crash, lifecycle, effects, TypeOK, JobType, LifecycleType,
                                    EffectType, FormType
  <2> QED
    BY <2>1, <2>2, <2>3, <2>4, <2>5, OwnerTypeOK, HandlerTypeOK DEF Next
<1> QED
  BY <1>1, <1>2, PTL DEF Spec

-----------------------------------------------------------------------------
(* One worker runs a job                                                   *)

\* What RunningIsHeld rests on: until the tenant is gone the row of a job in hand is RUNNING,
\* so that no other worker claims it, or was completed by a transaction whose answer was lost.
Unanswered(w, j) ==
  j \in unsure /\ job[j].status = "COMPLETED" /\ work[w].pc \in {"unsave", "failing"}
BusyRuns ==
  \A w \in Workers, j \in Jobs :
    Busy(w, j) /\ tenant => job[j].status = "RUNNING" \/ Unanswered(w, j)
ErasedRows == ~tenant => \A j \in Jobs : job[j].status = "GONE"
ErasedFiles == \A w \in Workers : work[w].pc = "files" => ~tenant
HeldInv    == TypeOK /\ RunningIsHeld /\ BusyRuns /\ ErasedRows /\ ErasedFiles

\* A step of a handler touches the worker and the row of its own job: it goes on with a row
\* that is RUNNING or whose completion it has not heard of, or ends with the row settled or
\* let go of.
Local(w, j) ==
  /\ Busy(w, j)
  /\ \A v \in Workers \ {w} : work'[v] = work[v]
  /\ \A i \in Jobs \ {j} : job'[i] = job[i]
  /\ tenant' = tenant /\ orphan \subseteq orphan' /\ unsure \subseteq unsure'
  /\ tenant \/ job' = job
  /\ \/ /\ work'[w].job = {j} /\ work'[w].pc \notin {"idle", "files"}
        /\ tenant => job'[j].status = "RUNNING" \/ Unanswered(w, j)'
     \/ work'[w] = IdleWorker /\ (job'[j].status # "RUNNING" \/ j \in orphan')

Handler(w, j) ==
  \/ Fail(w, j) \/ SmtpSend(w, j) \/ SmtpRecord(w, j) \/ Complete(w, j)
  \/ DigestWrite(w, j)
  \/ ExportSave(w, j) \/ ExportCommit(w, j) \/ ExportUnsave(w, j)
  \/ DeletionRead(w, j) \/ DeletionFiles(w, j)

\* Where a handler goes on: towards the catch block when its file is to be removed.
LEMMA GoOnLocal ==
  ASSUME HeldInv, NEW w \in Workers, NEW j \in Jobs, NEW pc \in Pcs \ {"idle", "files"},
         Busy(w, j), GoOn(w, pc), work[w].pc \in {"unsave", "failing"} => pc = "failing",
         UNCHANGED <<job, tenant, orphan>>, unsure \subseteq unsure'
  PROVE  Local(w, j)
<1>1. WorkType
  BY DEF HeldInv, TypeOK
<1>2. /\ work'[w].pc = pc /\ work'[w].job = {j}
      /\ \A v \in Workers \ {w} : work'[v] = work[v]
  BY <1>1 DEF WorkType, Busy, GoOn
<1>3. tenant => job'[j].status = "RUNNING" \/ Unanswered(w, j)'
  BY <1>2 DEF HeldInv, BusyRuns, Unanswered
<1> QED
  BY <1>2, <1>3 DEF Local

\* A transaction that completes the job, and how it ends for the worker.
LEMMA CommitLocal ==
  ASSUME HeldInv, NEW w \in Workers, NEW j \in Jobs, NEW pc \in {"unsave", "failing"},
         Busy(w, j), tenant, Commits(w, j, pc), job' = [job EXCEPT ![j].status = "COMPLETED"],
         UNCHANGED <<tenant, orphan>>
  PROVE  Local(w, j)
<1>1. WorkType /\ JobType
  BY DEF HeldInv, TypeOK
<1>2. /\ \A i \in Jobs \ {j} : job'[i] = job[i]
      /\ job'[j].status = "COMPLETED"
  BY <1>1 DEF JobType
<1>3. CASE Rest(w) /\ unsure' = unsure
  BY <1>1, <1>2, <1>3 DEF Rest, WorkType, Local
<1>4. CASE GoOn(w, pc) /\ unsure' = unsure \cup {j}
  <2>1. /\ work'[w].pc = pc /\ work'[w].job = {j}
        /\ \A v \in Workers \ {w} : work'[v] = work[v]
    BY <1>1, <1>4 DEF WorkType, Busy, GoOn
  <2>2. Unanswered(w, j)'
    BY <1>2, <1>4, <2>1 DEF Unanswered
  <2> QED
    BY <1>2, <1>4, <2>1, <2>2 DEF Local
<1> QED
  BY <1>3, <1>4 DEF Commits

LEMMA RestLocal ==
  ASSUME WorkType, NEW w \in Workers, NEW j \in Jobs, Busy(w, j), Rest(w),
         UNCHANGED <<tenant, unsure>>, orphan \subseteq orphan', tenant \/ job' = job,
         \A i \in Jobs \ {j} : job'[i] = job[i],
         job'[j].status # "RUNNING" \/ j \in orphan'
  PROVE  Local(w, j)
  BY DEF WorkType, Rest, Local

LEMMA AtBusy ==
  ASSUME NEW w, NEW j, NEW pc \in Pcs \ {"idle"}, At(w, pc, j) PROVE Busy(w, j)
  BY DEF At, Busy

LEMMA HandlerLocal ==
  ASSUME HeldInv, NEW w \in Workers, NEW j \in Jobs, Handler(w, j) PROVE Local(w, j)
<1>0. WorkType /\ JobType
  BY DEF HeldInv, TypeOK
<1> USE DEF lifecycle, effects, Pcs
<1>1. CASE Fail(w, j)
  <2> DEFINE v == Verdict(j)
  <2>1. v.status # "RUNNING"
    BY DEF Verdict
  <2>2. \/ job' = job /\ ~tenant /\ orphan' = orphan
        \/ job' = job /\ orphan' = orphan \cup {j}
        \/ /\ tenant /\ orphan' = orphan
           /\ job' = [job EXCEPT ![j].status = v.status, ![j].due = v.due]
    BY <1>1, Zenon DEF Fail
  <2>3. ~tenant => job[j].status = "GONE"
    BY DEF HeldInv, ErasedRows
  <2> HIDE DEF v
  <2>4. /\ \A i \in Jobs \ {j} : job'[i] = job[i]
        /\ job'[j].status # "RUNNING" \/ j \in orphan'
    BY <1>0, <2>1, <2>2, <2>3 DEF JobType
  <2>5. orphan \subseteq orphan' /\ (tenant \/ job' = job)
    BY <2>2
  <2> QED
    BY <1>0, <1>1, <2>4, <2>5, AtBusy, RestLocal DEF Fail
<1>2. CASE SmtpSend(w, j)
  BY <1>2, AtBusy, GoOnLocal DEF SmtpSend, At
<1>3. CASE SmtpRecord(w, j)
  BY <1>3, AtBusy, GoOnLocal DEF SmtpRecord, At
<1>4. ASSUME NEW from \in Pcs \ {"idle", "unsave", "failing"}, At(w, from, j),
             NEW pc \in {"unsave", "failing"}, UNCHANGED <<tenant, orphan>>,
             \/ /\ tenant /\ Commits(w, j, pc)
                /\ job' = [job EXCEPT ![j].status = "COMPLETED"]
             \/ RollsBack(w, pc) /\ UNCHANGED job
      PROVE  Local(w, j)
  <2>1. Busy(w, j)
    BY <1>4, AtBusy
  <2>2. CASE tenant /\ Commits(w, j, pc) /\ job' = [job EXCEPT ![j].status = "COMPLETED"]
    BY <1>4, <2>1, <2>2, CommitLocal
  <2>3. CASE RollsBack(w, pc) /\ UNCHANGED job
    BY <1>4, <2>1, <2>3, GoOnLocal DEF RollsBack, At
  <2> QED
    BY <1>4, <2>2, <2>3
<1>5. CASE Complete(w, j)
  BY <1>4, <1>5 DEF Complete
<1>6. CASE DigestWrite(w, j)
  BY <1>4, <1>6 DEF DigestWrite
<1>7. CASE ExportSave(w, j)
  BY <1>7, AtBusy, GoOnLocal DEF ExportSave, At
<1>8. CASE ExportCommit(w, j)
  BY <1>4, <1>8 DEF ExportCommit
<1>9. CASE ExportUnsave(w, j)
  BY <1>9, AtBusy, GoOnLocal DEF ExportUnsave
<1>10. CASE DeletionRead(w, j)
  <2>1. Busy(w, j) /\ work[w].pc = "start" /\ UNCHANGED <<job, tenant, orphan, unsure>>
    BY <1>10, AtBusy DEF DeletionRead, At
  <2>2. CASE GoOn(w, "failing")
    BY <2>1, <2>2, GoOnLocal
  <2>3. ASSUME NEW k, work' = [work EXCEPT ![w].pc = "erase", ![w].keys = k], tenant
        PROVE  Local(w, j)
    <3>1. /\ work'[w].pc = "erase" /\ work'[w].job = {j}
          /\ \A v \in Workers \ {w} : work'[v] = work[v]
      BY <1>0, <2>1, <2>3 DEF WorkType, Busy
    <3>2. job'[j].status = "RUNNING"
      BY <2>1, <2>3 DEF HeldInv, BusyRuns, Unanswered
    <3> QED
      BY <2>1, <3>1, <3>2 DEF Local
  <2> QED
    BY <1>10, <2>2, <2>3 DEF DeletionRead
<1>11. CASE DeletionFiles(w, j)
  <2>1. job[j].status = "GONE"
    BY <1>11 DEF DeletionFiles, At, HeldInv, ErasedFiles, ErasedRows
  <2> QED
    BY <1>0, <1>11, <2>1, AtBusy, RestLocal DEF DeletionFiles
<1> QED
  BY <1>1, <1>2, <1>3, <1>5, <1>6, <1>7, <1>8, <1>9, <1>10, <1>11 DEF Handler

LEMMA LocalHeld ==
  ASSUME HeldInv, NEW w \in Workers, NEW j \in Jobs, Local(w, j)
  PROVE  RunningIsHeld' /\ BusyRuns' /\ ErasedRows' /\ ErasedFiles'
<1>0. ErasedRows'
  BY DEF Local, HeldInv, ErasedRows
<1>1. \A v \in Workers, i \in Jobs : Busy(v, i)' => Busy(v, i)
  BY DEF Local, Busy, IdleWorker
<1>2. /\ \A v \in Workers \ {w}, i \in Jobs : Busy(v, i)' <=> Busy(v, i)
      /\ \A i \in Jobs : i # j => ~Busy(w, i)
      /\ \A v \in Workers \ {w} : ~Busy(v, j)
  BY DEF Local, Busy, HeldInv, RunningIsHeld
<1>3. Busy(w, j)' \/ job'[j].status # "RUNNING" \/ j \in orphan'
  BY DEF Local, Busy
<1>4. RunningIsHeld'
  <2>1. ASSUME NEW i \in Jobs, job'[i].status = "RUNNING"
        PROVE  i \in orphan' \/ \E v \in Workers : Busy(v, i)'
    <3>1. CASE i = j
      BY <1>3, <2>1, <3>1
    <3>2. CASE i # j
      BY <1>2, <2>1, <3>2 DEF Local, HeldInv, RunningIsHeld
    <3> QED
      BY <3>1, <3>2
  <2> QED
    BY <1>1, <2>1 DEF HeldInv, RunningIsHeld
<1>5. BusyRuns'
  <2> SUFFICES ASSUME NEW v \in Workers, NEW i \in Jobs, Busy(v, i)', tenant'
               PROVE  job'[i].status = "RUNNING" \/ Unanswered(v, i)'
    BY DEF BusyRuns
  <2>1. CASE v = w
    <3>1. i = j /\ work'[w].pc # "idle"
      BY <1>1, <1>2, <2>1 DEF Busy
    <3> QED
      BY <2>1, <3>1 DEF Local, IdleWorker
  <2>2. CASE v # w
    <3>1. Busy(v, i) /\ i # j /\ work'[v] = work[v]
      BY <1>1, <1>2, <2>2 DEF Local
    <3> QED
      BY <3>1 DEF Local, HeldInv, BusyRuns, Unanswered
  <2> QED
    BY <2>1, <2>2
<1>6. ErasedFiles'
  BY DEF Local, HeldInv, ErasedFiles, IdleWorker
<1> QED
  BY <1>0, <1>4, <1>5, <1>6

\* The owner's requests, Enqueue and RetryDue touch no row that is RUNNING or COMPLETED, and
\* make none so.
Untouched(i) ==
  \/ job'[i].status = job[i].status
  \/ job[i].status \in {"NONE", "PENDING"} /\ job'[i].status \in {"PENDING", "CANCELLED"}

LEMMA QuietHeld ==
  ASSUME HeldInv, TypeOK', UNCHANGED <<work, tenant, orphan, unsure>>,
         \A i \in Jobs : Untouched(i), tenant \/ UNCHANGED job
  PROVE  HeldInv'
<1>1. \A i \in Jobs : /\ job'[i].status = "RUNNING" <=> job[i].status = "RUNNING"
                      /\ job'[i].status = "COMPLETED" <=> job[i].status = "COMPLETED"
  BY DEF Untouched
<1> QED
  BY <1>1 DEF HeldInv, RunningIsHeld, BusyRuns, Unanswered, ErasedRows, ErasedFiles, Busy

LEMMA OwnerQuiet ==
  ASSUME TypeOK, NEW o \in Owners, NEW d \in Deletions, OwnerStep(o, d)
  PROVE  /\ UNCHANGED <<work, tenant, orphan, unsure>>
         /\ \A i \in Jobs : Untouched(i)
         /\ tenant \/ UNCHANGED job
<1> USE DEF history, Untouched
<1>0. d \in Jobs /\ JobType
  BY DEF Jobs, TypeOK
<1>1. CASE ApproveWrite(o, d)
  BY <1>0, <1>1 DEF ApproveWrite, JobType, Created
<1>2. CASE ConfirmWrite(o, d)
  <2>1. job' = job \/ job' = [job EXCEPT ![d].confirmed = TRUE, ![d].due = TRUE]
    BY <1>2, Zenon DEF ConfirmWrite
  <2>2. \A i \in Jobs : job'[i].status = job[i].status
    BY <1>0, <2>1 DEF JobType
  <2> QED
    BY <1>2, <2>2 DEF ConfirmWrite
<1>3. CASE CancelWrite(o, d)
  <2>1. \/ job' = job
        \/ job[d].status = "PENDING" /\ job' = [job EXCEPT ![d].status = "CANCELLED"]
        \/ job' = [job EXCEPT ![d].status = job[d].status]
    BY <1>3, Zenon DEF CancelWrite
  <2>2. \A i \in Jobs : Untouched(i)
    BY <1>0, <2>1 DEF JobType
  <2> QED
    BY <1>3, <2>2 DEF CancelWrite
<1>4. ASSUME NEW pc, NEW readable, Open(o, d, pc, readable)
      PROVE  UNCHANGED <<work, tenant, orphan, unsure, job>>
  BY <1>4 DEF Open, lifecycle
<1> QED
  BY <1>1, <1>2, <1>3, <1>4 DEF OwnerStep, ApproveRead, ConfirmRead, CancelRead

\* claimSupported takes a row that no worker is busy with.
LEMMA ClaimHeld ==
  ASSUME HeldInv, TypeOK', NEW w \in Workers, NEW j \in Jobs, Claim(w, j)
  PROVE  HeldInv'
<1>0. WorkType /\ JobType
  BY DEF HeldInv, TypeOK
<1>1. /\ tenant /\ \A v \in Workers : ~Busy(v, j)
      /\ \A i \in Jobs : ~Busy(w, i)
  BY DEF Claim, HeldInv, BusyRuns, Unanswered, ErasedRows, Busy, IdleWorker
<1>2. /\ UNCHANGED <<tenant, unsure>> /\ orphan \subseteq orphan'
      /\ job' = [job EXCEPT ![j].status = "RUNNING", ![j].attempts = @ + 1]
      /\ work' = [work EXCEPT ![w] = Taken(j)] \/ (work' = work /\ j \in orphan')
  BY DEF Claim, lifecycle
<1>3. /\ job'[j].status = "RUNNING"
      /\ \A i \in Jobs \ {j} : job'[i] = job[i]
  BY <1>0, <1>2 DEF JobType
<1>4. /\ \A v \in Workers \ {w} : work'[v] = work[v]
      /\ \A i \in Jobs \ {j} : ~Busy(w, i)'
      /\ Busy(w, j)' \/ j \in orphan'
      /\ work'[w].pc \in {"start", "idle"}
  <2>1. CASE work' = [work EXCEPT ![w] = Taken(j)]
    BY <1>0, <2>1 DEF WorkType, Taken, Busy
  <2>2. CASE work' = work /\ j \in orphan'
    BY <1>1, <2>2 DEF Claim, IdleWorker, Busy
  <2> QED
    BY <1>2, <2>1, <2>2
<1>5. \A v \in Workers \ {w}, i \in Jobs : Busy(v, i)' <=> Busy(v, i)
  BY <1>4 DEF Busy
<1>6. RunningIsHeld'
  <2>1. ASSUME NEW i \in Jobs, job'[i].status = "RUNNING"
        PROVE  i \in orphan' \/ \E v \in Workers : Busy(v, i)'
    <3>1. CASE i = j
      BY <1>4, <3>1
    <3>2. CASE i # j
      <4>1. i \in orphan \/ \E v \in Workers : Busy(v, i)
        BY <1>3, <2>1, <3>2 DEF HeldInv, RunningIsHeld
      <4> QED
        BY <1>1, <1>2, <1>5, <4>1
    <3> QED
      BY <3>1, <3>2
  <2>2. ASSUME NEW i \in Jobs, NEW u \in Workers, NEW v \in Workers, Busy(u, i)', Busy(v, i)'
        PROVE  u = v
    <3>1. CASE i = j
      BY <1>1, <1>5, <2>2, <3>1
    <3>2. CASE i # j
      BY <1>4, <1>5, <2>2, <3>2 DEF HeldInv, RunningIsHeld
    <3> QED
      BY <3>1, <3>2
  <2> QED
    BY <2>1, <2>2 DEF RunningIsHeld
<1>7. BusyRuns'
  <2> SUFFICES ASSUME NEW v \in Workers, NEW i \in Jobs, Busy(v, i)', tenant'
               PROVE  job'[i].status = "RUNNING" \/ Unanswered(v, i)'
    BY DEF BusyRuns
  <2>1. CASE i = j
    BY <1>3, <2>1
  <2>2. CASE i # j
    <3>1. Busy(v, i) /\ work'[v] = work[v]
      BY <1>4, <1>5, <2>2
    <3> QED
      BY <1>1, <1>2, <1>3, <2>2, <3>1 DEF HeldInv, BusyRuns, Unanswered
  <2> QED
    BY <2>1, <2>2
<1>8. ErasedRows' /\ ErasedFiles'
  BY <1>1, <1>2, <1>4 DEF HeldInv, ErasedRows, ErasedFiles
<1> QED
  BY <1>6, <1>7, <1>8 DEF HeldInv

\* Erasing the tenant removes every row.
LEMMA ErasureHeld ==
  ASSUME HeldInv, TypeOK', NEW w \in Workers, NEW j \in Jobs, DeletionWrite(w, j)
  PROVE  HeldInv'
<1>0. WorkType /\ JobType
  BY DEF HeldInv, TypeOK
<1>1. CASE GoOn(w, "failing") /\ UNCHANGED <<tenant, job>>
  <2>1. Local(w, j)
    BY <1>1, GoOnLocal, AtBusy DEF DeletionWrite, Pcs, At
  <2> QED
    BY <2>1, LocalHeld DEF HeldInv
<1>2. CASE Erased(j) /\ (GoOn(w, "files") \/ GoOn(w, "failing"))
  <2>1. tenant' = FALSE /\ \A i \in Jobs : job'[i].status = "GONE"
    BY <1>0, <1>2 DEF JobType, Erased
  <2>2. \A v \in Workers, i \in Jobs : Busy(v, i)' => Busy(v, i)
    BY <1>0, <1>2 DEF DeletionWrite, At, Busy, GoOn, WorkType
  <2> QED
    BY <2>1, <2>2 DEF HeldInv, RunningIsHeld, BusyRuns, ErasedRows, ErasedFiles
<1> QED
  BY <1>1, <1>2 DEF DeletionWrite, lifecycle

LEMMA CrashHeld ==
  ASSUME HeldInv, TypeOK', NEW w \in Workers, Crash(w) PROVE HeldInv'
<1>0. WorkType
  BY DEF HeldInv, TypeOK
<1>1. /\ \A v \in Workers \ {w}, i \in Jobs : Busy(v, i)' <=> Busy(v, i)
      /\ \A i \in Jobs : ~Busy(w, i)'
      /\ work'[w].pc = "idle" /\ \A v \in Workers \ {w} : work'[v] = work[v]
  BY <1>0 DEF Crash, Rest, WorkType, Busy, IdleWorker
<1>2. UNCHANGED <<job, tenant, unsure>> /\ orphan' = orphan \cup work[w].job
  BY DEF Crash, lifecycle
<1>3. RunningIsHeld'
  BY <1>1, <1>2 DEF HeldInv, RunningIsHeld, Busy
<1> QED
  BY <1>1, <1>2, <1>3 DEF HeldInv, BusyRuns, Unanswered, ErasedRows, ErasedFiles

LEMMA HeldInvHolds == Spec => []HeldInv
<1>1. Init => HeldInv
  <2> SUFFICES ASSUME Init PROVE HeldInv
    OBVIOUS
  <2>1. \A j \in Jobs : job[j].status # "RUNNING"
    BY DEF Init, Created
  <2> QED
    BY <2>1, InitTypeOK
    DEF Init, HeldInv, RunningIsHeld, BusyRuns, ErasedRows, ErasedFiles, Busy, IdleWorker
<1>2. HeldInv /\ TypeOK' /\ [Next]_vars => HeldInv'
  <2> SUFFICES ASSUME HeldInv, TypeOK', [Next]_vars PROVE HeldInv'
    OBVIOUS
  <2>0. JobType /\ TypeOK
    BY DEF HeldInv, TypeOK
  <2>1. CASE UNCHANGED vars
    BY <2>1, QuietHeld DEF vars, Untouched
  <2>2. ASSUME NEW j \in Jobs, Enqueue(j) PROVE HeldInv'
    BY <2>0, <2>2, QuietHeld DEF Enqueue, lifecycle, history, JobType, Created, Untouched
  <2>3. ASSUME NEW d \in Deletions, RequestDeletion(d) PROVE HeldInv'
    BY <2>3, QuietHeld DEF RequestDeletion, history, Untouched
  <2>4. ASSUME NEW j \in Jobs, RetryDue(j) PROVE HeldInv'
    <3>1. tenant
      BY <2>4 DEF RetryDue, HeldInv, ErasedRows
    <3> QED
      BY <2>0, <2>4, <3>1, QuietHeld DEF RetryDue, lifecycle, history, JobType, Untouched
  <2>5. ASSUME NEW o \in Owners, NEW d \in Deletions, OwnerStep(o, d) PROVE HeldInv'
    BY <2>0, <2>5, OwnerQuiet, QuietHeld
  <2>6. ASSUME NEW w \in Workers, NEW j \in Jobs, Handler(w, j) PROVE HeldInv'
    BY <2>6, HandlerLocal, LocalHeld DEF HeldInv
  <2> QED
    BY <2>1, <2>2, <2>3, <2>4, <2>5, <2>6, ClaimHeld, ErasureHeld, CrashHeld
    DEF Next, WorkerStep, Handler
<1> QED
  BY <1>1, <1>2, JobsTypeCorrect, PTL DEF Spec

\* A RUNNING job has exactly one worker, or its worker died or let go of it when a query
\* outside of the try of processNext failed: for any number of server instances, whatever
\* other calls fail, and whatever the owner does to the rows of deletion jobs meanwhile.
THEOREM JobsRunOnce == Spec => []RunningIsHeld
<1>1. HeldInv => RunningIsHeld
  BY DEF HeldInv
<1> QED
  BY <1>1, HeldInvHolds, PTL

-----------------------------------------------------------------------------
(* What a job has done                                                       *)

\* Attempts are counted from zero, and a job that may be claimed has some left.
Tries ==
  \A j \in Jobs :
    /\ job[j].attempts <= MaxAttempts
    /\ job[j].status \in {"PENDING", "RETRY"} => job[j].attempts < MaxAttempts
    /\ job[j].status = "NONE" => job[j].attempts = 0

\* A worker that is not idle runs one job, for its latest attempt, and a step of one kind of
\* handler is about a job of that kind.
InHand(w, j) ==
  /\ work[w].try = job[j].attempts /\ work[w].try >= 1
  /\ work[w].pc \in {"record", "complete"} => j \in Sends
  /\ work[w].pc \in {"export", "unsave"} => j \in Exports
  /\ work[w].pc \in {"erase", "files"} => j \in Deletions
Hands ==
  /\ \A w \in Workers : work[w] = IdleWorker \/ \E j \in Jobs : Busy(w, j)
  /\ \A w \in Workers, j \in Jobs : Busy(w, j) => InHand(w, j)

\* The attempt in hand has not handed the message over yet; a digest not completed has no
\* notification, unless it was completed once and the answer was lost.
Handed ==
  /\ \A j \in Sends : smtp[j] <= job[j].attempts
  /\ \A w \in Workers, j \in Sends : At(w, "start", j) => smtp[j] < job[j].attempts
Noted ==
  \A j \in Digests :
    /\ job[j].status = "COMPLETED" => digests[j] >= 1
    /\ j \notin unsure => /\ digests[j] <= 1
                          /\ job[j].status \notin {"COMPLETED", "GONE"} => digests[j] = 0

\* Files are named by attempts that were made.  The attempt in hand has its file, or a part of
\* it, between the steps that write and that remove or record it; a result that was taken back
\* names no file that is still to be removed.
Kept == files \ stray
Named ==
  /\ \A f \in files : 1 <= f[2] /\ f[2] <= job[f[1]].attempts
  /\ \A e \in Exports :
       /\ result[e] <= job[e].attempts
       /\ result[e] > 0 => job[e].status \in {"COMPLETED", "GONE"} \/ <<e, result[e]>> \notin Kept
Written(w, e) ==
  /\ At(w, "start", e) => <<e, work[w].try>> \notin files /\ result[e] < work[w].try
  /\ At(w, "failing", e) => <<e, work[w].try>> \notin Kept
  /\ tenant /\ At(w, "export", e) => <<e, work[w].try>> \in files
  /\ tenant /\ (At(w, "unsave", e) \/ At(w, "failing", e)) /\ job[e].status = "COMPLETED" =>
       result[e] = work[w].try
Filed == Named /\ \A w \in Workers, e \in Exports : Written(w, e)

DoneInv == Tries /\ Hands /\ Handed /\ Noted /\ Filed /\ FilesAccounted

\* A step of a handler counts no attempt, and leaves its worker idle or with the same job and
\* attempt.
Goes(w, j) ==
  /\ Local(w, j)
  /\ job'[j].attempts = job[j].attempts
  /\ \/ job' = job
     \/ tenant /\ job'[j].status \in {"COMPLETED", "FAILED"}
     \/ tenant /\ job'[j].status = "RETRY" /\ job[j].attempts < MaxAttempts
  /\ \/ work'[w] = IdleWorker
     \/ /\ Busy(w, j)' /\ InHand(w, j)'
        /\ work'[w].try = work[w].try /\ work'[w].pc # "start"

FitsKind(pc, j) ==
  /\ pc \in {"record", "complete"} => j \in Sends
  /\ pc \in {"export", "unsave"} => j \in Exports
  /\ pc = "erase" => j \in Deletions

\* The row as it was, or completed.
MayComplete(j) == job' = job \/ (tenant /\ job' = [job EXCEPT ![j].status = "COMPLETED"])

LEMMA GoOnGoes ==
  ASSUME JobType, WorkType, NEW w \in Workers, NEW j \in Jobs,
         NEW pc \in Pcs \ {"idle", "start", "files"},
         Local(w, j), InHand(w, j), GoOn(w, pc), MayComplete(j), FitsKind(pc, j)
  PROVE  Goes(w, j)
<1>1. work'[w].pc = pc /\ work'[w].job = work[w].job /\ work'[w].try = work[w].try
  BY DEF GoOn, WorkType
<1>2. /\ job'[j].attempts = job[j].attempts
      /\ job' = job \/ (tenant /\ job'[j].status = "COMPLETED")
  BY DEF MayComplete, JobType
<1>3. Busy(w, j)' /\ InHand(w, j)'
  BY <1>1, <1>2 DEF Local, Busy, InHand, FitsKind
<1> QED
  BY <1>1, <1>2, <1>3 DEF Goes

LEMMA RestGoes ==
  ASSUME JobType, WorkType, NEW w \in Workers, NEW j \in Jobs, Local(w, j), Rest(w),
         MayComplete(j)
  PROVE  Goes(w, j)
<1>1. work'[w] = IdleWorker
  BY DEF Rest, WorkType
<1> QED
  BY <1>1 DEF Goes, JobType, MayComplete

LEMMA HandlerGoes ==
  ASSUME HeldInv, Hands, NEW w \in Workers, NEW j \in Jobs, Handler(w, j) PROVE Goes(w, j)
<1>0. WorkType /\ JobType /\ Local(w, j) /\ InHand(w, j)
  BY HandlerLocal DEF HeldInv, TypeOK, Local, Hands
<1> USE DEF lifecycle, effects, Pcs
<1>1. CASE Fail(w, j)
  <2> DEFINE v == Verdict(j)
  <2>1. v.status = "FAILED" \/ (v.status = "RETRY" /\ job[j].attempts < MaxAttempts)
    BY DEF Verdict
  <2>2. \/ job' = job
        \/ tenant /\ job' = [job EXCEPT ![j].status = v.status, ![j].due = v.due]
    BY <1>1, Zenon DEF Fail
  <2>3. work'[w] = IdleWorker
    BY <1>0, <1>1 DEF Fail, Rest, WorkType
  <2> HIDE DEF v
  <2> QED
    BY <1>0, <2>1, <2>2, <2>3 DEF Goes, JobType
<1>2. CASE SmtpSend(w, j)
  BY <1>0, <1>2, GoOnGoes DEF SmtpSend, FitsKind, MayComplete
<1>3. j \in Sends \/ work[w].pc \notin {"record", "complete"}
  BY <1>0 DEF InHand
<1>4. CASE SmtpRecord(w, j)
  BY <1>0, <1>3, <1>4, GoOnGoes DEF SmtpRecord, At, FitsKind, MayComplete
<1>5. CASE Complete(w, j)
  BY <1>0, <1>5, GoOnGoes, RestGoes DEF Complete, Commits, RollsBack, FitsKind, MayComplete
<1>6. CASE DigestWrite(w, j)
  BY <1>0, <1>6, GoOnGoes, RestGoes DEF DigestWrite, Commits, RollsBack, FitsKind, MayComplete
<1>7. CASE ExportSave(w, j)
  BY <1>0, <1>7, GoOnGoes DEF ExportSave, FitsKind, MayComplete
<1>8. j \in Exports \/ work[w].pc \notin {"export", "unsave"}
  BY <1>0 DEF InHand
<1>9. CASE ExportCommit(w, j)
  <2>1. j \in Exports /\ MayComplete(j)
    BY <1>8, <1>9 DEF ExportCommit, At, MayComplete
  <2>2. Rest(w) \/ GoOn(w, "unsave")
    BY <1>9 DEF ExportCommit, Commits, RollsBack
  <2> QED
    BY <1>0, <2>1, <2>2, GoOnGoes, RestGoes DEF FitsKind
<1>10. CASE ExportUnsave(w, j)
  BY <1>0, <1>10, GoOnGoes DEF ExportUnsave, FitsKind, MayComplete
<1>11. CASE DeletionRead(w, j)
  <2>1. CASE GoOn(w, "failing")
    BY <1>0, <1>11, <2>1, GoOnGoes DEF DeletionRead, FitsKind, MayComplete
  <2>2. ASSUME NEW k, work' = [work EXCEPT ![w].pc = "erase", ![w].keys = k]
        PROVE  Goes(w, j)
    <3>1. work'[w].pc = "erase" /\ work'[w].job = work[w].job /\ work'[w].try = work[w].try
      BY <1>0, <2>2 DEF WorkType
    <3>2. job' = job /\ j \in Deletions
      BY <1>11 DEF DeletionRead
    <3>3. Busy(w, j)' /\ InHand(w, j)'
      BY <1>0, <3>1, <3>2 DEF Local, Busy, InHand
    <3> QED
      BY <1>0, <3>1, <3>2, <3>3 DEF Goes
  <2> QED
    BY <1>11, <2>1, <2>2 DEF DeletionRead
<1>12. CASE DeletionFiles(w, j)
  BY <1>0, <1>12, RestGoes DEF DeletionFiles, MayComplete
<1> QED
  BY <1>1, <1>2, <1>4, <1>5, <1>6, <1>7, <1>9, <1>10, <1>11, <1>12 DEF Handler

LEMMA GoesTries ==
  ASSUME HeldInv, Tries, Hands, NEW w \in Workers, NEW j \in Jobs, Goes(w, j)
  PROVE  Tries' /\ Hands'
<1>1. \A i \in Jobs \ {j} : job'[i] = job[i]
  BY DEF Goes, Local
<1>2. Tries'
  <2> SUFFICES ASSUME NEW i \in Jobs
               PROVE  /\ job'[i].attempts <= MaxAttempts
                      /\ job'[i].status \in {"PENDING", "RETRY"} => job'[i].attempts < MaxAttempts
                      /\ job'[i].status = "NONE" => job'[i].attempts = 0
    BY DEF Tries
  <2>1. CASE i = j
    BY <2>1 DEF Tries, Goes
  <2>2. CASE i # j
    BY <1>1, <2>2 DEF Tries
  <2> QED
    BY <2>1, <2>2
<1>3. ASSUME NEW v \in Workers
      PROVE  /\ work'[v] = IdleWorker \/ \E i \in Jobs : Busy(v, i)'
             /\ \A i \in Jobs : Busy(v, i)' => InHand(v, i)'
  <2>1. CASE v # w
    <3>1. work'[v] = work[v]
      BY <2>1 DEF Goes, Local
    <3>2. \A i \in Jobs : Busy(v, i)' <=> Busy(v, i)
      BY <3>1 DEF Busy
    <3>3. ASSUME NEW i \in Jobs, Busy(v, i) PROVE InHand(v, i)'
      <4>1. InHand(v, i)
        BY <3>3 DEF Hands
      <4>2. job'[i].attempts = job[i].attempts
        BY <1>1 DEF Goes
      <4> QED
        BY <3>1, <4>1, <4>2 DEF InHand
    <3> QED
      BY <3>1, <3>2, <3>3 DEF Hands
  <2>2. CASE v = w
    <3>1. CASE work'[w] = IdleWorker
      BY <2>2, <3>1 DEF Busy, IdleWorker
    <3>2. CASE Busy(w, j)' /\ InHand(w, j)'
      <4>1. \A i \in Jobs : Busy(w, i)' => i = j
        BY <3>2 DEF Busy
      <4> QED
        BY <2>2, <3>2, <4>1
    <3> QED
      BY <3>1, <3>2 DEF Goes
  <2> QED
    BY <2>1, <2>2
<1> QED
  BY <1>2, <1>3 DEF Hands

-----------------------------------------------------------------------------
(* Hand-overs and notifications                                              *)

\* Only the worker that runs a job is at one of its steps.
LEMMA OnlyAt ==
  ASSUME HeldInv, NEW w \in Workers, NEW j \in Jobs, Busy(w, j),
         NEW v \in Workers \ {w}, NEW pc \in Pcs \ {"idle"}
  PROVE  ~At(v, pc, j)
  BY AtBusy DEF HeldInv, RunningIsHeld

LEMMA GoesAway ==
  ASSUME HeldInv, NEW w \in Workers, NEW j \in Jobs, Goes(w, j)
  PROVE  /\ \A v \in Workers, i \in Jobs : At(v, "start", i)' => At(v, "start", i) /\ i # j
         /\ \A i \in Jobs \ {j} : job'[i] = job[i]
<1>1. \A i \in Jobs \ {j} : job'[i] = job[i]
  BY DEF Goes, Local
<1>2. ASSUME NEW v \in Workers, NEW i \in Jobs, At(v, "start", i)'
      PROVE  At(v, "start", i) /\ i # j
  <2>1. v # w
    BY <1>2 DEF Goes, At, IdleWorker
  <2>2. At(v, "start", i)
    BY <1>2, <2>1 DEF Goes, Local, At
  <2>3. ~At(v, "start", j)
    BY <2>1, OnlyAt DEF Goes, Local, Pcs
  <2> QED
    BY <2>2, <2>3
<1> QED
  BY <1>1, <1>2

LEMMA GoesHanded ==
  ASSUME HeldInv, Tries, Handed, NEW w \in Workers, NEW j \in Jobs, Goes(w, j),
         \/ smtp' = smtp
         \/ j \in Sends /\ At(w, "start", j) /\ smtp' = [smtp EXCEPT ![j] = @ + 1]
  PROVE  Handed'
<1>0. EffectType /\ JobType /\ Sends \subseteq Jobs
  BY DEF HeldInv, TypeOK, Jobs
<1>1. /\ \A v \in Workers, i \in Jobs : At(v, "start", i)' => At(v, "start", i) /\ i # j
      /\ \A i \in Jobs \ {j} : job'[i] = job[i]
      /\ job'[j].attempts = job[j].attempts
  BY GoesAway DEF Goes
<1>2. \A i \in Sends \ {j} : smtp'[i] = smtp[i]
  BY <1>0 DEF EffectType
<1>3. j \in Sends => smtp'[j] <= job[j].attempts
  <2>1. CASE smtp' = smtp
    BY <2>1 DEF Handed
  <2>2. CASE j \in Sends /\ At(w, "start", j) /\ smtp' = [smtp EXCEPT ![j] = @ + 1]
    <3>1. smtp[j] < job[j].attempts /\ smtp'[j] = smtp[j] + 1
      BY <1>0, <2>2 DEF Handed, EffectType
    <3> QED
      BY <1>0, <3>1, <2>2 DEF EffectType, JobType
  <2> QED
    BY <2>1, <2>2
<1>4. \A i \in Sends : smtp'[i] <= job'[i].attempts
  BY <1>0, <1>1, <1>2, <1>3 DEF Handed
<1>5. \A v \in Workers, i \in Sends : At(v, "start", i)' => smtp'[i] < job'[i].attempts
  BY <1>0, <1>1, <1>2 DEF Handed
<1> QED
  BY <1>4, <1>5 DEF Handed

LEMMA GoesNoted ==
  ASSUME HeldInv, Noted, NEW w \in Workers, NEW j \in Jobs, Goes(w, j),
         \/ digests' = digests /\ (j \in Digests => job' = job \/ job'[j].status # "COMPLETED")
         \/ /\ tenant /\ j \in Digests
            /\ job'[j].status = "COMPLETED" /\ digests' = [digests EXCEPT ![j] = @ + 1]
  PROVE  Noted'
<1>0. EffectType /\ JobType /\ Digests \subseteq Jobs
  BY DEF HeldInv, TypeOK, Jobs
<1>1. /\ \A i \in Jobs \ {j} : job'[i] = job[i]
      /\ \A i \in Jobs : i \notin unsure' => i \notin unsure
  BY GoesAway DEF Goes, Local
<1>2. \A i \in Digests \ {j} : digests'[i] = digests[i]
  BY <1>0 DEF EffectType
<1>3. tenant /\ j \notin unsure => job[j].status = "RUNNING"
  BY DEF Goes, Local, HeldInv, BusyRuns, Unanswered
<1>4. j \in Digests =>
        /\ job'[j].status = "COMPLETED" => digests'[j] >= 1
        /\ j \notin unsure => /\ digests'[j] <= 1
                              /\ job'[j].status \notin {"COMPLETED", "GONE"} => digests'[j] = 0
  <2>1. CASE job' = job /\ digests' = digests
    BY <2>1 DEF Noted
  <2>2. CASE job' # job /\ digests' = digests /\ (j \in Digests => job'[j].status # "COMPLETED")
    <3>1. j \in Digests /\ j \notin unsure => digests[j] = 0
      BY <1>3, <2>2 DEF Noted, Goes
    <3> QED
      BY <2>2, <3>1
  <2>3. CASE /\ tenant /\ j \in Digests /\ job'[j].status = "COMPLETED"
             /\ digests' = [digests EXCEPT ![j] = @ + 1]
    <3>1. digests[j] \in Nat /\ digests'[j] = digests[j] + 1
      BY <1>0, <2>3 DEF EffectType
    <3>2. j \notin unsure => digests[j] = 0
      BY <1>3, <2>3 DEF Noted
    <3> QED
      BY <2>3, <3>1, <3>2
  <2> QED
    BY <2>1, <2>2, <2>3
<1>5. ASSUME NEW i \in Digests
      PROVE  /\ job'[i].status = "COMPLETED" => digests'[i] >= 1
             /\ i \notin unsure' => /\ digests'[i] <= 1
                                    /\ job'[i].status \notin {"COMPLETED", "GONE"} => digests'[i] = 0
  BY <1>0, <1>1, <1>2, <1>4 DEF Noted
<1> QED
  BY <1>5 DEF Noted

-----------------------------------------------------------------------------
(* Export files                                                              *)

\* Where a file that is still to be removed belongs: to a completed export or to a worker.
Accounted(f) ==
  \/ tenant /\ result[f[1]] = f[2]
  \/ \E w \in Workers : f \in FilesOf(w)

Downloadable ==
  \A e \in Exports :
    tenant /\ job[e].status = "COMPLETED" => <<e, result[e]>> \in files \/ e \in unsure

LEMMA FilesAccountedParts == FilesAccounted <=> Downloadable /\ \A f \in Kept : Accounted(f)
  BY DEF FilesAccounted, Downloadable, Accounted, Kept

\* What a handler's step does to the files: it may write or remove that of its attempt, and
\* completes its job with it, or the deletion removes those it knows of; what is left where it
\* should have been removed is stray.
Removed(f) == f \notin files' \ stray'
FileStep(w, j) ==
  /\ \A f \in files' : f \in files \/ (j \in Exports /\ f = <<j, work[w].try>>)
  /\ stray \subseteq stray'
  /\ tenant => \A f \in files : f[1] # j => f \in files'
  /\ \A e \in Exports \ {j} : result'[e] = result[e]
  /\ work[w].pc = "files" => \A f \in work[w].keys : Removed(f)
  /\ j \in Exports =>
       \/ /\ result'[j] = result[j]
          /\ \/ job' = job
             \/ /\ At(w, "failing", j) /\ work'[w] = IdleWorker
                /\ job'[j].status # "COMPLETED"
          /\ <<j, work[w].try>> \in files' => <<j, work[w].try>> \in files \/ At(w, "start", j)
          /\ work'[w].pc \in {"idle", "failing"} => Removed(<<j, work[w].try>>)
          /\ work'[w].pc = "export" => <<j, work[w].try>> \in files'
       \/ /\ tenant /\ At(w, "export", j)
          /\ result'[j] = work[w].try /\ job'[j].status = "COMPLETED"
          /\ <<j, work[w].try>> \in files'
          /\ work'[w] = IdleWorker \/ work'[w].pc = "unsave"

LEMMA FileOf ==
  ASSUME HeldInv, NEW f \in files
  PROVE  f[1] \in Exports /\ f[2] \in Nat /\ f = <<f[1], f[2]>> /\ f[1] \in Jobs
  BY DEF HeldInv, TypeOK, EffectType, Jobs

\* The result of a job that is still RUNNING names no file that is to be removed.
LEMMA ResultOfRunning ==
  ASSUME HeldInv, Filed, NEW f \in Kept, result[f[1]] = f[2], job[f[1]].status = "RUNNING"
  PROVE  FALSE
<1>1. /\ f[1] \in Exports /\ f = <<f[1], f[2]>> /\ f[2] \in Nat /\ f[2] >= 1
      /\ <<f[1], result[f[1]]>> \in Kept
  BY FileOf DEF Kept, Filed, Named
<1>2. result[f[1]] > 0
  BY <1>1
<1> QED
  BY <1>1, <1>2 DEF Filed, Named

LEMMA FileStepAccounted ==
  ASSUME HeldInv, Hands, Filed, NEW w \in Workers, NEW j \in Jobs, Goes(w, j), FileStep(w, j),
         NEW f \in files, f \in Kept', Accounted(f)
  PROVE  Accounted(f)'
<1>0. f[1] \in Exports /\ f[2] \in Nat /\ f = <<f[1], f[2]>> /\ f[1] \in Jobs
  BY FileOf
<1>1. tenant' = tenant /\ \A v \in Workers \ {w} : work'[v] = work[v]
  BY DEF Goes, Local
<1>2. /\ work[w].job = {j}
      /\ tenant => job[j].status = "RUNNING" \/ Unanswered(w, j)
  BY DEF Goes, Local, Busy, HeldInv, BusyRuns
<1>3. f \in files' /\ f \in Kept /\ ~Removed(f)
  BY DEF Kept, Removed, FileStep
<1>4. CASE tenant /\ result[f[1]] = f[2]
  <2>1. result'[f[1]] = f[2]
    <3>1. CASE f[1] # j
      BY <1>0, <1>4, <3>1 DEF FileStep
    <3>2. CASE f[1] = j
      <4>1. Unanswered(w, j)
        BY <1>2, <1>3, <1>4, <3>2, ResultOfRunning
      <4>2. ~At(w, "export", j)
        BY <4>1 DEF Unanswered, At
      <4> QED
        BY <1>0, <1>4, <3>2, <4>2 DEF FileStep
    <3> QED
      BY <3>1, <3>2
  <2> QED
    BY <1>1, <1>4, <2>1 DEF Accounted
<1>5. ASSUME NEW v \in Workers, work[v].job = {f[1]}, work[v].try = f[2] PROVE Accounted(f)'
  <2>1. CASE v # w
    BY <1>1, <1>3, <1>5, <2>1 DEF Accounted, FilesOf
  <2>2. CASE v = w
    <3>1. f[1] = j /\ f = <<j, work[w].try>>
      BY <1>0, <1>2, <1>5, <2>2
    <3>2. CASE work'[w] = IdleWorker
      <4>1. work'[w].pc = "idle"
        BY <3>2 DEF IdleWorker
      <4>2. tenant /\ result'[j] = work[w].try
        BY <1>0, <1>3, <3>1, <4>1 DEF FileStep
      <4> QED
        BY <1>1, <1>5, <2>2, <3>1, <4>2 DEF Accounted
    <3>3. CASE Busy(w, j)' /\ work'[w].try = work[w].try
      BY <1>3, <1>5, <2>2, <3>1, <3>3 DEF Accounted, Busy, FilesOf
    <3> QED
      BY <3>2, <3>3 DEF Goes
  <2> QED
    BY <2>1, <2>2
<1>6. ASSUME NEW v \in Workers, work[v].pc = "files", f \in work[v].keys PROVE Accounted(f)'
  <2>1. v # w
    BY <1>3, <1>6 DEF FileStep
  <2> QED
    BY <1>1, <1>3, <1>6, <2>1 DEF Accounted, FilesOf
<1> QED
  BY <1>4, <1>5, <1>6 DEF Accounted, FilesOf

LEMMA FileStepFilesAccounted ==
  ASSUME HeldInv, Hands, Filed, FilesAccounted, NEW w \in Workers, NEW j \in Jobs, Goes(w, j),
         FileStep(w, j)
  PROVE  FilesAccounted'
<1>0. /\ tenant' = tenant /\ unsure \subseteq unsure' /\ Exports \subseteq Jobs
      /\ \A i \in Jobs \ {j} : job'[i] = job[i]
  BY DEF Goes, Local, Jobs
<1>1. /\ Busy(w, j)
      /\ tenant => job[j].status = "RUNNING" \/ Unanswered(w, j)
  BY DEF Goes, Local, HeldInv, BusyRuns
<1>2. Downloadable'
  <2> SUFFICES ASSUME NEW e \in Exports, tenant, job'[e].status = "COMPLETED"
               PROVE  <<e, result'[e]>> \in files' \/ e \in unsure'
    BY <1>0 DEF Downloadable
  <2>1. CASE e # j
    <3>1. <<e, result[e]>> \in files \/ e \in unsure
      BY <1>0, <2>1, FilesAccountedParts DEF Downloadable
    <3>2. result'[e] = result[e]
      BY <2>1 DEF FileStep
    <3> QED
      BY <1>0, <2>1, <3>1, <3>2 DEF FileStep
  <2>2. CASE e = j /\ <<j, result'[j]>> \notin files'
    <3>1. job' = job
      BY <2>2 DEF FileStep
    <3> QED
      BY <1>0, <1>1, <2>2, <3>1 DEF Unanswered
  <2> QED
    BY <2>1, <2>2
<1>3. ASSUME NEW f \in Kept' PROVE Accounted(f)'
  <2>1. CASE f \in files
    <3>1. f \in Kept
      BY <1>3, <2>1 DEF Kept, FileStep
    <3> QED
      BY <1>3, <2>1, <3>1, FilesAccountedParts, FileStepAccounted
  <2>2. CASE j \in Exports /\ f = <<j, work[w].try>>
    <3>1. f[1] = j /\ f[2] = work[w].try /\ f \in files' /\ ~Removed(f)
      BY <1>3, <2>2 DEF Kept, Removed
    <3>2. CASE work'[w] = IdleWorker
      <4>1. work'[w].pc = "idle"
        BY <3>2 DEF IdleWorker
      <4>2. tenant /\ result'[j] = work[w].try
        BY <2>2, <3>1, <4>1 DEF FileStep
      <4> QED
        BY <1>0, <3>1, <4>2 DEF Accounted
    <3>3. CASE Busy(w, j)' /\ work'[w].try = work[w].try
      BY <3>1, <3>3 DEF Accounted, Busy, FilesOf
    <3> QED
      BY <3>2, <3>3 DEF Goes
  <2> QED
    BY <1>3, <2>1, <2>2 DEF FileStep, Kept
<1> QED
  BY <1>2, <1>3 DEF FilesAccounted, Downloadable, Accounted, Kept

LEMMA FileStepNamed ==
  ASSUME HeldInv, Hands, Filed, NEW w \in Workers, NEW j \in Jobs, Goes(w, j), FileStep(w, j)
  PROVE  Named'
<1>1. /\ \A i \in Jobs \ {j} : job'[i] = job[i]
      /\ \A i \in Jobs : job'[i].attempts = job[i].attempts
      /\ tenant' = tenant
  BY GoesAway DEF Goes, Local
<1>2. /\ Busy(w, j) /\ InHand(w, j)
      /\ tenant => job[j].status = "RUNNING" \/ Unanswered(w, j)
  BY DEF Goes, Local, Hands, HeldInv, BusyRuns
<1>3. JobType /\ WorkType /\ EffectType /\ Exports \subseteq Jobs
  BY DEF HeldInv, TypeOK, Jobs
<1>4. \A f \in files' : 1 <= f[2] /\ f[2] <= job'[f[1]].attempts
  <2> SUFFICES ASSUME NEW f \in files' PROVE 1 <= f[2] /\ f[2] <= job'[f[1]].attempts
    OBVIOUS
  <2>1. CASE f \in files
    BY <1>1, <2>1, FileOf DEF Filed, Named
  <2>2. CASE f = <<j, work[w].try>>
    <3>1. f[1] = j /\ f[2] = work[w].try /\ work[w].try \in Nat /\ job[j].attempts \in Nat
      BY <1>3, <2>2 DEF WorkType, JobType
    <3> QED
      BY <1>1, <1>2, <3>1 DEF InHand
  <2> QED
    BY <2>1, <2>2 DEF FileStep
<1>5. ASSUME NEW e \in Exports
      PROVE  /\ result'[e] <= job'[e].attempts
             /\ result'[e] > 0 => \/ job'[e].status \in {"COMPLETED", "GONE"}
                                  \/ <<e, result'[e]>> \notin Kept'
  <2>1. CASE e # j
    <3>1. job'[e] = job[e] /\ result'[e] = result[e]
      BY <1>1, <1>3, <2>1 DEF FileStep
    <3>2. <<e, result[e]>> \in Kept' => <<e, result[e]>> \in Kept
      BY <2>1 DEF Kept, FileStep
    <3> QED
      BY <3>1, <3>2 DEF Filed, Named
  <2>2. CASE e = j /\ result'[j] = work[w].try /\ job'[j].status = "COMPLETED"
    <3>1. work[w].try \in Nat /\ job[j].attempts \in Nat
      BY <1>3 DEF WorkType, JobType
    <3> QED
      BY <1>1, <1>2, <2>2, <3>1 DEF InHand
  <2>3. CASE /\ e = j /\ result'[j] = result[j]
             /\ job' = job \/ At(w, "failing", j)
             /\ <<j, work[w].try>> \in files' => <<j, work[w].try>> \in files \/ At(w, "start", j)
    <3>1. result'[j] <= job'[j].attempts
      BY <1>1, <2>3 DEF Filed, Named
    <3>2. ASSUME <<j, result[j]>> \in Kept' PROVE <<j, result[j]>> \in Kept
      <4>1. <<j, result[j]>> \in files' /\ <<j, result[j]>> \notin stray
        BY <3>2 DEF Kept, FileStep
      <4>2. CASE <<j, result[j]>> \in files
        BY <4>1, <4>2 DEF Kept
      <4>3. CASE result[j] = work[w].try /\ At(w, "start", j)
        BY <1>3, <2>3, <4>3 DEF Filed, Written, EffectType, WorkType
      <4>4. <<j, result[j]>> \in files \/ result[j] = work[w].try
        BY <4>1 DEF FileStep
      <4> QED
        BY <2>3, <4>1, <4>2, <4>3, <4>4
    <3>3. CASE job' = job
      BY <2>3, <3>1, <3>2, <3>3 DEF Filed, Named
    <3>4. CASE At(w, "failing", j) /\ job' # job
      <4>1. tenant
        BY <3>4 DEF Goes
      <4>2. <<j, result[j]>> \notin Kept \/ result[j] = 0
        <5>1. CASE job[j].status = "RUNNING"
          BY <1>3, <2>3, <5>1 DEF Filed, Named, EffectType
        <5>2. CASE job[j].status = "COMPLETED"
          BY <2>3, <3>4, <4>1, <5>2 DEF Filed, Written
        <5> QED
          BY <1>2, <4>1, <5>1, <5>2 DEF Unanswered
      <4> QED
        BY <1>3, <2>3, <3>1, <3>2, <4>2 DEF EffectType
    <3> QED
      BY <2>3, <3>3, <3>4
  <2> QED
    BY <2>1, <2>2, <2>3 DEF FileStep
<1> QED
  BY <1>4, <1>5 DEF Named

LEMMA FileStepWritten ==
  ASSUME HeldInv, Hands, Filed, NEW w \in Workers, NEW j \in Jobs, Goes(w, j), FileStep(w, j),
         NEW v \in Workers, NEW e \in Exports
  PROVE  Written(v, e)'
<1>1. /\ \A i \in Jobs \ {j} : job'[i] = job[i]
      /\ tenant' = tenant /\ Exports \subseteq Jobs
      /\ \A u \in Workers \ {w} : work'[u] = work[u]
  BY DEF Goes, Local, Jobs
<1>2. /\ Busy(w, j)
      /\ tenant => job[j].status = "RUNNING" \/ Unanswered(w, j)
  BY DEF Goes, Local, HeldInv, BusyRuns
<1>3. CASE v # w
  <2>1. work'[v] = work[v]
    BY <1>1, <1>3
  <2>2. \A pc \in {"start", "failing", "export", "unsave"} :
          At(v, pc, e)' => At(v, pc, e) /\ e # j
    BY <1>2, <1>3, <2>1, OnlyAt DEF Pcs, At
  <2>3. e # j => /\ job'[e] = job[e] /\ result'[e] = result[e]
                 /\ \A n : <<e, n>> \in files' => <<e, n>> \in files
                 /\ \A n : <<e, n>> \in Kept' => <<e, n>> \in Kept
                 /\ tenant => \A n : <<e, n>> \in files => <<e, n>> \in files'
    BY <1>1 DEF FileStep, Kept
  <2>4. Written(v, e)
    BY DEF Filed
  <2> QED
    BY <1>1, <2>1, <2>2, <2>3, <2>4 DEF Written
<1>4. CASE v = w /\ e = j /\ Busy(w, j)' /\ work'[w].try = work[w].try /\ work'[w].pc # "start"
  <2>1. work'[w].pc # "idle" /\ work'[w] # IdleWorker
    BY <1>4 DEF Busy, IdleWorker
  <2>2. CASE /\ tenant /\ At(w, "export", j)
             /\ result'[j] = work[w].try /\ work'[w].pc = "unsave"
    BY <1>4, <2>2 DEF Written, At
  <2>3. CASE /\ result'[j] = result[j] /\ job' = job
             /\ work'[w].pc = "failing" => Removed(<<j, work[w].try>>)
             /\ work'[w].pc = "export" => <<j, work[w].try>> \in files'
    <3>1. tenant /\ job[j].status = "COMPLETED" => result[j] = work[w].try
      BY <1>2, <1>4 DEF Unanswered, Busy, At, Filed, Written
    <3> QED
      BY <1>1, <1>4, <2>3, <3>1 DEF Written, At, Removed, Kept
  <2> QED
    BY <1>4, <2>1, <2>2, <2>3 DEF FileStep
<1>5. CASE v = w /\ (e # j \/ work'[w] = IdleWorker)
  <2>1. \A pc \in {"start", "failing", "export", "unsave"} : ~At(w, pc, e)'
    BY <1>5 DEF Goes, At, Busy, IdleWorker
  <2> QED
    BY <1>5, <2>1 DEF Written
<1> QED
  BY <1>3, <1>4, <1>5 DEF Goes

LEMMA FileStepFiled ==
  ASSUME HeldInv, Hands, Filed, FilesAccounted, NEW w \in Workers, NEW j \in Jobs, Goes(w, j),
         FileStep(w, j)
  PROVE  Filed' /\ FilesAccounted'
  BY FileStepFilesAccounted, FileStepNamed, FileStepWritten DEF Filed

-----------------------------------------------------------------------------
(* The handlers one by one                                                   *)

\* What a handler leaves of the files when it touches none: it is not about an export, or it
\* goes on, or it ends an attempt that has no file.
LEMMA FilesStay ==
  ASSUME HeldInv, NEW w \in Workers, NEW j \in Jobs, Goes(w, j), UNCHANGED <<files, result>>,
         stray \subseteq stray', work[w].pc # "files",
         j \in Exports =>
           /\ \/ job' = job
              \/ /\ At(w, "failing", j) /\ work'[w] = IdleWorker
                 /\ job'[j].status # "COMPLETED"
           /\ work'[w].pc \in {"idle", "failing"} => Removed(<<j, work[w].try>>)
           /\ work'[w].pc # "export"
  PROVE  FileStep(w, j)
<1>1. \A f \in files' : f \in files
  OBVIOUS
<1>2. \A e \in Exports \ {j} : result'[e] = result[e]
  OBVIOUS
<1> QED
  BY <1>1, <1>2 DEF FileStep

LEMMA KindsApart ==
  ASSUME NEW j
  PROVE  /\ j \in Sends => j \notin Digests /\ j \notin Exports /\ j \notin Deletions
         /\ j \in Digests => j \notin Exports /\ j \notin Deletions
         /\ j \in Exports => j \notin Deletions
  BY JobAssumption

LEMMA MailHandlersDone ==
  ASSUME HeldInv, DoneInv, NEW w \in Workers, NEW j \in Jobs,
         Fail(w, j) \/ SmtpSend(w, j) \/ SmtpRecord(w, j) \/ Complete(w, j) \/ DigestWrite(w, j)
  PROVE  DoneInv'
<1>0. /\ WorkType /\ JobType /\ EffectType /\ Goes(w, j) /\ InHand(w, j) /\ Busy(w, j)
      /\ work[w].pc # "files" /\ stray' = stray
  BY HandlerGoes DEF HeldInv, TypeOK, DoneInv, Goes, Local, Hands, Handler, Fail, SmtpSend,
                     SmtpRecord, Complete, DigestWrite, At
<1>1. Tries' /\ Hands'
  BY <1>0, GoesTries DEF DoneInv
<1>2. ASSUME Handed', Noted', FileStep(w, j) PROVE DoneInv'
  BY <1>0, <1>1, <1>2, FileStepFiled DEF DoneInv
<1>3. ASSUME smtp' = smtp PROVE Handed'
  BY <1>0, <1>3, GoesHanded DEF DoneInv
<1>4. ASSUME digests' = digests, j \in Digests => job' = job \/ job'[j].status # "COMPLETED"
      PROVE  Noted'
  BY <1>0, <1>4, GoesNoted DEF DoneInv
<1>5. ASSUME UNCHANGED <<files, result>>, j \notin Exports PROVE FileStep(w, j)
  BY <1>0, <1>5, FilesStay
<1>6. CASE Fail(w, j)
  <2>1. job'[j].status # "COMPLETED" \/ job' = job
    <3> DEFINE v == Verdict(j)
    <3>1. v.status # "COMPLETED"
      BY DEF Verdict
    <3>2. job' = job \/ job' = [job EXCEPT ![j].status = v.status, ![j].due = v.due]
      BY <1>6, Zenon DEF Fail
    <3> HIDE DEF v
    <3> QED
      BY <1>0, <1>6, <3>1, <3>2 DEF Fail, JobType
  <2>2. UNCHANGED <<files, result, smtp, digests>> /\ At(w, "failing", j)
    BY <1>6 DEF Fail, effects
  <2>3. work'[w] = IdleWorker
    BY <1>0, <1>6 DEF Fail, Rest, WorkType
  <2>4. j \in Exports => Removed(<<j, work[w].try>>)
    BY <1>0, <2>2 DEF DoneInv, Filed, Written, Kept, Removed
  <2>5. FileStep(w, j)
    BY <1>0, <2>1, <2>2, <2>3, <2>4, FilesStay DEF IdleWorker
  <2> QED
    BY <1>2, <1>3, <1>4, <2>1, <2>2, <2>5
<1>7. CASE SmtpSend(w, j)
  <2>1. /\ j \in Sends /\ At(w, "start", j) /\ job' = job /\ UNCHANGED <<digests, files, result>>
        /\ smtp' = smtp \/ smtp' = [smtp EXCEPT ![j] = @ + 1]
    BY <1>7 DEF SmtpSend
  <2>2. Handed'
    BY <1>0, <2>1, GoesHanded DEF DoneInv
  <2> QED
    BY <1>2, <1>4, <1>5, <2>1, <2>2, KindsApart
<1>8. CASE SmtpRecord(w, j)
  <2>1. j \in Sends /\ job' = job /\ UNCHANGED <<smtp, digests, files, result>>
    BY <1>0, <1>8 DEF SmtpRecord, At, InHand, effects
  <2> QED
    BY <1>2, <1>3, <1>4, <1>5, <2>1, KindsApart
<1>9. CASE Complete(w, j)
  <2>1. j \in Sends /\ UNCHANGED <<smtp, digests, files, result>>
    BY <1>0, <1>9 DEF Complete, At, InHand, effects
  <2> QED
    BY <1>2, <1>3, <1>4, <1>5, <2>1, KindsApart
<1>10. CASE DigestWrite(w, j)
  <2>1. j \in Digests /\ UNCHANGED <<smtp, files, result>>
    BY <1>10 DEF DigestWrite
  <2>2. \/ job' = job /\ digests' = digests
        \/ tenant /\ job'[j].status = "COMPLETED" /\ digests' = [digests EXCEPT ![j] = @ + 1]
    BY <1>0, <1>10 DEF DigestWrite, JobType
  <2>3. Noted'
    BY <1>0, <2>1, <2>2, GoesNoted DEF DoneInv
  <2> QED
    BY <1>2, <1>3, <1>5, <2>1, <2>3, KindsApart
<1> QED
  BY <1>6, <1>7, <1>8, <1>9, <1>10

LEMMA FileHandlersDone ==
  ASSUME HeldInv, DoneInv, NEW w \in Workers, NEW j \in Jobs,
         ExportSave(w, j) \/ ExportCommit(w, j) \/ ExportUnsave(w, j)
         \/ DeletionRead(w, j) \/ DeletionFiles(w, j)
  PROVE  DoneInv'
<1>0. WorkType /\ JobType /\ EffectType /\ Goes(w, j) /\ InHand(w, j) /\ Busy(w, j)
  BY HandlerGoes DEF HeldInv, TypeOK, DoneInv, Goes, Local, Hands, Handler
<1>1. Tries' /\ Hands'
  BY <1>0, GoesTries DEF DoneInv
<1>2. UNCHANGED <<smtp, digests>> /\ j \notin Digests
  BY <1>0, KindsApart DEF ExportSave, ExportCommit, ExportUnsave, DeletionRead, DeletionFiles,
                          effects, At, InHand
<1>3. Handed' /\ Noted'
  BY <1>0, <1>2, GoesHanded, GoesNoted DEF DoneInv
<1>4. ASSUME FileStep(w, j) PROVE DoneInv'
  BY <1>0, <1>1, <1>3, <1>4, FileStepFiled DEF DoneInv
<1>5. CASE ExportSave(w, j)
  <2>1. j \in Exports /\ At(w, "start", j) /\ job' = job /\ result' = result
    BY <1>5 DEF ExportSave
  <2>2. <<j, work[w].try>> \notin files
    BY <2>1 DEF DoneInv, Filed, Written
  <2>3. CASE GoOn(w, "failing") /\ UNCHANGED <<files, stray>>
    <3>1. work'[w].pc = "failing"
      BY <1>0, <2>3 DEF GoOn, WorkType
    <3> QED
      BY <1>0, <1>4, <2>1, <2>2, <2>3, <3>1, FilesStay DEF At, Removed
  <2>4. CASE /\ GoOn(w, "export") /\ files' = files \cup {<<j, work[w].try>>}
             /\ stray' = stray
    <3>1. work'[w].pc = "export"
      BY <1>0, <2>4 DEF GoOn, WorkType
    <3>2. FileStep(w, j)
      BY <2>1, <2>4, <3>1 DEF FileStep, At
    <3> QED
      BY <1>4, <3>2
  <2>5. CASE /\ GoOn(w, "failing") /\ files' = files \cup {<<j, work[w].try>>}
             /\ stray' = stray \cup {<<j, work[w].try>>}
    <3>1. work'[w].pc = "failing"
      BY <1>0, <2>5 DEF GoOn, WorkType
    <3>2. FileStep(w, j)
      BY <2>1, <2>5, <3>1 DEF FileStep, At, Removed
    <3> QED
      BY <1>4, <3>2
  <2> QED
    BY <1>5, <2>3, <2>4, <2>5 DEF ExportSave
<1>6. CASE ExportCommit(w, j)
  <2>1. j \in Exports /\ At(w, "export", j) /\ files' = files /\ stray' = stray
    BY <1>0, <1>6 DEF ExportCommit, At, InHand
  <2>2. CASE RollsBack(w, "unsave") /\ job' = job /\ result' = result
    <3>1. work'[w].pc = "unsave"
      BY <1>0, <2>2 DEF RollsBack, GoOn, WorkType
    <3> QED
      BY <1>0, <1>4, <2>1, <2>2, <3>1, FilesStay DEF At
  <2>3. CASE /\ tenant /\ job' = [job EXCEPT ![j].status = "COMPLETED"]
             /\ result' = [result EXCEPT ![j] = work[w].try] /\ Commits(w, j, "unsave")
    <3>1. <<j, work[w].try>> \in files
      BY <2>1, <2>3 DEF DoneInv, Filed, Written
    <3>2. /\ result'[j] = work[w].try /\ \A e \in Exports \ {j} : result'[e] = result[e]
          /\ job'[j].status = "COMPLETED"
      BY <1>0, <2>1, <2>3 DEF EffectType, JobType
    <3>3. work'[w] = IdleWorker \/ work'[w].pc = "unsave"
      BY <1>0, <2>3 DEF Commits, Rest, GoOn, WorkType
    <3>4. FileStep(w, j)
      BY <2>1, <2>3, <3>1, <3>2, <3>3 DEF FileStep, At
    <3> QED
      BY <1>4, <3>4
  <2> QED
    BY <1>6, <2>2, <2>3 DEF ExportCommit
<1>7. CASE ExportUnsave(w, j)
  <2>1. /\ j \in Exports /\ At(w, "unsave", j) /\ job' = job /\ result' = result
        /\ \/ files' = files \ {<<j, work[w].try>>} /\ stray' = stray
           \/ stray' = stray \cup {<<j, work[w].try>>} /\ files' = files
    BY <1>0, <1>7 DEF ExportUnsave, At, InHand
  <2>2. work'[w].pc = "failing"
    BY <1>0, <1>7 DEF ExportUnsave, GoOn, WorkType
  <2>3. FileStep(w, j)
    BY <2>1, <2>2 DEF FileStep, At, Removed
  <2> QED
    BY <1>4, <2>3
<1>8. CASE DeletionRead(w, j)
  <2>1. j \notin Exports /\ At(w, "start", j) /\ UNCHANGED <<files, result, stray>>
    BY <1>8, KindsApart DEF DeletionRead, effects
  <2> QED
    BY <1>0, <1>4, <2>1, FilesStay DEF At
<1>9. CASE DeletionFiles(w, j)
  <2>1. PICK left \in SUBSET (files \cap work[w].keys) :
          files' = (files \ work[w].keys) \cup left /\ stray' = stray \cup left
    BY <1>9, Zenon DEF DeletionFiles
  <2>2. j \notin Exports /\ At(w, "files", j) /\ result' = result
    BY <1>0, <1>9, KindsApart DEF DeletionFiles, At, InHand
  <2>3. ~tenant
    BY <2>2 DEF HeldInv, ErasedFiles, At
  <2>4. FileStep(w, j)
    BY <2>1, <2>2, <2>3 DEF FileStep, Removed
  <2> QED
    BY <1>4, <2>4
<1> QED
  BY <1>5, <1>6, <1>7, <1>8, <1>9

-----------------------------------------------------------------------------
(* Claims, the erasure, crashes and the owner's routes                       *)

LEMMA ClaimDone ==
  ASSUME HeldInv, DoneInv, NEW w \in Workers, NEW j \in Jobs, Claim(w, j)
  PROVE  DoneInv'
<1>0. /\ WorkType /\ JobType /\ EffectType
      /\ Sends \subseteq Jobs /\ Digests \subseteq Jobs /\ Exports \subseteq Jobs
  BY DEF HeldInv, TypeOK, Jobs
<1>1. /\ work[w].pc = "idle" /\ work[w].job = {} /\ work[w].keys = {}
      /\ job[j].status \in {"PENDING", "RETRY"} /\ job[j].attempts < MaxAttempts
  BY DEF Claim, IdleWorker, DoneInv, Tries
<1>2. /\ UNCHANGED <<tenant, files, result, smtp, digests, stray, unsure>>
      /\ work' = [work EXCEPT ![w] = Taken(j)] \/ work' = work
  BY DEF Claim, lifecycle, effects
<1>3. /\ job'[j].status = "RUNNING" /\ job'[j].attempts = job[j].attempts + 1
      /\ \A i \in Jobs \ {j} : job'[i] = job[i]
  BY <1>0 DEF Claim, JobType
<1>4. /\ \A v \in Workers \ {w} : work'[v] = work[v]
      /\ \/ work'[w].pc = "start" /\ work'[w].job = {j} /\ work'[w].try = job[j].attempts + 1
         \/ work'[w] = IdleWorker
  BY <1>0, <1>2 DEF WorkType, Taken, Claim
<1>5. tenant /\ \A v \in Workers : ~Busy(v, j)
  BY <1>1 DEF HeldInv, BusyRuns, Unanswered, ErasedRows, Busy
<1>6. job[j].attempts \in Nat /\ MaxAttempts \in Nat
  BY <1>0, JobAssumption DEF JobType
<1>7. Tries'
  <2> SUFFICES ASSUME NEW i \in Jobs
               PROVE  /\ job'[i].attempts <= MaxAttempts
                      /\ job'[i].status \in {"PENDING", "RETRY"} => job'[i].attempts < MaxAttempts
                      /\ job'[i].status = "NONE" => job'[i].attempts = 0
    BY DEF Tries
  <2>1. CASE i = j
    BY <1>1, <1>3, <1>6, <2>1
  <2>2. CASE i # j
    BY <1>3, <2>2 DEF DoneInv, Tries
  <2> QED
    BY <2>1, <2>2
<1>8. Hands'
  <2> SUFFICES ASSUME NEW v \in Workers
               PROVE  /\ work'[v] = IdleWorker \/ \E i \in Jobs : Busy(v, i)'
                      /\ \A i \in Jobs : Busy(v, i)' => InHand(v, i)'
    BY DEF Hands
  <2>1. CASE v = w /\ work'[w] # IdleWorker
    <3>1. Busy(w, j)' /\ \A i \in Jobs : Busy(w, i)' => i = j
      BY <1>4, <2>1 DEF Busy
    <3>2. InHand(w, j)'
      BY <1>3, <1>4, <1>6, <2>1 DEF InHand
    <3> QED
      BY <2>1, <3>1, <3>2
  <2>2. CASE v = w /\ work'[w] = IdleWorker
    BY <2>2 DEF Busy, IdleWorker
  <2>3. CASE v # w
    <3>1. work'[v] = work[v] /\ \A i \in Jobs : Busy(v, i)' <=> Busy(v, i)
      BY <1>4, <2>3 DEF Busy
    <3>2. ASSUME NEW i \in Jobs, Busy(v, i) PROVE InHand(v, i)'
      <4>1. InHand(v, i)
        BY <3>2 DEF DoneInv, Hands
      <4>2. job'[i] = job[i]
        BY <1>3, <1>5, <3>2
      <4> QED
        BY <3>1, <4>1, <4>2 DEF InHand
    <3> QED
      BY <3>1, <3>2 DEF DoneInv, Hands
  <2> QED
    BY <2>1, <2>2, <2>3
<1>9. ASSUME NEW v \in Workers, NEW i \in Jobs, NEW pc \in Pcs \ {"idle"}, At(v, pc, i)'
      PROVE  \/ /\ v = w /\ i = j /\ pc = "start"
                /\ work'[w].try = job[j].attempts + 1
             \/ At(v, pc, i) /\ i # j /\ work'[v] = work[v]
  <2>1. CASE v = w
    BY <1>4, <1>9, <2>1 DEF At, IdleWorker
  <2>2. CASE v # w
    <3>1. At(v, pc, i) /\ work'[v] = work[v]
      BY <1>4, <1>9, <2>2 DEF At
    <3> QED
      BY <1>5, <3>1, AtBusy
  <2> QED
    BY <2>1, <2>2
<1>10. Handed'
  <2>1. \A i \in Sends : smtp[i] \in Nat /\ smtp[i] <= job[i].attempts /\ job[i].attempts \in Nat
    BY <1>0 DEF DoneInv, Handed, EffectType, JobType
  <2>2. \A i \in Sends : smtp'[i] <= job'[i].attempts
    BY <1>0, <1>2, <1>3, <2>1
  <2>3. ASSUME NEW v \in Workers, NEW i \in Sends, At(v, "start", i)'
        PROVE  smtp'[i] < job'[i].attempts
    <3>1. CASE i = j
      BY <1>2, <1>3, <2>1, <3>1
    <3>2. CASE i # j
      <4>1. At(v, "start", i)
        BY <1>0, <1>9, <2>3, <3>2 DEF Pcs
      <4> QED
        BY <1>0, <1>2, <1>3, <3>2, <4>1 DEF DoneInv, Handed
    <3> QED
      BY <3>1, <3>2
  <2> QED
    BY <2>2, <2>3 DEF Handed
<1>11. Noted'
  BY <1>0, <1>1, <1>2, <1>3 DEF DoneInv, Noted
<1>12. Named'
  <2>1. \A f \in files' : 1 <= f[2] /\ f[2] <= job'[f[1]].attempts
    <3> SUFFICES ASSUME NEW f \in files PROVE 1 <= f[2] /\ f[2] <= job'[f[1]].attempts
      BY <1>2
    <3>1. f[1] \in Jobs /\ f[2] \in Nat /\ 1 <= f[2] /\ f[2] <= job[f[1]].attempts
      BY FileOf DEF DoneInv, Filed, Named
    <3> QED
      BY <1>3, <1>6, <3>1
  <2>2. ASSUME NEW e \in Exports
        PROVE  /\ result'[e] <= job'[e].attempts
               /\ result'[e] > 0 => \/ job'[e].status \in {"COMPLETED", "GONE"}
                                    \/ <<e, result'[e]>> \notin Kept'
    <3>1. /\ result[e] <= job[e].attempts /\ result[e] \in Nat
          /\ result[e] > 0 => \/ job[e].status \in {"COMPLETED", "GONE"}
                              \/ <<e, result[e]>> \notin Kept
          /\ Kept' = Kept /\ result' = result
      BY <1>0, <1>2 DEF DoneInv, Filed, Named, EffectType, Kept
    <3>2. CASE e = j
      BY <1>1, <1>3, <1>6, <3>1, <3>2
    <3>3. CASE e # j
      BY <1>0, <1>3, <3>1, <3>3
    <3> QED
      BY <3>2, <3>3
  <2> QED
    BY <2>1, <2>2 DEF Named
<1>13. ASSUME NEW v \in Workers, NEW e \in Exports PROVE Written(v, e)'
  <2>1. CASE At(v, "start", e)' /\ e = j /\ work'[v].try = job[j].attempts + 1
    <3>1. <<j, job[j].attempts + 1>> \notin files
      BY <1>6 DEF DoneInv, Filed, Named
    <3>2. result[j] <= job[j].attempts /\ result[j] \in Nat
      BY <1>0, <2>1 DEF DoneInv, Filed, Named, EffectType
    <3> QED
      BY <1>2, <1>6, <2>1, <3>1, <3>2 DEF At, Written
  <2>2. CASE ~(At(v, "start", e)' /\ e = j /\ work'[v].try = job[j].attempts + 1)
    <3>1. \A pc \in {"start", "failing", "export", "unsave"} :
            At(v, pc, e)' => At(v, pc, e) /\ e # j /\ work'[v] = work[v]
      BY <1>0, <1>9, <2>2 DEF Pcs
    <3>2. Written(v, e) /\ Kept' = Kept
      BY <1>2 DEF DoneInv, Filed, Kept
    <3>3. e # j => job'[e] = job[e]
      BY <1>0, <1>3
    <3> QED
      BY <1>2, <3>1, <3>2, <3>3 DEF Written
  <2> QED
    BY <2>1, <2>2
<1>14. FilesAccounted'
  <2>1. Downloadable'
    BY <1>0, <1>2, <1>3, FilesAccountedParts DEF DoneInv, Downloadable
  <2>2. ASSUME NEW f \in Kept' PROVE Accounted(f)'
    <3>1. Accounted(f)
      BY <1>2, <2>2, FilesAccountedParts DEF DoneInv, Kept
    <3>2. ASSUME NEW v \in Workers, f \in FilesOf(v) PROVE work'[v] = work[v]
      BY <1>1, <1>4, <3>2 DEF FilesOf
    <3> QED
      BY <1>2, <3>1, <3>2 DEF Accounted, FilesOf
  <2> QED
    BY <2>1, <2>2 DEF FilesAccounted, Accounted, Downloadable, Kept
<1> QED
  BY <1>7, <1>8, <1>10, <1>11, <1>12, <1>13, <1>14 DEF DoneInv, Filed

\* Erasing the tenant: what was downloadable is known to the worker, or is stray.
LEMMA ErasureDone ==
  ASSUME HeldInv, DoneInv, NEW w \in Workers, NEW j \in Jobs, DeletionWrite(w, j)
  PROVE  DoneInv'
<1>0. /\ WorkType /\ JobType /\ EffectType
      /\ Sends \subseteq Jobs /\ Digests \subseteq Jobs /\ Exports \subseteq Jobs
  BY DEF HeldInv, TypeOK, Jobs
<1>1. /\ Busy(w, j) /\ j \in Deletions /\ work[w].pc = "erase" /\ InHand(w, j)
      /\ UNCHANGED <<files, result, smtp, digests, orphan, unsure>>
  BY AtBusy DEF DeletionWrite, effects, At, Pcs, DoneInv, Hands
<1>2. CASE GoOn(w, "failing") /\ UNCHANGED <<tenant, job, stray>>
  <2>1. Local(w, j)
    BY <1>1, <1>2, GoOnLocal DEF Pcs
  <2>2. Goes(w, j)
    BY <1>0, <1>1, <1>2, <2>1, GoOnGoes DEF Pcs, FitsKind, MayComplete
  <2>3. FileStep(w, j)
    BY <1>1, <1>2, <2>2, FilesStay, KindsApart
  <2> QED
    BY <1>1, <1>2, <2>2, <2>3, GoesTries, GoesHanded, GoesNoted, FileStepFiled DEF DoneInv
<1>3. ASSUME tenant, Erased(j), NEW pc \in {"files", "failing"}, GoOn(w, pc),
             stray \subseteq stray',
             \A f \in Results : f \in stray' \/ (pc = "files" /\ f \in work[w].keys)
      PROVE  DoneInv'
  <2>1. tenant' = FALSE /\ \A i \in Jobs : job'[i].status = "GONE" /\ job'[i].attempts = job[i].attempts
    BY <1>0, <1>3 DEF JobType, Erased
  <2>2. /\ work'[w].pc = pc /\ work'[w].job = {j} /\ work'[w].try = work[w].try
        /\ work'[w].keys = work[w].keys /\ \A v \in Workers \ {w} : work'[v] = work[v]
    BY <1>0, <1>1, <1>3 DEF GoOn, WorkType, Busy
  <2>3. Tries'
    BY <2>1 DEF DoneInv, Tries
  <2>4. Hands'
    <3> SUFFICES ASSUME NEW v \in Workers
                 PROVE  /\ work'[v] = IdleWorker \/ \E i \in Jobs : Busy(v, i)'
                        /\ \A i \in Jobs : Busy(v, i)' => InHand(v, i)'
      BY DEF Hands
    <3>1. CASE v = w
      <4>1. Busy(w, j)' /\ \A i \in Jobs : Busy(w, i)' => i = j
        BY <2>2 DEF Busy
      <4>2. InHand(w, j)'
        BY <1>1, <2>1, <2>2 DEF InHand
      <4> QED
        BY <3>1, <4>1, <4>2
    <3>2. CASE v # w
      <4>1. work'[v] = work[v] /\ \A i \in Jobs : Busy(v, i)' <=> Busy(v, i)
        BY <2>2, <3>2 DEF Busy
      <4>2. \A i \in Jobs : InHand(v, i) => InHand(v, i)'
        BY <2>1, <4>1 DEF InHand
      <4> QED
        BY <4>1, <4>2 DEF DoneInv, Hands
    <3> QED
      BY <3>1, <3>2
  <2>5. \A v \in Workers, i \in Jobs : At(v, "start", i)' => At(v, "start", i)
    BY <2>2 DEF At
  <2>6. Handed'
    BY <1>0, <1>1, <2>1, <2>5 DEF DoneInv, Handed
  <2>7. Noted'
    BY <1>0, <1>1, <2>1 DEF DoneInv, Noted
  <2>8. Named'
    BY <1>0, <1>1, <2>1, FileOf DEF DoneInv, Filed, Named
  <2>9. ASSUME NEW v \in Workers, NEW e \in Exports PROVE Written(v, e)'
    <3>1. CASE v = w
      <4>1. \A q \in Pcs : ~At(w, q, e)'
        BY <1>1, <2>2, KindsApart DEF At
      <4> QED
        BY <3>1, <4>1 DEF Written, Pcs
    <3>2. CASE v # w
      <4>1. work'[v] = work[v] /\ Written(v, e) /\ (<<e, work[v].try>> \in Kept' => <<e, work[v].try>> \in Kept)
        BY <1>1, <1>3, <2>2, <3>2 DEF DoneInv, Filed, Kept
      <4> QED
        BY <1>1, <2>1, <4>1 DEF Written, At
    <3> QED
      BY <3>1, <3>2
  <2>10. ASSUME NEW f \in Kept' PROVE Accounted(f)'
    <3>1. /\ f \in files /\ f \notin stray' /\ Accounted(f)
          /\ f[1] \in Exports /\ f = <<f[1], f[2]>> /\ f[2] >= 1 /\ f[2] \in Nat
      BY <1>1, <1>3, <2>10, FilesAccountedParts, FileOf DEF DoneInv, Filed, Named, Kept
    <3>2. CASE result[f[1]] = f[2]
      <4>1. f \in Results
        BY <3>1, <3>2 DEF Results
      <4> QED
        BY <1>1, <1>3, <2>2, <3>1, <4>1 DEF Accounted, FilesOf
    <3>3. ASSUME NEW v \in Workers, f \in FilesOf(v) PROVE Accounted(f)'
      <4>1. v # w
        BY <1>1, <3>1, <3>3, KindsApart DEF Busy, FilesOf
      <4> QED
        BY <1>1, <2>2, <3>3, <4>1 DEF Accounted, FilesOf
    <3> QED
      BY <3>1, <3>2, <3>3 DEF Accounted
  <2>11. FilesAccounted'
    BY <2>1, <2>10 DEF FilesAccounted, Accounted, Kept
  <2> QED
    BY <2>3, <2>4, <2>6, <2>7, <2>8, <2>9, <2>11 DEF DoneInv, Filed
<1>4. CASE tenant /\ Erased(j) /\ GoOn(w, "files") /\ stray' = stray \cup (Results \ work[w].keys)
  BY <1>3, <1>4
<1>5. CASE tenant /\ Erased(j) /\ GoOn(w, "failing") /\ stray' = stray \cup Results
  BY <1>3, <1>5
<1> QED
  BY <1>2, <1>4, <1>5 DEF DeletionWrite, lifecycle

LEMMA CrashDone ==
  ASSUME HeldInv, DoneInv, NEW w \in Workers, Crash(w) PROVE DoneInv'
<1>0. WorkType
  BY DEF HeldInv, TypeOK
<1>1. /\ UNCHANGED <<job, tenant, files, result, smtp, digests, unsure>>
      /\ stray' = stray \cup FilesOf(w) /\ work'[w] = IdleWorker
      /\ \A v \in Workers \ {w} : work'[v] = work[v]
  BY <1>0 DEF Crash, lifecycle, effects, Rest, WorkType
<1>2. \A v \in Workers, i \in Jobs : Busy(v, i)' => v # w /\ Busy(v, i)
  BY <1>1 DEF Busy, IdleWorker
<1>3. Tries'
  BY <1>1 DEF DoneInv, Tries
<1>4. Hands'
  BY <1>1, <1>2 DEF DoneInv, Hands, InHand, Busy
<1>5. \A v \in Workers, i \in Jobs, pc \in Pcs \ {"idle"} :
        At(v, pc, i)' => At(v, pc, i) /\ work'[v] = work[v]
  BY <1>1 DEF At, IdleWorker
<1>6. Handed'
  BY <1>1, <1>5 DEF DoneInv, Handed, Pcs, Jobs
<1>7. Noted'
  BY <1>1 DEF DoneInv, Noted
<1>8. \A f \in Kept' : f \in Kept
  BY <1>1 DEF Kept
<1>9. Filed'
  <2>1. Named'
    BY <1>1, <1>8 DEF DoneInv, Filed, Named
  <2>2. ASSUME NEW v \in Workers, NEW e \in Exports PROVE Written(v, e)'
    <3>1. \A pc \in {"start", "failing", "export", "unsave"} :
            At(v, pc, e)' => At(v, pc, e) /\ work'[v].try = work[v].try
      BY <1>5 DEF Pcs, Jobs
    <3>2. Written(v, e)
      BY DEF DoneInv, Filed
    <3> QED
      BY <1>1, <1>8, <3>1, <3>2 DEF Written
  <2> QED
    BY <2>1, <2>2 DEF Filed
<1>10. ASSUME NEW f \in Kept' PROVE Accounted(f)'
  <2>1. Accounted(f) /\ f \notin FilesOf(w)
    BY <1>1, <1>8, <1>10, FilesAccountedParts DEF DoneInv, Kept
  <2> QED
    BY <1>1, <2>1 DEF Accounted, FilesOf
<1>11. FilesAccounted'
  BY <1>1, <1>10 DEF DoneInv, FilesAccounted, Accounted, Kept
<1> QED
  BY <1>3, <1>4, <1>6, <1>7, <1>9, <1>11 DEF DoneInv

\* What the owner's routes, enqueue and the passing of time do to the jobs: a job is created,
\* or the job of a deletion is cancelled before it ran.
RowsQuiet ==
  /\ UNCHANGED <<files, result, smtp, digests, work, tenant, stray, unsure>>
  /\ \A i \in Jobs :
       /\ job'[i].attempts = job[i].attempts
       /\ \/ job'[i].status = job[i].status
          \/ job[i].status = "NONE" /\ job'[i].status = "PENDING"
          \/ job[i].status = "PENDING" /\ job'[i].status = "CANCELLED"

LEMMA QuietDone ==
  ASSUME HeldInv, DoneInv, RowsQuiet PROVE DoneInv'
<1>0. /\ Sends \subseteq Jobs /\ Digests \subseteq Jobs /\ Exports \subseteq Jobs
      /\ MaxAttempts > 0
  BY JobAssumption DEF Jobs
<1>1. Tries'
  BY <1>0 DEF DoneInv, Tries, RowsQuiet
<1>2. Hands'
  BY DEF DoneInv, Hands, InHand, Busy, RowsQuiet
<1>3. Handed'
  BY <1>0 DEF DoneInv, Handed, At, RowsQuiet
<1>4. Noted'
  BY <1>0 DEF DoneInv, Noted, RowsQuiet
<1>5. Filed'
  <2>1. Named'
    BY <1>0, FileOf DEF DoneInv, Filed, Named, RowsQuiet, Kept
  <2>2. \A e \in Exports : job'[e].status = "COMPLETED" => job[e].status = "COMPLETED"
    BY <1>0 DEF RowsQuiet
  <2>3. ASSUME NEW v \in Workers, NEW e \in Exports PROVE Written(v, e)'
    <3>1. Written(v, e)
      BY DEF DoneInv, Filed
    <3> QED
      BY <2>2, <3>1 DEF Written, At, Kept, RowsQuiet
  <2> QED
    BY <2>1, <2>3 DEF Filed
<1>6. FilesAccounted'
  <2>1. \A e \in Exports : job'[e].status = "COMPLETED" => job[e].status = "COMPLETED"
    BY <1>0 DEF RowsQuiet
  <2> QED
    BY <2>1 DEF DoneInv, FilesAccounted, FilesOf, RowsQuiet
<1> QED
  BY <1>1, <1>2, <1>3, <1>4, <1>5, <1>6 DEF DoneInv

LEMMA OwnerRowsQuiet ==
  ASSUME HeldInv, DoneInv, NEW o \in Owners, NEW d \in Deletions, OwnerStep(o, d)
  PROVE  RowsQuiet
<1>0. d \in Jobs /\ JobType
  BY DEF Jobs, HeldInv, TypeOK
<1>1. UNCHANGED <<files, result, smtp, digests, work, tenant, stray, unsure>>
  BY DEF OwnerStep, ApproveRead, ConfirmRead, CancelRead, Open, ApproveWrite, ConfirmWrite,
         CancelWrite, lifecycle, effects, history
<1>2. CASE job' = job
  BY <1>1, <1>2 DEF RowsQuiet
<1>3. CASE ApproveWrite(o, d) /\ job' # job
  <2>1. job[d].status = "NONE" /\ job' = [job EXCEPT ![d] = Created]
    BY <1>0, <1>3 DEF ApproveWrite, JobType
  <2>2. job[d].attempts = 0 /\ Created.attempts = 0 /\ Created.status = "PENDING"
    BY <1>0, <2>1 DEF DoneInv, Tries, Created
  <2> QED
    BY <1>0, <1>1, <2>1, <2>2 DEF RowsQuiet, JobType
<1>4. CASE ConfirmWrite(o, d) /\ job' # job
  <2>1. job' = [job EXCEPT ![d].confirmed = TRUE, ![d].due = TRUE]
    BY <1>4, Zenon DEF ConfirmWrite
  <2> QED
    BY <1>0, <1>1, <2>1 DEF RowsQuiet, JobType
<1>5. CASE CancelWrite(o, d) /\ job' # job
  <2>1. \/ job[d].status = "PENDING" /\ job' = [job EXCEPT ![d].status = "CANCELLED"]
        \/ job' = [job EXCEPT ![d].status = job[d].status]
    BY <1>5, Zenon DEF CancelWrite
  <2> QED
    BY <1>0, <1>1, <2>1 DEF RowsQuiet, JobType
<1> QED
  BY <1>2, <1>3, <1>4, <1>5 DEF OwnerStep, ApproveRead, ConfirmRead, CancelRead, Open

LEMMA InitDone == ASSUME Init PROVE DoneInv
<1>1. /\ \A j \in Jobs : job[j].status = "NONE" /\ job[j].attempts = 0
      /\ \A w \in Workers : work[w] = IdleWorker
      /\ files = {} /\ (\A j \in Sends : smtp[j] = 0) /\ (\A j \in Digests : digests[j] = 0)
      /\ \A e \in Exports : result[e] = 0
  BY DEF Init, Created
<1>2. Tries
  BY <1>1, JobAssumption DEF Tries
<1>3. \A w \in Workers, j \in Jobs :
        ~Busy(w, j) /\ \A pc \in Pcs \ {"idle"} : ~At(w, pc, j)
  BY <1>1 DEF IdleWorker, Busy, At
<1>4. Hands
  BY <1>1, <1>3 DEF Hands
<1>5. Handed /\ Noted
  BY <1>1, <1>3 DEF Handed, Noted, Jobs, Pcs
<1>6. Filed /\ FilesAccounted
  BY <1>1, <1>3 DEF Filed, Named, Written, FilesAccounted, Jobs, Pcs
<1> QED
  BY <1>2, <1>4, <1>5, <1>6 DEF DoneInv

LEMMA DoneInvHolds == Spec => []DoneInv
<1>1. HeldInv /\ DoneInv /\ [Next]_vars => DoneInv'
  <2> SUFFICES ASSUME HeldInv, DoneInv, [Next]_vars PROVE DoneInv'
    OBVIOUS
  <2>0. JobType
    BY DEF HeldInv, TypeOK
  <2>1. CASE UNCHANGED vars
    BY <2>1, QuietDone DEF vars, RowsQuiet
  <2>2. ASSUME NEW j \in Jobs, Enqueue(j) PROVE DoneInv'
    <3>1. job[j].status = "NONE" /\ job[j].attempts = 0 /\ job' = [job EXCEPT ![j] = Created]
      BY <2>2 DEF Enqueue, DoneInv, Tries
    <3>2. Created.attempts = 0 /\ Created.status = "PENDING"
      BY DEF Created
    <3>3. RowsQuiet
      BY <2>0, <2>2, <3>1, <3>2 DEF Enqueue, lifecycle, effects, history, RowsQuiet, JobType
    <3> QED
      BY <3>3, QuietDone
  <2>3. ASSUME NEW d \in Deletions, RequestDeletion(d) PROVE DoneInv'
    BY <2>3, QuietDone DEF RequestDeletion, effects, history, RowsQuiet
  <2>4. ASSUME NEW j \in Jobs, RetryDue(j) PROVE DoneInv'
    BY <2>0, <2>4, QuietDone DEF RetryDue, lifecycle, effects, history, RowsQuiet, JobType
  <2> QED
    BY <2>1, <2>2, <2>3, <2>4, OwnerRowsQuiet, QuietDone, ClaimDone, ErasureDone, CrashDone,
       MailHandlersDone, FileHandlersDone
    DEF Next, WorkerStep
<1> QED
  BY <1>1, InitDone, HeldInvHolds, PTL DEF Spec

\* A message is handed over at most once per attempt and never more than MaxAttempts times,
\* and a completed digest has a notification, exactly one unless the answer of its transaction
\* was lost: for any number of jobs and workers, whatever calls fail and whoever dies.
THEOREM EffectsAreBounded == Spec => []EffectsBounded
<1>1. DoneInv => EffectsBounded
  BY DEF DoneInv, Tries, Handed, Noted, EffectsBounded, Jobs
<1> QED
  BY <1>1, DoneInvHolds, PTL

\* The file of a completed export is there as long as the tenant is, unless the answer of its
\* transaction was lost, and no other export file is left that no worker is to record or to
\* remove, but for those that stray names: whatever calls fail and whoever dies.
THEOREM FilesAreAccounted == Spec => []FilesAccounted
<1>1. DoneInv => FilesAccounted
  BY DEF DoneInv
<1> QED
  BY <1>1, DoneInvHolds, PTL
-----------------------------------------------------------------------------
(* The three stages of a deletion                                            *)

\* What follows is about owners whose requests for one deletion do not overlap.
OneOwner ==
  \A o, p \in Owners : o # p /\ form[o].req = form[p].req => form[o].req = {}

\* What an owner's request, or the worker that erases the tenant, has read is still so.
Answers ==
  /\ \A o \in Owners : form[o] = IdleForm \/ \E d \in Deletions : form[o].req = {d}
  /\ \A o \in Owners, d \in Deletions :
       /\ tenant /\ Answering(o, "approve", d) => req[d] = "REQUESTED"
       /\ tenant /\ Answering(o, "confirm", d) => req[d] = "APPROVED"
       /\ tenant /\ Answering(o, "cancel", d) => req[d] \in {"REQUESTED", "APPROVED"}
  /\ \A w \in Workers, d \in Deletions : tenant /\ At(w, "erase", d) => req[d] = "PROCESSING"
  /\ tenant => receipts = {}

LEMMA WorkerErases ==
  ASSUME WorkType, NEW w \in Workers, NEW j \in Jobs, WorkerStep(w, j),
         NEW v \in Workers, NEW d \in Deletions, At(v, "erase", d)'
  PROVE  At(v, "erase", d) \/ (tenant /\ req[d] = "PROCESSING")
<1>1. ASSUME NEW pc, pc # "erase", GoOn(w, pc) \/ Rest(w) PROVE At(v, "erase", d)
  BY <1>1 DEF GoOn, Rest, IdleWorker, At, WorkType
<1>2. CASE Claim(w, j)
  <2>1. /\ Taken(j).pc # "erase"
        /\ work' = work \/ work' = [work EXCEPT ![w] = Taken(j)]
    BY <1>2 DEF Taken, Claim
  <2> QED
    BY <2>1 DEF At, WorkType
<1>3. CASE DeletionRead(w, j)
  <2>1. CASE GoOn(w, "failing")
    BY <1>1, <2>1
  <2>2. ASSUME NEW k, work' = [work EXCEPT ![w].pc = "erase", ![w].keys = k],
               tenant, req[j] = "PROCESSING"
        PROVE  At(v, "erase", d) \/ (tenant /\ req[d] = "PROCESSING")
    <3>1. CASE v = w
      <4>1. work'[w].job = work[w].job
        BY <2>2 DEF WorkType
      <4>2. d = j
        BY <1>3, <3>1, <4>1 DEF DeletionRead, At
      <4> QED
        BY <2>2, <4>2
    <3>2. CASE v # w
      BY <2>2, <3>2 DEF At, WorkType
    <3> QED
      BY <3>1, <3>2
  <2> QED
    BY <1>3, <2>1, <2>2 DEF DeletionRead
<1>4. CASE Fail(w, j) \/ SmtpSend(w, j) \/ SmtpRecord(w, j) \/ Complete(w, j) \/ DigestWrite(w, j)
  BY <1>1, <1>4 DEF Fail, SmtpSend, SmtpRecord, Complete, DigestWrite, Commits, RollsBack
<1>5. CASE ExportSave(w, j) \/ ExportCommit(w, j) \/ ExportUnsave(w, j)
  BY <1>1, <1>5 DEF ExportSave, ExportCommit, ExportUnsave, Commits, RollsBack
<1>6. CASE DeletionWrite(w, j) \/ DeletionFiles(w, j)
  BY <1>1, <1>6 DEF DeletionWrite, DeletionFiles
<1> QED
  BY <1>2, <1>3, <1>4, <1>5, <1>6 DEF WorkerStep

\* The stages of the requests as the abstract deletion sees them.
Staged == [Deletion!Next]_<<req, receipts>>

\* Steps that the abstract deletion does not see.
LEMMA UnseenStep ==
  ASSUME Answers, UNCHANGED <<req, receipts, form, tenant>>,
         \A w \in Workers, d \in Deletions :
           tenant /\ At(w, "erase", d)' => At(w, "erase", d) \/ req[d] = "PROCESSING"
  PROVE  Answers' /\ Staged
<1>1. Answers'
  BY DEF Answers, Answering
<1> QED
  BY <1>1 DEF Staged

\* A step that moves the stage of one request whose answer nobody else is about to write.
LEMMA StageMoves ==
  ASSUME TypeOK, Answers, NEW o \in Owners, NEW d \in Deletions, tenant,
         OneOwner, form[o].req = {d}, form' = [form EXCEPT ![o] = IdleForm],
         NEW to, req' = [req EXCEPT ![d] = to], UNCHANGED <<receipts, tenant, work>>,
         req[d] # "PROCESSING"
  PROVE  Answers'
<1>0. req \in [Deletions -> Stages] /\ FormType
  BY DEF TypeOK, LifecycleType
<1>1. form'[o] = IdleForm /\ \A p \in Owners \ {o} : form'[p] = form[p]
  BY <1>0 DEF FormType
<1>2. \A p \in Owners : form'[p] = IdleForm \/ \E x \in Deletions : form'[p].req = {x}
  BY <1>1 DEF Answers
<1>3. ASSUME NEW p \in Owners, NEW x \in Deletions, NEW pc \in {"approve", "confirm", "cancel"},
             Answering(p, pc, x)'
      PROVE  Answering(p, pc, x) /\ req'[x] = req[x]
  <2>1. p # o
    BY <1>1, <1>3 DEF Answering, IdleForm
  <2>2. Answering(p, pc, x)
    BY <1>1, <1>3, <2>1 DEF Answering
  <2>3. x # d
    BY <2>1, <2>2 DEF OneOwner, Answering
  <2> QED
    BY <1>0, <2>2, <2>3
<1>4. ASSUME NEW w \in Workers, NEW x \in Deletions, At(w, "erase", x)'
      PROVE  req'[x] = "PROCESSING"
  BY <1>0, <1>4 DEF Answers, At
<1> QED
  BY <1>2, <1>3, <1>4 DEF Answers

LEMMA OwnerStages ==
  ASSUME TypeOK, Answers, OneOwner, NEW o \in Owners, NEW d \in Deletions, OwnerStep(o, d)
  PROVE  Answers' /\ Staged
<1>0. req \in [Deletions -> Stages] /\ FormType
  BY DEF TypeOK, LifecycleType
<1>1. ASSUME NEW pc, NEW readable, Open(o, d, pc, readable), readable,
             pc = "approve" => req[d] = "REQUESTED",
             pc = "confirm" => req[d] = "APPROVED",
             pc = "cancel" => req[d] \in {"REQUESTED", "APPROVED"}
      PROVE  Answers' /\ Staged
  <2>1. UNCHANGED <<req, receipts, tenant, work>>
    BY <1>1 DEF Open, lifecycle
  <2>2. /\ form'[o].pc = pc /\ form'[o].req = {d}
        /\ \A p \in Owners \ {o} : form'[p] = form[p]
    BY <1>0, <1>1 DEF Open, FormType
  <2>3. ASSUME NEW p \in Owners, NEW x \in Deletions, NEW q, Answering(p, q, x)'
        PROVE  Answering(p, q, x) \/ (p = o /\ q = pc /\ x = d)
    BY <2>2, <2>3 DEF Answering
  <2>4. \A p \in Owners : form'[p] = IdleForm \/ \E x \in Deletions : form'[p].req = {x}
    BY <2>2 DEF Answers
  <2>5. Answers'
    BY <1>1, <2>1, <2>3, <2>4 DEF Answers, At
  <2> QED
    BY <2>1, <2>5 DEF Staged
<1>2. ASSUME NEW pc, Answering(o, pc, d), Close(o), ~tenant, UNCHANGED <<req, receipts, tenant, work>>
      PROVE  Answers' /\ Staged
  <2>1. \A p \in Owners : form'[p] = IdleForm \/ form'[p] = form[p]
    BY <1>0, <1>2 DEF Close, FormType
  <2> QED
    BY <1>2, <2>1 DEF Answers, Staged
<1>3. ASSUME NEW pc, Answering(o, pc, d), Close(o), tenant, NEW to, req' = [req EXCEPT ![d] = to],
             UNCHANGED <<receipts, tenant, work>>, req[d] # "PROCESSING"
      PROVE  Answers'
  BY <1>3, StageMoves DEF Close, Answering
<1>4. CASE ApproveWrite(o, d)
  <2>1. CASE tenant
    <3>1. req[d] = "REQUESTED"
      BY <1>4, <2>1 DEF ApproveWrite, Answers
    <3>2. Answers'
      BY <1>3, <1>4, <2>1, <3>1 DEF ApproveWrite
    <3>3. Deletion!Approve(d)
      BY <1>4, <2>1, <3>1 DEF ApproveWrite, Deletion!Approve, Deletion!Move
    <3> QED
      BY <3>2, <3>3 DEF Staged, Deletion!Next
  <2> QED
    BY <1>2, <1>4, <2>1 DEF ApproveWrite
<1>5. CASE ConfirmWrite(o, d)
  <2>1. CASE tenant
    <3>1. req[d] = "APPROVED"
      BY <1>5, <2>1 DEF ConfirmWrite, Answers
    <3>2. Answers'
      BY <1>3, <1>5, <2>1, <3>1 DEF ConfirmWrite
    <3>3. Deletion!Confirm(d)
      BY <1>5, <2>1, <3>1 DEF ConfirmWrite, Deletion!Confirm, Deletion!Move
    <3> QED
      BY <3>2, <3>3 DEF Staged, Deletion!Next
  <2> QED
    BY <1>2, <1>5, <2>1 DEF ConfirmWrite
<1>6. CASE CancelWrite(o, d)
  <2>1. CASE tenant
    <3>1. req[d] \in {"REQUESTED", "APPROVED"}
      BY <1>6, <2>1 DEF CancelWrite, Answers
    <3>2. Answers'
      BY <1>3, <1>6, <2>1, <3>1 DEF CancelWrite
    <3>3. Deletion!Cancel(d)
      BY <1>6, <2>1, <3>1 DEF CancelWrite, Deletion!Cancel, Deletion!Move
    <3> QED
      BY <3>2, <3>3 DEF Staged, Deletion!Next
  <2> QED
    BY <1>2, <1>6, <2>1 DEF CancelWrite
<1> QED
  BY <1>1, <1>4, <1>5, <1>6 DEF OwnerStep, ApproveRead, ConfirmRead, CancelRead, Open

LEMMA EraseStages ==
  ASSUME TypeOK, Answers, NEW w \in Workers, NEW j \in Jobs, DeletionWrite(w, j)
  PROVE  Answers' /\ Staged
<1>1. CASE UNCHANGED <<req, receipts, tenant>>
  <2>1. WorkerStep(w, j) /\ form' = form
    BY DEF WorkerStep, DeletionWrite
  <2> QED
    BY <1>1, <2>1, UnseenStep, WorkerErases DEF TypeOK
<1>2. CASE /\ tenant /\ tenant' = FALSE /\ receipts' = receipts \cup {j}
           /\ req' = [d \in Deletions |-> "GONE"]
  <2>1. j \in Deletions /\ req[j] = "PROCESSING" /\ receipts = {} /\ form' = form
    BY <1>2 DEF DeletionWrite, Answers
  <2>2. Answers'
    BY <1>2, <2>1 DEF Answers
  <2>3. Deletion!Erase(j)
    BY <1>2, <2>1 DEF Deletion!Erase
  <2> QED
    BY <2>1, <2>2, <2>3 DEF Staged, Deletion!Next
<1> QED
  BY <1>1, <1>2 DEF DeletionWrite, Erased, lifecycle

LEMMA StepStages ==
  ASSUME TypeOK, Answers, OneOwner, [Next]_vars PROVE Answers' /\ Staged
<1>0. req \in [Deletions -> Stages] /\ WorkType
  BY DEF TypeOK, LifecycleType
<1>1. CASE UNCHANGED vars
  BY <1>1, UnseenStep DEF vars, At
<1>2. ASSUME NEW j \in Jobs, Enqueue(j) \/ RetryDue(j) PROVE Answers' /\ Staged
  BY <1>2, UnseenStep DEF Enqueue, RetryDue, lifecycle, At
<1>3. ASSUME NEW d \in Deletions, RequestDeletion(d) PROVE Answers' /\ Staged
  <2>1. /\ tenant /\ req[d] = "NONE" /\ receipts = {}
        /\ UNCHANGED <<receipts, tenant, form, work>> /\ req' = [req EXCEPT ![d] = "REQUESTED"]
    BY <1>3 DEF RequestDeletion, Answers
  <2>2. \A x \in Deletions : req[x] # "NONE" => req'[x] = req[x]
    BY <1>0, <2>1
  <2>3. Answers'
    BY <2>1, <2>2 DEF Answers, Answering, At
  <2>4. Deletion!Request(d)
    BY <2>1 DEF Deletion!Request, Deletion!Move
  <2> QED
    BY <2>3, <2>4 DEF Staged, Deletion!Next
<1>4. ASSUME NEW w \in Workers, Crash(w) PROVE Answers' /\ Staged
  BY <1>0, <1>4, UnseenStep DEF Crash, lifecycle, Rest, IdleWorker, At, WorkType
<1>5. ASSUME NEW w \in Workers, NEW j \in Jobs, WorkerStep(w, j) PROVE Answers' /\ Staged
  <2>1. CASE DeletionWrite(w, j)
    BY <2>1, EraseStages
  <2>2. CASE ~DeletionWrite(w, j)
    <3>1. UNCHANGED <<req, receipts, form, tenant>>
      BY <1>5, <2>2 DEF WorkerStep, Claim, Fail, SmtpSend, SmtpRecord, Complete, DigestWrite,
                        ExportSave, ExportCommit, ExportUnsave, DeletionRead, DeletionFiles,
                        lifecycle
    <3> QED
      BY <1>0, <1>5, <3>1, UnseenStep, WorkerErases
  <2> QED
    BY <2>1, <2>2
<1> QED
  BY <1>1, <1>2, <1>3, <1>4, <1>5, OwnerStages DEF Next

LEMMA InitAnswers == ASSUME Init PROVE Answers
  BY DEF Init, Answers, Answering, IdleForm, IdleWorker, At

LEMMA AnswersHold == Spec /\ []OneOwner => []Answers
<1>1. TypeOK /\ Answers /\ OneOwner /\ [Next]_vars => Answers'
  BY StepStages
<1> QED
  BY <1>1, InitAnswers, JobsTypeCorrect, PTL DEF Spec

\* The routes, and the worker that erases the tenant, implement the deletion in three stages,
\* for any number of requests, owners and workers, as long as the owners' requests for one
\* deletion do not overlap.
THEOREM DeletionInThreeStages == Spec /\ []OneOwner => ThreeStages
<1>1. Init => Deletion!Init
  BY DEF Init, Deletion!Init
<1>2. TypeOK /\ Answers /\ OneOwner /\ [Next]_vars => [Deletion!Next]_<<req, receipts>>
  BY StepStages DEF Staged
<1> QED
  BY <1>1, <1>2, JobsTypeCorrect, AnswersHold, PTL
  DEF Spec, ThreeStages, Deletion!Spec, Deletion!deletionVars
=============================================================================
