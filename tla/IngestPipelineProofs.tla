------------------------ MODULE IngestPipelineProofs ------------------------
(***************************************************************************)
(* Proofs about IngestPipeline for any number of workers and attempts and  *)
(* every kind of submission.                                               *)
(***************************************************************************)
EXTENDS IngestPipeline, FiniteSetTheorems, TLAPS

(* What is recorded of the current generation when a stage is due. *)
Fetched == IF FromUrl THEN {"inspection", "download"} ELSE {}

Inputs(stage) ==
    CASE stage = "inspect" -> {}
      [] stage = "download" -> {"inspection"}
      [] stage = "probe" -> Fetched
      [] stage = "normalize" -> Fetched \cup {"probe"}
      [] OTHER -> Fetched \cup {"probe", "normalization"}

Rank == [inspect |-> 1, download |-> 2, probe |-> 3, normalize |-> 4,
         fingerprint |-> 5, finalize |-> 5]

(* Rows of jobs: the lease columns follow the state, a queued job has an   *)
(* attempt left, and a running one has used one.                           *)
RowsInv ==
    \A key \in JobKeys :
        /\ jobs[key].state = "queued" => jobs[key].attempt < MaxAttempts
        /\ jobs[key].state = "running" => jobs[key].attempt >= 1

(* A live stage job belongs to the generation of an ingest that is not yet *)
(* linked, finds the inputs of its stage and no more, meets a status that  *)
(* its begin_* accepts unless the ingest has failed, and has no other live *)
(* job and no later stage beside it.                                       *)
LiveInv ==
    \A key \in JobKeys : Live(key) =>
        /\ key[2] = ingest.force_save
        /\ ~ingest.linked
        /\ ingest.status \in StartsFrom(key[1]) \cup {"failed_terminal"}
        /\ ingest.artifacts = Inputs(key[1])
        /\ key[1] \in {"inspect", "download"} => FromUrl
        /\ \A other \in JobKeys :
              /\ Live(other) => other = key
              /\ other[2] = key[2] /\ Rank[other[1]] > Rank[key[1]]
                    => jobs[other].state = "absent"

(* The ingest row: who may be linked, and what an open decision excludes.  *)
DecisionInv ==
    /\ ingest.linked => /\ ingest.status \in {"storing", "completed", "failed_retryable",
                                              "failed_terminal"}
                        /\ storage # "none"
    /\ ingest.status = "completed" => ingest.linked
    /\ ingest.status = "duplicate_pending" => ~ingest.linked /\ ~ingest.force_save
    /\ ingest.accepted => ingest.linked /\ ~ingest.force_save
    /\ ingest.evidence <=> ingest.status = "duplicate_pending"

(* The generation of force_save has no job before it, and an ingest in the *)
(* pipeline has a live one.                                                *)
GenerationInv ==
    /\ ~ingest.force_save => \A key \in JobKeys : key[2] => jobs[key].state = "absent"
    /\ InPipeline => \E key \in JobKeys : Live(key)

(* A handler that still holds its lease works in the status of its stage,  *)
(* and reports a success it did not commit only where the ingest failed.   *)
HandlerOK(w) ==
    HoldsLease(w) =>
        /\ worker[w].pc \in HandlerSteps \ {"begin"} => ingest.status = Working[Stage(w)]
        /\ At(w, "ok") => ingest.status = "failed_terminal"

HandlersInv == \A w \in Workers : HandlerOK(w)

(* The inductive invariant: types and rows, and how rows, ingest and       *)
(* handlers go together                                                    *)
Together == LiveInv /\ GenerationInv /\ DecisionInv /\ HandlersInv /\ RestIsCleanedUp

PipelineInv == TypeOK /\ RowsInv /\ Together

-----------------------------------------------------------------------------
(* Facts about the operators *)

(* A stage starts from statuses of the pipeline, its own and that of a     *)
(* retryable failure among them.                                           *)
LEMMA Starts ==
    ASSUME NEW stage \in Stages
    PROVE  /\ StartsFrom(stage) \subseteq {"queued", "downloading", "probing", "normalizing",
                                           "fingerprinting", "storing", "failed_retryable"}
           /\ Working[stage] \in StartsFrom(stage)
           /\ "failed_retryable" \in StartsFrom(stage)
  BY DEF Stages, StartsFrom, Working, InspectionStarts, DownloadStarts, ProbeStarts,
         NormalizationStarts, FingerprintingStarts, FinalizationStarts

(* A key is its stage and its generation. *)
LEMMA Keys ==
    /\ \A key \in JobKeys : key[1] \in Stages /\ key[2] \in BOOLEAN /\ key = <<key[1], key[2]>>
    /\ \A stage \in Stages, gen \in BOOLEAN : <<stage, gen>> \in JobKeys
  BY DEF JobKeys

-----------------------------------------------------------------------------
(* Types *)

(* A row of queue.jobs that satisfies RowsInv *)
GoodRow(row) ==
    /\ row \in JobRow
    /\ row.state = "queued" => row.attempt < MaxAttempts
    /\ row.state = "running" => row.attempt >= 1

JobsTyped(rows) == rows \in [JobKeys -> JobRow] /\ \A key \in JobKeys : GoodRow(rows[key])

LEMMA RowWritten ==
    ASSUME NEW rows, JobsTyped(rows), NEW key \in JobKeys, NEW row, GoodRow(row)
    PROVE  JobsTyped([rows EXCEPT ![key] = row])
  BY Zenon DEF JobsTyped, GoodRow

LEMMA RowReleased ==
    ASSUME NEW state \in {"queued", "succeeded", "failed"}, NEW attempt \in 0 .. MaxAttempts,
           state = "queued" => attempt < MaxAttempts
    PROVE  GoodRow(Released(state, attempt))
  BY PipelineAttemptsAssumption DEF GoodRow, JobRow, Released

LEMMA RowEnqueued ==
    ASSUME NEW rows, JobsTyped(rows), NEW key \in JobKeys
    PROVE  JobsTyped(Enqueued(rows, key))
  <1>1. NoJob \in JobRow /\ NoJob.attempt = 0
    BY PipelineAttemptsAssumption DEF NoJob, JobRow
  <1>2. GoodRow(NewJob)
    BY <1>1, PipelineAttemptsAssumption DEF GoodRow, NewJob, JobRow
  <1> QED
    BY Zenon, <1>2, RowWritten DEF Enqueued

(* What each step does to the rows of jobs *)
LEMMA JobsStayTyped ==
    ASSUME TypeOK, RowsInv, [Next]_vars
    PROVE  JobsTyped(jobs')
  <1>0. JobsTyped(jobs) /\ ingest.force_save \in BOOLEAN /\ FirstStage \in Stages
    BY Zenon DEF TypeOK, RowsInv, JobsTyped, GoodRow, IngestRow, FirstStage, Stages
  <1>1. \A key \in JobKeys : GoodRow(jobs[key]) /\ jobs[key].attempt \in 0 .. MaxAttempts
    BY Zenon, <1>0 DEF JobsTyped, GoodRow, JobRow
  <1>2. \A w \in Workers : worker[w].job \in JobKeys
    BY Zenon DEF TypeOK, Worker
  <1>3. ASSUME NEW w \in Workers, NEW key \in JobKeys, ClaimNext(w, key) PROVE JobsTyped(jobs')
    <2> DEFINE row == [state |-> "running", attempt |-> jobs[key].attempt + 1,
                       holder |-> w, live |-> TRUE]
    <2>1. GoodRow(row)
      BY <1>1, <1>3, PipelineAttemptsAssumption DEF ClaimNext, GoodRow, JobRow
    <2>2. jobs' = [jobs EXCEPT ![key] = row]
      BY Zenon, <1>3 DEF ClaimNext
    <2> QED
      BY Zenon, <1>0, <2>1, <2>2, RowWritten
  <1>4. ASSUME NEW key \in JobKeys, LeaseExpires(key) PROVE JobsTyped(jobs')
    <2> DEFINE row == [jobs[key] EXCEPT !.live = FALSE]
    <2>1. GoodRow(row)
      BY Zenon, <1>1 DEF GoodRow, JobRow
    <2>2. jobs' = [jobs EXCEPT ![key] = row]
      BY Zenon, <1>4 DEF LeaseExpires
    <2> QED
      BY Zenon, <1>0, <2>1, <2>2, RowWritten
  <1>5. ASSUME NEW key \in JobKeys, SettleRetry(key) PROVE JobsTyped(jobs')
    <2> DEFINE row == Released(IF jobs[key].attempt >= MaxAttempts THEN "failed" ELSE "queued",
                               jobs[key].attempt)
    <2>1. GoodRow(row)
      BY <1>1, PipelineAttemptsAssumption, RowReleased
    <2>2. jobs' = [jobs EXCEPT ![key] = row]
      BY Zenon, <1>5 DEF SettleRetry
    <2> QED
      BY Zenon, <1>0, <2>1, <2>2, RowWritten
  <1>6. ASSUME NEW key \in JobKeys, NEW state \in {"succeeded", "failed"}
        PROVE  JobsTyped([jobs EXCEPT ![key] = Released(state, jobs[key].attempt)])
    <2>1. GoodRow(Released(state, jobs[key].attempt))
      BY Zenon, <1>1, RowReleased
    <2> QED
      BY Zenon, <1>0, <2>1, RowWritten
  <1>7. ASSUME NEW w \in Workers, FinishJob(w) PROVE JobsTyped(jobs')
    <2> DEFINE key == worker[w].job
    <2>1. key \in JobKeys
      BY Zenon, <1>2
    <2>2. CASE SettleRetry(key)
      BY Zenon, <1>5, <2>1, <2>2
    <2>3. CASE IsHolder(w) /\ SettleDefer(key)
      <3>1. jobs[key].attempt - 1 \in 0 .. MaxAttempts /\ jobs[key].attempt - 1 < MaxAttempts
        BY <1>1, <2>1, <2>3, PipelineAttemptsAssumption DEF IsHolder, JobOf, GoodRow
      <3>2. GoodRow(Released("queued", jobs[key].attempt - 1))
        BY Zenon, <3>1, RowReleased
      <3>3. jobs' = [jobs EXCEPT ![key] = Released("queued", jobs[key].attempt - 1)]
        BY Zenon, <2>3 DEF SettleDefer
      <3> QED
        BY Zenon, <1>0, <2>1, <3>2, <3>3, RowWritten
    <2>4. CASE CompleteLease(key) \/ SettleFail(key)
      BY Zenon, <1>6, <2>1, <2>4 DEF CompleteLease, SettleFail
    <2>5. CASE UNCHANGED jobs
      BY Zenon, <1>0, <2>5
    <2> QED
      BY Zenon, <1>7, <2>2, <2>3, <2>4, <2>5 DEF FinishJob
  <1>8. ASSUME NEW w \in Workers, Complete(w) PROVE JobsTyped(jobs')
    <2>1. worker[w].job \in JobKeys
      BY Zenon, <1>2
    <2>2. JobsTyped(Succeeded(w))
      BY Zenon, <1>6, <2>1 DEF Succeeded
    <2>3. \A stage \in Stages : JobsTyped(SucceededThen(w, stage))
      BY Zenon, <1>0, <2>2, Keys, RowEnqueued DEF SucceededThen
    <2>4. \/ jobs' = Succeeded(w)
          \/ \E stage \in Stages : jobs' = SucceededThen(w, stage)
          \/ jobs' = jobs
      BY Zenon, <1>8 DEF Complete, CompleteInspection, CompleteDownload, CompleteProbe,
                  CompleteNormalization, CompleteIdentity, CompleteFinalization, Stages
    <2> QED
      BY Zenon, <1>0, <2>2, <2>3, <2>4
  <1>9. CASE ForceSave
    BY Zenon, <1>0, <1>9, Keys, RowEnqueued DEF ForceSave
  <1>10. CASE UNCHANGED jobs
    BY Zenon, <1>0, <1>10
  <1> QED
    BY Zenon, <1>3, <1>4, <1>5, <1>7, <1>8, <1>9, <1>10 DEF Next, vars, HandlerStep, Begin, Work,
       FailIngestStep, Crash, Shutdown, RefuseAdmission, TransactionFails, RecoverJob,
       AcceptDuplicate, StorageReady, StorageRetries, StorageMissing, StorageUnknown, StorageReset

(* What each step does to the workers *)
LEMMA WorkersStayTyped ==
    ASSUME TypeOK, [Next]_vars
    PROVE  worker' \in [Workers -> Worker]
  <1>1. worker \in [Workers -> Worker]
    BY Zenon DEF TypeOK
  <1>2. ASSUME NEW w \in Workers, NEW pc \in HandlerSteps \cup Results, worker' = Goto(w, pc)
        PROVE  worker' \in [Workers -> Worker]
    <2>1. worker' = [worker EXCEPT ![w] = [worker[w] EXCEPT !.pc = pc]]
      BY Zenon, <1>2 DEF Goto
    <2>2. [worker[w] EXCEPT !.pc = pc] \in Worker
      BY Zenon, <1>1 DEF Worker
    <2> QED
      BY Zenon, <1>1, <2>1, <2>2
  <1>3. ASSUME NEW w \in Workers, worker' = [worker EXCEPT ![w] = Idle]
        PROVE  worker' \in [Workers -> Worker]
    <2>1. Idle \in Worker
      BY Zenon DEF Idle, Worker, NoKey, JobKeys, Stages
    <2> QED
      BY Zenon, <1>1, <1>3, <2>1
  <1>4. ASSUME NEW w \in Workers, NEW key \in JobKeys, ClaimNext(w, key)
        PROVE  worker' \in [Workers -> Worker]
    <2>1. [pc |-> "begin", job |-> key] \in Worker
      BY Zenon DEF Worker, HandlerSteps
    <2> QED
      BY Zenon, <1>1, <1>4, <2>1 DEF ClaimNext
  <1>5. ASSUME NEW w \in Workers, Work(w) PROVE worker' \in [Workers -> Worker]
    <2>1. Stage(w) \in Stages
      BY Zenon, <1>1, Keys DEF Stage, Worker
    <2>2. Outcomes(Stage(w)) \subseteq HandlerSteps \cup Results
      BY Zenon, <2>1 DEF Outcomes, Stages, SettledOutcomes, InspectSource, DownloadSource,
         ProbeAsset,
                  NormalizeAsset, FinalizeIngest, ComputeFingerprint, HandlerSteps, Results
    <2> QED
      BY Zenon, <1>2, <1>5, <2>2 DEF Work
  <1>6. ASSUME NEW w \in Workers,
               Begin(w) \/ FailIngestStep(w) \/ Complete(w) \/ Shutdown(w) \/ RefuseAdmission(w)
                  \/ TransactionFails(w)
        PROVE  worker' \in [Workers -> Worker]
    <2>1. \E pc \in HandlerSteps \cup Results : worker' = Goto(w, pc)
      BY Zenon, <1>6 DEF Begin, FailIngestStep, Complete, Shutdown, RefuseAdmission,
         TransactionFails,
                  HandlerSteps, Results
    <2> QED
      BY Zenon, <1>2, <2>1
  <1>7. ASSUME NEW w \in Workers, FinishJob(w) \/ Crash(w) PROVE worker' \in [Workers -> Worker]
    BY Zenon, <1>3, <1>7 DEF FinishJob, Crash
  <1>8. CASE UNCHANGED worker
    BY Zenon, <1>1, <1>8
  <1> QED
    BY Zenon, <1>4, <1>5, <1>6, <1>7, <1>8 DEF Next, vars, HandlerStep, LeaseExpires, RecoverJob,
       ForceSave, AcceptDuplicate, StorageReady, StorageRetries, StorageMissing, StorageUnknown,
       StorageReset

(* What each step does to the ingest row *)
LEMMA IngestStaysTyped ==
    ASSUME TypeOK, [Next]_vars
    PROVE  ingest' \in IngestRow
  <1>1. ingest \in IngestRow
    BY Zenon DEF TypeOK
  <1>2. ASSUME NEW status \in Statuses, NEW error \in {"none", "stage", "storage"},
               NEW row \in IngestRow
        PROVE  [row EXCEPT !.status = status, !.error = error] \in IngestRow
    BY Zenon DEF IngestRow
  <1>3. \A w \in Workers : Stage(w) \in Stages
    BY Zenon, Keys DEF Stage, TypeOK, Worker
  <1>4. ASSUME NEW w \in Workers, Begin(w) PROVE ingest' \in IngestRow
    <2>1. Working[Stage(w)] \in Statuses
      BY <1>3 DEF Working, Stages, Statuses
    <2> QED
      BY Zenon, <1>1, <1>2, <1>4, <2>1 DEF Begin
  <1>5. CASE IngestGivenUp
    BY Zenon, <1>1, <1>2, <1>5 DEF IngestGivenUp, Failed, Statuses
  <1>6. ASSUME NEW w \in Workers, FailIngestStep(w) PROVE ingest' \in IngestRow
    BY Zenon, <1>1, <1>2, <1>6 DEF FailIngestStep, Failed, IngestKept, Statuses
  <1>7. ASSUME NEW artifact \in Artifacts, NEW status \in Statuses
        PROVE  Recorded(artifact, status) \in IngestRow
    BY Zenon, <1>1 DEF Recorded, IngestRow
  <1>8. ASSUME NEW row \in IngestRow, NEW found, AdvanceAfterMediaProcessing(row, found)
        PROVE  ingest' \in IngestRow
    BY ZenonT(40), <1>8 DEF AdvanceAfterMediaProcessing, IngestRow, Statuses
  <1>9. ASSUME NEW w \in Workers, Complete(w) PROVE ingest' \in IngestRow
    <2>1. CASE CompleteInspection(w)
      BY Zenon, <1>7, <2>1 DEF CompleteInspection, Artifacts, Statuses
    <2>2. CASE CompleteDownload(w)
      BY Zenon, <1>7, <2>2 DEF CompleteDownload, Artifacts, Statuses
    <2>3. CASE CompleteProbe(w)
      <3>1. Recorded("probe", "normalizing") \in IngestRow
            /\ Recorded("probe", "failed_terminal") \in IngestRow
        BY Zenon, <1>7 DEF Artifacts, Statuses
      <3>2. [Recorded("probe", "failed_terminal") EXCEPT !.error = "stage"] \in IngestRow
        BY Zenon, <3>1 DEF IngestRow
      <3> QED
        BY Zenon, <2>3, <3>1, <3>2 DEF CompleteProbe
    <2>4. CASE CompleteNormalization(w)
      BY Zenon, <1>7, <2>4 DEF CompleteNormalization, Artifacts, Statuses
    <2>5. CASE CompleteFinalization(w)
      <3>1. [ingest EXCEPT !.artifacts = @ \cup {"finalization"}, !.error = "none"] \in IngestRow
        BY Zenon, <1>1 DEF IngestRow, Artifacts
      <3> QED
        BY Zenon, <1>8, <2>5, <3>1 DEF CompleteFinalization
    <2>6. CASE CompleteIdentity(w)
      <3>1. [ingest EXCEPT !.evidence = FALSE, !.error = "none"] \in IngestRow
        BY Zenon, <1>1 DEF IngestRow
      <3>2. [ingest EXCEPT !.status = "duplicate_pending", !.linked = FALSE,
                           !.evidence = TRUE, !.error = "none"] \in IngestRow
        BY Zenon, <1>1 DEF IngestRow, Statuses
      <3> QED
        BY Zenon, <1>8, <2>6, <3>1, <3>2 DEF CompleteIdentity
    <2> QED
      BY Zenon, <1>1, <1>9, <2>1, <2>2, <2>3, <2>4, <2>5, <2>6 DEF Complete
  <1>10. CASE ForceSave
    BY Zenon, <1>1, <1>10 DEF ForceSave, IngestRow, Statuses
  <1>11. CASE AcceptDuplicate
    BY ZenonT(40), <1>1, <1>11 DEF AcceptDuplicate, IngestRow, Statuses
  <1>12. CASE StorageReady \/ StorageRetries \/ StorageMissing \/ StorageUnknown \/ StorageReset
    <2>1. /\ [ingest EXCEPT !.status = "completed", !.error = "none"] \in IngestRow
          /\ [ingest EXCEPT !.status = "storing", !.error = "none"] \in IngestRow
          /\ [ingest EXCEPT !.status = "failed_retryable", !.error = "storage"] \in IngestRow
          /\ [ingest EXCEPT !.status = "failed_terminal", !.error = "storage"] \in IngestRow
      BY Zenon, <1>1, <1>2 DEF Statuses
    <2> QED
      BY Zenon, <1>1, <1>12, <2>1 DEF StorageReady, StorageRetries, StorageMissing, StorageUnknown,
         StorageReset
  <1>13. CASE UNCHANGED ingest
    BY Zenon, <1>1, <1>13
  <1>14. ASSUME NEW key \in JobKeys, SettleRetry(key) PROVE IngestGivenUp \/ UNCHANGED ingest
    BY Zenon, <1>14 DEF SettleRetry, IngestKept
  <1>15. ASSUME NEW w \in Workers, FinishJob(w) PROVE ingest' \in IngestRow
    <2>1. worker[w].job \in JobKeys
      BY Zenon DEF TypeOK, Worker
    <2> QED
      BY Zenon, <1>5, <1>13, <1>14, <1>15, <2>1 DEF FinishJob, SettleFail, SettleDefer,
         CompleteLease,
         IngestKept
  <1> QED
    BY Zenon, <1>4, <1>5, <1>6, <1>9, <1>10, <1>11, <1>12, <1>13, <1>14, <1>15 DEF Next, vars,
       HandlerStep, ClaimNext, LeaseExpires, RecoverJob, Work, Crash, Shutdown, RefuseAdmission,
       TransactionFails

(* Types and rows together *)
LEMMA TypesStay ==
    ASSUME TypeOK, RowsInv, [Next]_vars
    PROVE  TypeOK' /\ RowsInv'
  <1>1. ingest.force_save \in BOOLEAN /\ ingest.input \in Submitted
    BY Zenon DEF TypeOK, IngestRow
  <1>2. Publishing \in BOOLEAN
    BY Zenon, <1>1, PipelineInputsAssumption DEF Publishing
  <1>3. storage \in StorageStates /\ cleanup \subseteq BOOLEAN /\ materialize \in BOOLEAN
    BY Zenon DEF TypeOK
  <1> DEFINE Typed == /\ storage' \in StorageStates
                      /\ cleanup' \subseteq BOOLEAN
                      /\ materialize' \in BOOLEAN
  <1> SUFFICES Typed
    BY Zenon, JobsStayTyped, WorkersStayTyped, IngestStaysTyped DEF TypeOK, RowsInv, JobsTyped,
       GoodRow
  <1>4. CASE UNCHANGED <<storage, materialize>>
             /\ cleanup' \in {cleanup, cleanup \cup {ingest.force_save}}
    BY Zenon, <1>1, <1>3, <1>4
  <1>5. ASSUME NEW row, row.force_save = ingest.force_save, NEW found \in StorageStates,
               AdvanceAfterMediaProcessing(row, found)
        PROVE  Typed
    BY Zenon, <1>1, <1>2, <1>3, <1>5 DEF AdvanceAfterMediaProcessing
  <1>6. ASSUME NEW w \in Workers, Complete(w) PROVE Typed
    <2>1. CASE CompleteFinalization(w)
      <3>1. [ingest EXCEPT !.artifacts = @ \cup {"finalization"}, !.error = "none"].force_save
               = ingest.force_save
        BY Zenon DEF TypeOK, IngestRow
      <3> QED
        BY Zenon, <1>3, <1>5, <2>1, <3>1 DEF CompleteFinalization
    <2>2. CASE CompleteIdentity(w)
      <3>1. [ingest EXCEPT !.evidence = FALSE, !.error = "none"].force_save = ingest.force_save
        BY Zenon DEF TypeOK, IngestRow
      <3> QED
        BY Zenon, <1>4, <1>5, <2>2, <3>1 DEF CompleteIdentity
    <2> QED
      BY Zenon, <1>4, <1>6, <2>1, <2>2 DEF Complete, CompleteInspection, CompleteDownload,
         CompleteProbe,
                                    CompleteNormalization
  <1>7. ASSUME NEW w \in Workers, Work(w) PROVE Typed
    BY Zenon, <1>3, <1>7 DEF Work, StorageStates
  <1>8. ASSUME NEW key, SettleRetry(key) \/ SettleDefer(key) \/ SettleFail(key) \/ CompleteLease(key),
               UNCHANGED <<storage, materialize>>
        PROVE  Typed
    BY Zenon, <1>4, <1>8 DEF SettleRetry, SettleDefer, SettleFail, CompleteLease, IngestGivenUp,
       IngestKept
  <1>9. ASSUME NEW w \in Workers, FinishJob(w) PROVE Typed
    BY Zenon, <1>4, <1>8, <1>9 DEF FinishJob
  <1>10. ASSUME NEW w \in Workers, FailIngestStep(w) PROVE Typed
    BY Zenon, <1>4, <1>10 DEF FailIngestStep, IngestKept
  <1>11. CASE AcceptDuplicate \/ StorageReady \/ StorageRetries \/ StorageMissing
              \/ StorageUnknown \/ StorageReset
    BY Zenon, <1>1, <1>2, <1>3, <1>11 DEF AcceptDuplicate, StorageReady, StorageRetries,
       StorageMissing,
       StorageUnknown, StorageReset, StorageStates
  <1> QED
    BY Zenon, <1>4, <1>6, <1>7, <1>8, <1>9, <1>10, <1>11 DEF Next, vars, HandlerStep, ClaimNext,
       LeaseExpires, RecoverJob, Begin, Crash, Shutdown, RefuseAdmission, TransactionFails,
       ForceSave

-----------------------------------------------------------------------------
(* The live job of the ingest *)

(* What never changes, and the generation *)
SameGeneration == ingest'.input = ingest.input /\ ingest'.force_save = ingest.force_save

OthersKept(key) ==
    \A other \in JobKeys : other # key => jobs'[other].state = jobs[other].state

(* While a stage job is live the ingest is unresolved and undecided. *)
LEMMA LiveJob ==
    ASSUME PipelineInv, NEW key \in JobKeys, Live(key)
    PROVE  /\ key = <<key[1], ingest.force_save>>
           /\ ~ingest.linked /\ ~ingest.accepted /\ ~ingest.evidence
           /\ ingest.status \notin {"duplicate_pending", "completed"}
           /\ ingest.status \in StartsFrom(key[1]) \cup {"failed_terminal"}
           /\ ingest.artifacts = Inputs(key[1])
           /\ key[1] \in {"inspect", "download"} => FromUrl
           /\ \A other \in JobKeys : Live(other) => other = key
           /\ ingest.status # "failed_terminal" => InPipeline
  <1>1. key[1] \in Stages /\ key = <<key[1], key[2]>>
    BY Zenon, Keys
  <1> QED
    BY <1>1, Starts DEF PipelineInv, Together, LiveInv, DecisionInv, InPipeline

(* The lease of a stage job has one holder. *)
LEMMA OneLease ==
    ASSUME PipelineInv, NEW v \in Workers, NEW w \in Workers, HoldsLease(v), HoldsLease(w)
    PROVE  v = w
  <1>1. worker[v].job \in JobKeys /\ worker[w].job \in JobKeys
    BY Zenon DEF PipelineInv, TypeOK, Worker
  <1>2. Live(worker[v].job) /\ Live(worker[w].job)
    BY Zenon DEF HoldsLease, IsHolder, JobOf, Live
  <1> QED
    BY Zenon, <1>1, <1>2, LiveJob DEF HoldsLease, IsHolder, JobOf

(* The live job stays live: it is claimed, returned or handled. *)
LEMMA LiveStays ==
    ASSUME PipelineInv, NEW key \in JobKeys, Live(key), Live(key)', OthersKept(key),
           SameGeneration, ingest'.linked = ingest.linked, ingest'.artifacts = ingest.artifacts,
           ingest'.status \in StartsFrom(key[1]) \cup {"failed_terminal"}
    PROVE  LiveInv' /\ GenerationInv'
  <1>1. \A other \in JobKeys : Live(other)' => other = key
    BY Zenon DEF PipelineInv, Together, LiveInv, OthersKept, Live
  <1>2. Inputs(key[1])' = Inputs(key[1])
    BY Zenon DEF SameGeneration, Inputs, Fetched, FromUrl
  <1>3. \A other \in JobKeys : other[2] = key[2] /\ Rank[other[1]] > Rank[key[1]]
                                  => jobs'[other].state = "absent"
    BY Zenon DEF PipelineInv, Together, LiveInv, OthersKept, Live
  <1>4. LiveInv'
    BY <1>1, <1>2, <1>3 DEF PipelineInv, Together, LiveInv, SameGeneration, FromUrl
  <1>5. GenerationInv'
    BY DEF PipelineInv, Together, LiveInv, GenerationInv, SameGeneration, OthersKept
  <1> QED
    BY Zenon, <1>4, <1>5

(* The live job ends and has no successor: the ingest leaves the pipeline. *)
LEMMA NothingLeft ==
    ASSUME PipelineInv, NEW key \in JobKeys, Live(key), ~Live(key)', OthersKept(key),
           SameGeneration, ~InPipeline'
    PROVE  LiveInv' /\ GenerationInv'
  <1>1. \A other \in JobKeys : ~Live(other)'
    BY Zenon DEF PipelineInv, Together, LiveInv, OthersKept, Live
  <1>2. LiveInv'
    BY Zenon, <1>1 DEF LiveInv
  <1>3. GenerationInv'
    BY DEF PipelineInv, Together, LiveInv, GenerationInv, SameGeneration, OthersKept
  <1> QED
    BY Zenon, <1>2, <1>3

(* The live job ends and its successor is queued. *)
LEMMA Advances ==
    ASSUME PipelineInv, NEW key \in JobKeys, Live(key), NEW stage \in Stages,
           Rank[stage] > Rank[key[1]],
           ~Live(key)', jobs'[<<stage, ingest.force_save>>].state = "queued",
           \A other \in JobKeys : other \notin {key, <<stage, ingest.force_save>>}
               => jobs'[other].state = jobs[other].state,
           SameGeneration, ingest'.linked = ingest.linked,
           ingest'.artifacts = Inputs(stage), ingest'.status \in StartsFrom(stage),
           stage \in {"inspect", "download"} => FromUrl
    PROVE  LiveInv' /\ GenerationInv'
  <1>0. ingest.force_save \in BOOLEAN
    BY Zenon DEF PipelineInv, TypeOK, IngestRow
  <1>1. PICK next \in JobKeys : /\ next = <<stage, ingest.force_save>>
                                /\ next[1] = stage /\ next[2] = ingest.force_save
    BY Zenon, <1>0, Keys
  <1>2. \A other \in JobKeys : Live(other)' => other = next
    BY Zenon, <1>1 DEF PipelineInv, Together, LiveInv, Live
  <1>3. Inputs(stage)' = Inputs(stage)
    BY Zenon DEF SameGeneration, Inputs, Fetched, FromUrl
  <1>4. \A other \in JobKeys : Rank[other[1]] \in Int
    BY Keys DEF Rank, Stages
  <1>5. ASSUME NEW other \in JobKeys, other[2] = next[2], Rank[other[1]] > Rank[stage]
        PROVE  jobs'[other].state = "absent"
    <2>1. key[2] = next[2] /\ Rank[stage] \in Int /\ Rank[key[1]] \in Int
      BY Zenon, <1>1, <1>4 DEF PipelineInv, Together, LiveInv
    <2>2. Rank[other[1]] > Rank[key[1]]
      BY <1>4, <1>5, <2>1
    <2>3. other # next /\ other # key
      BY <1>1, <1>4, <1>5, <2>1, <2>2
    <2> QED
      BY <1>1, <1>5, <2>1, <2>2, <2>3 DEF PipelineInv, Together, LiveInv
  <1>6. LiveInv'
    BY <1>1, <1>2, <1>3, <1>5 DEF PipelineInv, Together, LiveInv, SameGeneration, FromUrl
  <1>7. Live(next)'
    BY Zenon, <1>1 DEF Live
  <1>8. GenerationInv'
    BY <1>1, <1>7 DEF PipelineInv, Together, LiveInv, GenerationInv, SameGeneration
  <1> QED
    BY Zenon, <1>6, <1>8

-----------------------------------------------------------------------------
(* Handlers *)

(* A live job's stage has not recorded its result. *)
LEMMA NoResultYet ==
    ASSUME PipelineInv, NEW key \in JobKeys, Live(key)
    PROVE  /\ ~ResultRecorded(key[1])
           /\ ~Has("finalization")
           /\ ~(key[1] = "download" /\ Has("download"))
  <1>1. ingest.artifacts = Inputs(key[1])
    BY Zenon, LiveJob
  <1> QED
    BY <1>1 DEF ResultRecorded, Has, Inputs, Fetched

(* A worker that holds a lease works on a live job. *)
LEMMA Holder ==
    ASSUME PipelineInv, NEW w \in Workers
    PROVE  /\ worker[w].job \in JobKeys
           /\ Stage(w) \in Stages
           /\ IsHolder(w) => Live(worker[w].job)
           /\ HoldsLease(w) => Live(worker[w].job)
  <1>1. worker[w].job \in JobKeys
    BY Zenon DEF PipelineInv, TypeOK, Worker
  <1> QED
    BY Zenon, <1>1, Keys DEF HoldsLease, IsHolder, JobOf, Live, Stage

(* Steps that release leases and grant none *)
LEMMA LeasesOnlyLost ==
    ASSUME \A key \in JobKeys : jobs'[key] = jobs[key] \/ jobs'[key].state # "running",
           NEW v \in Workers, worker[v].job \in JobKeys,
           worker'[v].job = worker[v].job, HoldsLease(v)'
    PROVE  HoldsLease(v)
  BY Zenon DEF HoldsLease, IsHolder, JobOf

(* A worker acts under its lease: nobody else's handler is concerned. *)
LEMMA HolderActs ==
    ASSUME PipelineInv, NEW w \in Workers, HoldsLease(w),
           \A v \in Workers : v # w => worker'[v] = worker[v],
           \A key \in JobKeys : jobs'[key] = jobs[key] \/ jobs'[key].state # "running",
           HandlerOK(w)'
    PROVE  HandlersInv'
  <1>1. ASSUME NEW v \in Workers, v # w PROVE ~HoldsLease(v)'
    BY Zenon, <1>1, Holder, LeasesOnlyLost, OneLease
  <1> QED
    BY Zenon, <1>1 DEF HandlersInv, HandlerOK

(* The ingest is as it was: the handlers that did nothing are, too. *)
LEMMA OthersUndisturbed ==
    ASSUME PipelineInv, ingest'.status = ingest.status, NEW v \in Workers,
           worker'[v] = worker[v], HoldsLease(v)' => HoldsLease(v)
    PROVE  HandlerOK(v)'
  BY Zenon DEF PipelineInv, Together, HandlersInv, HandlerOK, Stage, At

(* Only a worker's memory changes, or finalize_ingest has found its media. *)
LEMMA WorkerOnly ==
    ASSUME PipelineInv, UNCHANGED <<ingest, jobs, cleanup>>,
           storage' = storage \/ (storage = "none" /\ storage' # "none"),
           NEW w \in Workers, \A v \in Workers : v # w => worker'[v] = worker[v],
           HandlerOK(w)'
    PROVE  Together'
  <1>1. LiveInv' /\ GenerationInv'
    BY ZenonT(40) DEF PipelineInv, Together, LiveInv, GenerationInv, Live, InPipeline, Inputs,
       Fetched, FromUrl
  <1>2. DecisionInv' /\ RestIsCleanedUp'
    BY Zenon DEF PipelineInv, Together, DecisionInv, RestIsCleanedUp
  <1>3. ASSUME NEW v \in Workers, v # w PROVE HandlerOK(v)'
    BY Zenon, <1>3, OthersUndisturbed DEF HoldsLease, IsHolder, JobOf
  <1>4. HandlersInv'
    BY Zenon, <1>3 DEF HandlersInv
  <1> QED
    BY Zenon, <1>1, <1>2, <1>4 DEF Together

(* Goto and Idle move one worker and leave its job, or drop it. *)
LEMMA WorkerMoved ==
    ASSUME PipelineInv, NEW w \in Workers, NEW pc
    PROVE  /\ worker' = Goto(w, pc) => /\ worker'[w].pc = pc
                                       /\ worker'[w].job = worker[w].job
                                       /\ \A v \in Workers : v # w => worker'[v] = worker[v]
           /\ worker' = [worker EXCEPT ![w] = Idle] =>
                  /\ worker'[w].pc = "idle"
                  /\ \A v \in Workers : v # w => worker'[v] = worker[v]
  <1>1. worker \in [Workers -> Worker] /\ worker[w] \in Worker
    BY Zenon DEF PipelineInv, TypeOK
  <1> QED
    BY <1>1 DEF Goto, Idle, Worker

(* The steps in which the handler or its runner only moves on in memory *)
LEMMA MemorySteps ==
    ASSUME PipelineInv, NEW w \in Workers,
           \/ Crash(w)
           \/ Shutdown(w)
           \/ RefuseAdmission(w)
           \/ TransactionFails(w)
           \/ Work(w)
           \/ Begin(w) /\ ~MayBegin(w)
           \/ FailIngestStep(w) /\ ~MayFail(w)
           \/ Complete(w) /\ ~MayComplete(w)
    PROVE  Together'
  <1>0. HandlerOK(w) /\ worker[w].job \in JobKeys /\ (HoldsLease(w) => Live(worker[w].job))
    BY Zenon, Holder DEF PipelineInv, Together, HandlersInv
  <1>1. ASSUME UNCHANGED <<ingest, jobs, storage, cleanup>>, NEW pc \in {"retry", "defer", "fail"},
               worker' = Goto(w, pc)
        PROVE  Together'
    <2>1. HandlerOK(w)'
      BY Zenon, <1>1, WorkerMoved DEF HandlerOK, HandlerSteps, At
    <2> QED
      BY Zenon, <1>1, <2>1, WorkerMoved, WorkerOnly
  <1>2. CASE Shutdown(w) \/ RefuseAdmission(w) \/ TransactionFails(w)
    BY Zenon, <1>1, <1>2 DEF Shutdown, RefuseAdmission, TransactionFails
  <1>3. CASE FailIngestStep(w) /\ ~MayFail(w)
    BY Zenon, <1>1, <1>3 DEF FailIngestStep, IngestKept
  <1>4. CASE Crash(w)
    <2>1. HandlerOK(w)'
      BY Zenon, <1>4, WorkerMoved DEF Crash, HandlerOK, HandlerSteps, At
    <2> QED
      BY Zenon, <1>4, <2>1, WorkerMoved, WorkerOnly DEF Crash
  <1>5. CASE Work(w)
    <2>1. PICK pc : worker' = Goto(w, pc)
      BY Zenon, <1>5 DEF Work
    <2>2. HoldsLease(w)' = HoldsLease(w) /\ Stage(w)' = Stage(w)
      BY Zenon, <1>5, <2>1, WorkerMoved DEF Work, HoldsLease, IsHolder, JobOf, Stage
    <2>3. worker'[w].pc # "ok"
      <3>1. Stage(w) \in Stages
        BY Zenon, Holder
      <3>2. "ok" \notin Outcomes(Stage(w))
        BY Zenon, <3>1 DEF Outcomes, Stages, SettledOutcomes, InspectSource, DownloadSource,
           ProbeAsset,
                    NormalizeAsset, FinalizeIngest, ComputeFingerprint
      <3> QED
        BY <1>5, <3>2, WorkerMoved DEF Work
    <2>4. HandlerOK(w)'
      BY Zenon, <1>0, <1>5, <2>2, <2>3 DEF Work, HandlerOK, HandlerSteps, At
    <2>5. storage' = storage \/ (storage = "none" /\ storage' # "none")
      BY Zenon, <1>5 DEF Work
    <2> QED
      BY Zenon, <1>5, <2>1, <2>4, <2>5, WorkerMoved, WorkerOnly DEF Work
  <1>6. CASE Begin(w) /\ ~MayBegin(w)
    <2>1. HoldsLease(w)' = HoldsLease(w)
      BY <1>6, WorkerMoved DEF Begin, HoldsLease, IsHolder, JobOf
    <2>2. HoldsLease(w) => ingest.status = "failed_terminal"
      BY Zenon, <1>0, <1>6, LiveJob, NoResultYet DEF MayBegin, MayRun, Stage
    <2>3. HandlerOK(w)'
      BY <1>6, <2>1, <2>2, WorkerMoved DEF Begin, HandlerOK, HandlerSteps, At
    <2> QED
      BY Zenon, <1>6, <2>3, WorkerMoved, WorkerOnly DEF Begin
  <1>7. CASE Complete(w) /\ ~MayComplete(w)
    <2>1. HoldsLease(w)' = HoldsLease(w)
      BY SMTT(40), <1>7, WorkerMoved DEF Complete, HoldsLease, IsHolder, JobOf
    <2>2. ~HoldsLease(w)
      BY Zenon, <1>0, <1>7, NoResultYet DEF Complete, MayComplete, HandlerOK, HandlerSteps, At,
         Stage
    <2>3. HandlerOK(w)'
      BY Zenon, <2>1, <2>2 DEF HandlerOK
    <2> QED
      BY Zenon, <1>7, <2>3, WorkerMoved, WorkerOnly DEF Complete
  <1> QED
    BY Zenon, <1>2, <1>3, <1>4, <1>5, <1>6, <1>7


-----------------------------------------------------------------------------
(* The queue's steps *)

LEMMA IngestAsItWas ==
    ASSUME PipelineInv, UNCHANGED <<ingest, storage, cleanup>>
    PROVE  DecisionInv' /\ RestIsCleanedUp'
  BY Zenon DEF PipelineInv, Together, DecisionInv, RestIsCleanedUp

(* The stage job is live and the ingest row gets a new status and error. *)
LEMMA StatusOnly ==
    ASSUME PipelineInv, NEW key \in JobKeys, Live(key),
           NEW status \in StartsFrom(key[1]) \cup {"failed_terminal"}, NEW error,
           ingest' = [ingest EXCEPT !.status = status, !.error = error],
           UNCHANGED storage, cleanup \subseteq cleanup',
           status = "failed_terminal" => ingest.force_save \in cleanup'
    PROVE  /\ DecisionInv' /\ RestIsCleanedUp' /\ SameGeneration
           /\ ingest'.linked = ingest.linked /\ ingest'.artifacts = ingest.artifacts
           /\ ingest'.status = status
  <1>1. status \notin {"duplicate_pending", "completed"}
    BY Zenon, Keys, Starts
  <1>2. ~ingest.linked /\ ~ingest.accepted /\ ~ingest.evidence
    BY Zenon, LiveJob
  <1>3. ingest \in IngestRow
    BY Zenon DEF PipelineInv, TypeOK
  <1>4. /\ ingest'.linked = ingest.linked /\ ingest'.artifacts = ingest.artifacts
        /\ ingest'.status = status /\ ingest'.accepted = ingest.accepted
        /\ ingest'.evidence = ingest.evidence /\ SameGeneration
    BY Zenon, <1>3 DEF IngestRow, SameGeneration
  <1> QED
    BY Zenon, <1>1, <1>2, <1>4 DEF DecisionInv, RestIsCleanedUp, SameGeneration

(* A claim hands the live job to a worker that begins. *)
LEMMA ClaimKeeps ==
    ASSUME PipelineInv, NEW w \in Workers, NEW key \in JobKeys, ClaimNext(w, key)
    PROVE  Together'
  <1>1. Live(key) /\ Live(key)' /\ OthersKept(key) /\ SameGeneration
    BY Zenon DEF PipelineInv, TypeOK, ClaimNext, Live, OthersKept, SameGeneration
  <1>2. LiveInv' /\ GenerationInv'
    BY Zenon, <1>1, LiveJob, LiveStays DEF ClaimNext
  <1>3. DecisionInv' /\ RestIsCleanedUp'
    BY Zenon, IngestAsItWas DEF ClaimNext
  <1>4. \A v \in Workers : v # w => worker'[v] = worker[v]
    BY Zenon DEF PipelineInv, TypeOK, ClaimNext
  <1>5. worker'[w].pc = "begin"
    BY Zenon DEF PipelineInv, TypeOK, ClaimNext
  <1>6. HandlerOK(w)'
    BY Zenon, <1>5 DEF HandlerOK, HandlerSteps, At
  <1>7. ASSUME NEW v \in Workers, v # w PROVE HoldsLease(v)' => HoldsLease(v)
    BY Zenon, <1>4, <1>7, Holder DEF PipelineInv, TypeOK, ClaimNext, HoldsLease, IsHolder, JobOf
  <1>8. HandlersInv'
    BY Zenon, <1>4, <1>6, <1>7, OthersUndisturbed DEF ClaimNext, HandlersInv
  <1> QED
    BY Zenon, <1>2, <1>3, <1>8 DEF Together

LEMMA ExpiryKeeps ==
    ASSUME PipelineInv, NEW key \in JobKeys, LeaseExpires(key)
    PROVE  Together'
  <1>0. jobs \in [JobKeys -> JobRow] /\ jobs[key] \in JobRow
    BY Zenon DEF PipelineInv, TypeOK
  <1>1. /\ jobs'[key].state = jobs[key].state /\ ~jobs'[key].live
        /\ \A other \in JobKeys : other # key => jobs'[other] = jobs[other]
    BY Zenon, <1>0 DEF LeaseExpires, JobRow
  <1>2. Live(key) /\ Live(key)' /\ OthersKept(key) /\ SameGeneration
    BY Zenon, <1>1 DEF LeaseExpires, Live, OthersKept, SameGeneration
  <1>3. LiveInv' /\ GenerationInv'
    BY Zenon, <1>2, LiveJob, LiveStays DEF LeaseExpires
  <1>4. DecisionInv' /\ RestIsCleanedUp'
    BY Zenon, IngestAsItWas DEF LeaseExpires
  <1>5. ASSUME NEW v \in Workers PROVE HoldsLease(v)' => HoldsLease(v)
    BY <1>1, Holder DEF LeaseExpires, HoldsLease, IsHolder, JobOf
  <1>6. HandlersInv'
    BY Zenon, <1>5, OthersUndisturbed DEF LeaseExpires, HandlersInv
  <1> QED
    BY Zenon, <1>3, <1>4, <1>6 DEF Together

(* settle_lease, recover_stale and the inbox's hooks: the job is requeued, *)
(* or it ends and the ingest fails with it.                                *)
LEMMA SettleKeeps ==
    ASSUME PipelineInv, NEW key \in JobKeys, jobs[key].state = "running",
           \/ SettleRetry(key) \/ SettleDefer(key) \/ SettleFail(key)
           \/ CompleteLease(key) /\ ingest.status = "failed_terminal",
           UNCHANGED storage,
           \A v \in Workers : worker'[v] = worker[v] \/ worker'[v].pc = "idle"
    PROVE  Together'
  <1>1. Live(key)
    BY Zenon DEF Live
  <1>2. PICK state \in {"queued", "succeeded", "failed"} :
            /\ \E attempt : jobs' = [jobs EXCEPT ![key] = Released(state, attempt)]
            /\ \/ state = "queued" /\ IngestKept
               \/ /\ state # "queued"
                  /\ IngestGivenUp \/ (IngestKept /\ ingest.status = "failed_terminal")
    BY Zenon DEF SettleRetry, SettleDefer, SettleFail, CompleteLease
  <1>3. /\ jobs'[key].state = state
        /\ \A other \in JobKeys : other # key => jobs'[other] = jobs[other]
    BY <1>2 DEF PipelineInv, TypeOK, Released
  <1>4. OthersKept(key)
    BY Zenon, <1>3 DEF OthersKept
  <1>5. HandlersInv'
    <2>1. ASSUME NEW v \in Workers, worker'[v] = worker[v] PROVE ~HoldsLease(v)'
      <3>1. HoldsLease(v)' => HoldsLease(v) /\ worker[v].job # key
        BY SMTT(40), <1>3, <2>1, Holder, LeasesOnlyLost DEF HoldsLease, IsHolder, JobOf
      <3> QED
        BY Zenon, <1>1, <3>1, Holder, LiveJob
    <2> QED
      BY Zenon, <2>1 DEF HandlersInv, HandlerOK, HandlerSteps, At
  <1>6. CASE state = "queued" /\ IngestKept
    <2>1. DecisionInv' /\ RestIsCleanedUp' /\ SameGeneration
      BY Zenon, <1>6, IngestAsItWas DEF IngestKept, SameGeneration
    <2>2. Live(key)'
      BY Zenon, <1>3, <1>6 DEF Live
    <2>3. LiveInv' /\ GenerationInv'
      BY Zenon, <1>1, <1>4, <1>6, <2>1, <2>2, LiveJob, LiveStays DEF IngestKept
    <2> QED
      BY Zenon, <1>5, <2>1, <2>3 DEF Together
  <1>7. CASE /\ state # "queued"
             /\ IngestGivenUp \/ (IngestKept /\ ingest.status = "failed_terminal")
    <2>1. ingest.status # "completed"
      BY Zenon, <1>1, LiveJob
    <2>2. /\ DecisionInv' /\ RestIsCleanedUp' /\ SameGeneration
          /\ ingest'.status = "failed_terminal"
      <3>1. CASE IngestGivenUp /\ ~IsTerminal(ingest.status)
        BY Zenon, <1>1, <3>1, StatusOnly DEF IngestGivenUp, Failed
      <3>2. CASE UNCHANGED ingest /\ ingest.status = "failed_terminal"
                 /\ cleanup \subseteq cleanup'
        BY Zenon, <3>2 DEF PipelineInv, Together, DecisionInv, RestIsCleanedUp, SameGeneration
      <3> QED
        BY Zenon, <1>7, <2>1, <3>1, <3>2 DEF IngestGivenUp, IngestKept, IsTerminal
    <2>3. ~InPipeline'
      BY Zenon, <2>2 DEF InPipeline
    <2>4. ~Live(key)'
      BY Zenon, <1>2, <1>3, <1>7 DEF Live
    <2> QED
      BY Zenon, <1>1, <1>4, <1>5, <2>2, <2>3, <2>4, NothingLeft DEF Together
  <1> QED
    BY Zenon, <1>2, <1>6, <1>7


-----------------------------------------------------------------------------
(* The handlers' steps under a lease *)

LEMMA BeginKeeps ==
    ASSUME PipelineInv, NEW w \in Workers, Begin(w), MayBegin(w)
    PROVE  Together'
  <1>1. PICK key \in JobKeys : Live(key) /\ HoldsLease(w) /\ key[1] = Stage(w)
    BY Zenon, Holder DEF MayBegin, Stage
  <1>2. Working[Stage(w)] \in StartsFrom(key[1])
    BY Zenon, <1>1, Holder, Starts
  <1>3. /\ ingest' = [ingest EXCEPT !.status = Working[Stage(w)], !.error = "none"]
        /\ worker' = Goto(w, "work") /\ UNCHANGED <<jobs, storage, cleanup>>
    BY Zenon DEF Begin
  <1>4. Working[Stage(w)] # "failed_terminal"
    BY Zenon, <1>2, <1>1, Keys, Starts
  <1>5. /\ DecisionInv' /\ RestIsCleanedUp' /\ SameGeneration
        /\ ingest'.linked = ingest.linked /\ ingest'.artifacts = ingest.artifacts
        /\ ingest'.status = Working[Stage(w)]
    BY Zenon, <1>1, <1>2, <1>3, <1>4, StatusOnly
  <1>6. Live(key)' /\ OthersKept(key)
    BY Zenon, <1>1, <1>3 DEF Live, OthersKept
  <1>7. LiveInv' /\ GenerationInv'
    BY Zenon, <1>1, <1>2, <1>5, <1>6, LiveStays
  <1>8. HandlerOK(w)'
    BY <1>3, <1>5, WorkerMoved DEF HandlerOK, At, Stage
  <1>9. HandlersInv'
    BY Zenon, <1>1, <1>3, <1>8, HolderActs, WorkerMoved
  <1> QED
    BY Zenon, <1>5, <1>7, <1>9 DEF Together

LEMMA FailKeeps ==
    ASSUME PipelineInv, NEW w \in Workers, FailIngestStep(w), MayFail(w)
    PROVE  Together'
  <1> DEFINE status == IF At(w, "fail_terminal") THEN "failed_terminal" ELSE "failed_retryable"
  <1>1. PICK key \in JobKeys : Live(key) /\ HoldsLease(w)
    BY Zenon, Holder DEF MayFail
  <1>2. status \in StartsFrom(key[1]) \cup {"failed_terminal"}
    BY Zenon, <1>1, Keys, Starts
  <1>3. /\ ingest' = [ingest EXCEPT !.status = status, !.error = "stage"]
        /\ UNCHANGED <<jobs, storage>> /\ cleanup \subseteq cleanup'
        /\ status = "failed_terminal" => ingest.force_save \in cleanup'
    BY Zenon DEF FailIngestStep, Failed
  <1>4. \E pc \in {"fail", "retry"} : worker' = Goto(w, pc)
    BY Zenon DEF FailIngestStep
  <1> HIDE DEF status
  <1>5. /\ DecisionInv' /\ RestIsCleanedUp' /\ SameGeneration
        /\ ingest'.linked = ingest.linked /\ ingest'.artifacts = ingest.artifacts
        /\ ingest'.status = status
    BY Zenon, <1>1, <1>2, <1>3, StatusOnly
  <1>6. Live(key)' /\ OthersKept(key)
    BY Zenon, <1>1, <1>3 DEF Live, OthersKept
  <1>7. LiveInv' /\ GenerationInv'
    BY Zenon, <1>1, <1>2, <1>5, <1>6, LiveStays
  <1>8. HandlerOK(w)'
    BY Zenon, <1>4, WorkerMoved DEF HandlerOK, At, HandlerSteps
  <1>9. HandlersInv'
    BY Zenon, <1>1, <1>3, <1>4, <1>8, HolderActs, WorkerMoved
  <1> QED
    BY Zenon, <1>5, <1>7, <1>9 DEF Together

LEMMA FinishKeeps ==
    ASSUME PipelineInv, NEW w \in Workers, FinishJob(w)
    PROVE  Together'
  <1>1. PICK key \in JobKeys : key = worker[w].job /\ (IsHolder(w) => jobs[key].state = "running")
    BY Zenon, Holder DEF IsHolder, JobOf
  <1>2. /\ worker'[w].pc = "idle" /\ UNCHANGED storage
        /\ \A v \in Workers : v # w => worker'[v] = worker[v]
    BY Zenon, WorkerMoved DEF FinishJob
  <1>3. CASE IsHolder(w) /\ (SettleRetry(key) \/ SettleDefer(key) \/ SettleFail(key))
    BY Zenon, <1>1, <1>2, <1>3, SettleKeeps
  <1>4. CASE At(w, "ok") /\ HoldsLease(w) /\ CompleteLease(key)
    <2>1. ingest.status = "failed_terminal"
      BY Zenon, <1>4 DEF PipelineInv, Together, HandlersInv, HandlerOK
    <2> QED
      BY Zenon, <1>1, <1>2, <1>4, <2>1, SettleKeeps DEF HoldsLease
  <1>5. CASE UNCHANGED <<jobs, ingest, cleanup>>
    <2>1. HandlerOK(w)'
      BY Zenon, <1>2 DEF HandlerOK, At, HandlerSteps
    <2> QED
      BY Zenon, <1>2, <1>5, <2>1, WorkerOnly
  <1> QED
    BY Zenon, <1>1, <1>3, <1>4, <1>5 DEF FinishJob, HoldsLease

LEMMA RecoverKeeps ==
    ASSUME PipelineInv, NEW key \in JobKeys, RecoverJob(key)
    PROVE  Together'
  BY Zenon, SettleKeeps DEF RecoverJob


-----------------------------------------------------------------------------
(* complete_* *)

(* The rows after a completed stage *)
LEMMA RowsSucceeded ==
    ASSUME PipelineInv, NEW w \in Workers, NEW key \in JobKeys, key = worker[w].job
    PROVE  /\ Succeeded(w)[key].state = "succeeded"
           /\ \A other \in JobKeys : other # key => Succeeded(w)[other] = jobs[other]
           /\ Succeeded(w) \in [JobKeys -> JobRow]
  <1>1. jobs \in [JobKeys -> JobRow] /\ jobs[key] \in JobRow /\ jobs[key].attempt \in 0 .. MaxAttempts
    BY Zenon DEF PipelineInv, TypeOK, JobRow
  <1>2. Released("succeeded", jobs[key].attempt) \in JobRow
    BY Zenon, <1>1, RowReleased DEF GoodRow
  <1> QED
    BY Zenon, <1>1, <1>2 DEF Succeeded, Released

LEMMA RowsFollowed ==
    ASSUME PipelineInv, NEW w \in Workers, HoldsLease(w), NEW key \in JobKeys, key = worker[w].job,
           NEW stage \in Stages, Rank[stage] > Rank[key[1]],
           jobs' = SucceededThen(w, stage)
    PROVE  /\ jobs'[key].state = "succeeded"
           /\ jobs'[<<stage, ingest.force_save>>].state = "queued"
           /\ \A other \in JobKeys : other \notin {key, <<stage, ingest.force_save>>}
                 => jobs'[other] = jobs[other]
  <1> DEFINE next == <<stage, ingest.force_save>>
  <1>1. ingest.force_save \in BOOLEAN
    BY Zenon DEF PipelineInv, TypeOK, IngestRow
  <1>2. next \in JobKeys /\ next[1] = stage /\ next[2] = ingest.force_save
    BY Zenon, <1>1, Keys
  <1>3. Live(key) /\ key[2] = ingest.force_save
    BY Zenon, Holder DEF PipelineInv, Together, LiveInv
  <1>4. jobs[next].state = "absent"
    BY Zenon, <1>2, <1>3 DEF PipelineInv, Together, LiveInv
  <1>5. key # next
    BY Zenon, <1>3, <1>4 DEF Live
  <1>6. Succeeded(w)[next].state = "absent"
    BY Zenon, <1>2, <1>4, <1>5, RowsSucceeded
  <1>7. jobs' = [Succeeded(w) EXCEPT ![next] = NewJob]
    BY Zenon, <1>6 DEF SucceededThen, Enqueued
  <1>8. NewJob.state = "queued"
    BY Zenon DEF NewJob, NoJob
  <1> HIDE DEF next
  <1>9. /\ jobs'[key].state = "succeeded" /\ jobs'[next].state = "queued"
        /\ \A other \in JobKeys : other \notin {key, next} => jobs'[other] = jobs[other]
    BY <1>2, <1>5, <1>7, <1>8, RowsSucceeded
  <1> QED
    BY Zenon, <1>9 DEF next

(* The worker whose job is done holds no lease, and nobody did beside it. *)
LEMMA CompletedHandlers ==
    ASSUME PipelineInv, NEW w \in Workers, HoldsLease(w), worker' = Goto(w, "ok"),
           jobs'[worker[w].job].state # "running",
           \A other \in JobKeys : jobs'[other] = jobs[other] \/ jobs'[other].state # "running"
    PROVE  HandlersInv'
  <1>1. HandlerOK(w)'
    BY Zenon, WorkerMoved DEF HandlerOK, HoldsLease, IsHolder, JobOf
  <1> QED
    BY Zenon, <1>1, HolderActs, WorkerMoved

(* A row whose ingest is still undecided *)
LEMMA UndecidedRow ==
    ASSUME PipelineInv, NEW key \in JobKeys, Live(key), SameGeneration,
           ingest'.linked = ingest.linked, ingest'.accepted = ingest.accepted,
           ingest'.evidence = ingest.evidence,
           ingest'.status \notin {"duplicate_pending", "completed"},
           UNCHANGED storage, cleanup \subseteq cleanup',
           ingest'.status = "failed_terminal" => ingest.force_save \in cleanup'
    PROVE  DecisionInv' /\ RestIsCleanedUp'
  <1>1. ~ingest.linked /\ ~ingest.accepted /\ ~ingest.evidence
    BY Zenon, LiveJob
  <1> QED
    BY Zenon, <1>1 DEF DecisionInv, RestIsCleanedUp, SameGeneration

(* What a stage's result changes *)
LEMMA RecordedRow ==
    ASSUME PipelineInv, NEW artifact, NEW status,
           \/ ingest' = Recorded(artifact, status)
           \/ ingest' = [Recorded(artifact, status) EXCEPT !.error = "stage"]
    PROVE  /\ SameGeneration
           /\ ingest'.linked = ingest.linked /\ ingest'.accepted = ingest.accepted
           /\ ingest'.evidence = ingest.evidence /\ ingest'.status = status
           /\ ingest'.artifacts = ingest.artifacts \cup {artifact}
  BY ZenonT(40) DEF PipelineInv, TypeOK, IngestRow, Recorded, SameGeneration

(* The result is recorded and the next stage is due. *)
LEMMA RecordKeeps ==
    ASSUME PipelineInv, NEW w \in Workers, HoldsLease(w), worker' = Goto(w, "ok"),
           NEW stage \in Stages, Rank[stage] > Rank[Stage(w)],
           NEW artifact, Inputs(stage) = Inputs(Stage(w)) \cup {artifact},
           NEW status \in StartsFrom(stage), stage \in {"inspect", "download"} => FromUrl,
           ingest' = Recorded(artifact, status), jobs' = SucceededThen(w, stage),
           UNCHANGED <<storage, cleanup>>
    PROVE  Together'
  <1>1. PICK key \in JobKeys : key = worker[w].job /\ Live(key) /\ key[1] = Stage(w)
    BY Zenon, Holder DEF Stage
  <1>2. /\ SameGeneration
        /\ ingest'.linked = ingest.linked /\ ingest'.accepted = ingest.accepted
        /\ ingest'.evidence = ingest.evidence /\ ingest'.status = status
        /\ ingest'.artifacts = ingest.artifacts \cup {artifact}
    BY Zenon, RecordedRow
  <1>3. status \notin {"duplicate_pending", "completed", "failed_terminal"}
    BY Zenon, Starts
  <1>4. DecisionInv' /\ RestIsCleanedUp'
    BY Zenon, <1>1, <1>2, <1>3, UndecidedRow
  <1>5. /\ jobs'[key].state = "succeeded"
        /\ jobs'[<<stage, ingest.force_save>>].state = "queued"
        /\ \A other \in JobKeys : other \notin {key, <<stage, ingest.force_save>>}
              => jobs'[other] = jobs[other]
    BY SMTT(30), <1>1, RowsFollowed
  <1>6. HandlersInv'
    BY Zenon, <1>1, <1>5, CompletedHandlers
  <1>7. ingest'.artifacts = Inputs(stage)
    BY <1>1, <1>2, LiveJob
  <1>8. ~Live(key)'
    BY Zenon, <1>5 DEF Live
  <1>9. LiveInv' /\ GenerationInv'
    BY SMTT(40), <1>1, <1>2, <1>5, <1>7, <1>8, Advances
  <1> QED
    BY Zenon, <1>4, <1>6, <1>9 DEF Together


(* advance_after_media_processing: the ingest has its media. *)
LEMMA AdvancedRow ==
    ASSUME NEW row \in IngestRow, NEW found, AdvanceAfterMediaProcessing(row, found)
    PROVE  /\ ingest'.input = row.input /\ ingest'.force_save = row.force_save
           /\ ingest'.accepted = row.accepted /\ ingest'.evidence = row.evidence
           /\ ingest'.artifacts = row.artifacts /\ ingest'.linked
           /\ ingest'.status \in {"completed", "storing", "failed_terminal"}
           /\ storage' # "none"
           /\ ingest'.status # "storing" => row.force_save \in cleanup'
  BY ZenonT(40) DEF AdvanceAfterMediaProcessing, IngestRow

LEMMA MediaKeeps ==
    ASSUME PipelineInv, NEW w \in Workers, HoldsLease(w), worker' = Goto(w, "ok"),
           NEW row \in IngestRow, NEW found, AdvanceAfterMediaProcessing(row, found),
           row.input = ingest.input, row.force_save = ingest.force_save,
           row.accepted = ingest.accepted, ~row.evidence,
           jobs' = Succeeded(w)
    PROVE  Together'
  <1>1. PICK key \in JobKeys : key = worker[w].job /\ Live(key)
    BY Zenon, Holder
  <1>2. jobs'[key].state = "succeeded"
        /\ \A other \in JobKeys : other # key => jobs'[other] = jobs[other]
    BY Zenon, <1>1, RowsSucceeded
  <1>3. HandlersInv'
    BY Zenon, <1>1, <1>2, CompletedHandlers
  <1>4. ~ingest.accepted
    BY Zenon, <1>1, LiveJob
  <1>5. DecisionInv' /\ RestIsCleanedUp' /\ SameGeneration /\ ~InPipeline'
    BY Zenon, <1>4, AdvancedRow DEF DecisionInv, RestIsCleanedUp, SameGeneration, InPipeline
  <1>6. ~Live(key)' /\ OthersKept(key)
    BY Zenon, <1>2 DEF Live, OthersKept
  <1>7. LiveInv' /\ GenerationInv'
    BY Zenon, <1>1, <1>5, <1>6, NothingLeft
  <1> QED
    BY Zenon, <1>3, <1>5, <1>7 DEF Together

(* The job of the stage succeeds and the ingest rests without media. *)
LEMMA RestKeeps ==
    ASSUME PipelineInv, NEW w \in Workers, HoldsLease(w), worker' = Goto(w, "ok"),
           jobs' = Succeeded(w), DecisionInv', RestIsCleanedUp', SameGeneration, ~InPipeline'
    PROVE  Together'
  <1>1. PICK key \in JobKeys : key = worker[w].job /\ Live(key)
    BY Zenon, Holder
  <1>2. jobs'[key].state = "succeeded"
        /\ \A other \in JobKeys : other # key => jobs'[other] = jobs[other]
    BY Zenon, <1>1, RowsSucceeded
  <1>3. HandlersInv'
    BY Zenon, <1>1, <1>2, CompletedHandlers
  <1>4. ~Live(key)' /\ OthersKept(key)
    BY Zenon, <1>2 DEF Live, OthersKept
  <1>5. LiveInv' /\ GenerationInv'
    BY Zenon, <1>1, <1>4, NothingLeft
  <1> QED
    BY Zenon, <1>3, <1>5 DEF Together

(* The stages in their order and what each adds to the inputs *)
LEMMA StageOrder ==
    /\ Rank["download"] > Rank["inspect"] /\ Rank["probe"] > Rank["download"]
    /\ Rank["normalize"] > Rank["probe"] /\ Rank["fingerprint"] > Rank["normalize"]
    /\ Rank["finalize"] > Rank["normalize"]
    /\ Inputs("download") = Inputs("inspect") \cup {"inspection"}
    /\ Inputs("normalize") = Inputs("probe") \cup {"probe"}
    /\ Inputs("fingerprint") = Inputs("normalize") \cup {"normalization"}
    /\ Inputs("finalize") = Inputs("normalize") \cup {"normalization"}
    /\ FromUrl => Inputs("probe") = Inputs("download") \cup {"download"}
    /\ "downloading" \in StartsFrom("download") \cap StartsFrom("probe")
    /\ "normalizing" \in StartsFrom("normalize")
    /\ "fingerprinting" \in StartsFrom("fingerprint") /\ "storing" \in StartsFrom("finalize")
  <1>1. /\ Rank["download"] > Rank["inspect"] /\ Rank["probe"] > Rank["download"]
        /\ Rank["normalize"] > Rank["probe"] /\ Rank["fingerprint"] > Rank["normalize"]
        /\ Rank["finalize"] > Rank["normalize"]
    BY DEF Rank
  <1>2. /\ Inputs("download") = Inputs("inspect") \cup {"inspection"}
        /\ Inputs("normalize") = Inputs("probe") \cup {"probe"}
        /\ Inputs("fingerprint") = Inputs("normalize") \cup {"normalization"}
        /\ Inputs("finalize") = Inputs("normalize") \cup {"normalization"}
        /\ FromUrl => Inputs("probe") = Inputs("download") \cup {"download"}
    BY Zenon DEF Inputs, Fetched
  <1>3. /\ "downloading" \in StartsFrom("download") \cap StartsFrom("probe")
        /\ "normalizing" \in StartsFrom("normalize")
        /\ "fingerprinting" \in StartsFrom("fingerprint") /\ "storing" \in StartsFrom("finalize")
    BY Zenon DEF StartsFrom, DownloadStarts, ProbeStarts, NormalizationStarts, FingerprintingStarts,
           FinalizationStarts
  <1> QED
    BY Zenon, <1>1, <1>2, <1>3


LEMMA CompleteKeeps ==
    ASSUME PipelineInv, NEW w \in Workers, Complete(w), MayComplete(w)
    PROVE  Together'
  <1>1. HoldsLease(w) /\ worker' = Goto(w, "ok")
    BY Zenon DEF Complete, MayComplete
  <1>2. PICK key \in JobKeys : key = worker[w].job /\ Live(key) /\ key[1] = Stage(w)
    BY Zenon, <1>1, Holder DEF Stage
  <1>3. /\ Stage(w) \in {"inspect", "download"} => FromUrl
        /\ ~ingest.linked /\ ~ingest.accepted /\ ~ingest.evidence
    BY Zenon, <1>2, LiveJob
  <1>4. ingest \in IngestRow
    BY Zenon DEF PipelineInv, TypeOK
  <1>5. CASE Stage(w) = "inspect" /\ CompleteInspection(w)
    BY Zenon, <1>1, <1>3, <1>5, StageOrder, RecordKeeps DEF CompleteInspection, Stages
  <1>6. CASE Stage(w) = "download" /\ CompleteDownload(w)
    BY Zenon, <1>1, <1>3, <1>6, StageOrder, RecordKeeps DEF CompleteDownload, Stages
  <1>7. CASE Stage(w) = "probe" /\ CompleteProbe(w)
    <2>1. CASE /\ ingest' = Recorded("probe", "normalizing")
               /\ jobs' = SucceededThen(w, "normalize") /\ UNCHANGED <<storage, cleanup>>
      BY Zenon, <1>1, <1>7, <2>1, StageOrder, RecordKeeps DEF Stages
    <2>2. CASE /\ ingest' = [Recorded("probe", "failed_terminal") EXCEPT !.error = "stage"]
               /\ jobs' = Succeeded(w) /\ cleanup' = cleanup \cup {ingest.force_save}
               /\ UNCHANGED storage
      <3>1. /\ SameGeneration /\ ingest'.linked = ingest.linked
            /\ ingest'.accepted = ingest.accepted /\ ingest'.evidence = ingest.evidence
            /\ ingest'.status = "failed_terminal"
        BY Zenon, <2>2, RecordedRow
      <3>2. DecisionInv' /\ RestIsCleanedUp'
        BY Zenon, <1>2, <2>2, <3>1, UndecidedRow
      <3>3. ~InPipeline'
        BY Zenon, <3>1 DEF InPipeline
      <3> QED
        BY Zenon, <1>1, <2>2, <3>1, <3>2, <3>3, RestKeeps
    <2> QED
      BY Zenon, <1>7, <2>1, <2>2 DEF CompleteProbe
  <1>8. CASE Stage(w) = "normalize" /\ CompleteNormalization(w)
    <2>1. CASE Video
      BY Zenon, <1>1, <1>8, <2>1, StageOrder, RecordKeeps DEF CompleteNormalization, Stages
    <2>2. CASE ~Video
      BY Zenon, <1>1, <1>8, <2>2, StageOrder, RecordKeeps DEF CompleteNormalization, Stages
    <2> QED
      BY Zenon, <2>1, <2>2
  <1>9. CASE CompleteFinalization(w)
    <2> DEFINE row == [ingest EXCEPT !.artifacts = @ \cup {"finalization"}, !.error = "none"]
    <2>1. row \in IngestRow
      BY Zenon, <1>4 DEF IngestRow, Artifacts
    <2>2. /\ row.input = ingest.input /\ row.force_save = ingest.force_save
          /\ row.accepted = ingest.accepted /\ ~row.evidence
      BY Zenon, <1>3, <1>4 DEF IngestRow
    <2>3. AdvanceAfterMediaProcessing(row, storage) /\ jobs' = Succeeded(w)
      BY Zenon, <1>9 DEF CompleteFinalization
    <2> HIDE DEF row
    <2> QED
      BY Zenon, <1>1, <2>1, <2>2, <2>3, MediaKeeps
  <1>10. CASE CompleteIdentity(w)
    <2>1. jobs' = Succeeded(w)
      BY Zenon, <1>10 DEF CompleteIdentity
    <2> DEFINE row == [ingest EXCEPT !.evidence = FALSE, !.error = "none"]
    <2>2. row \in IngestRow
      BY Zenon, <1>4 DEF IngestRow
    <2>3. /\ row.input = ingest.input /\ row.force_save = ingest.force_save
          /\ row.accepted = ingest.accepted /\ ~row.evidence
      BY Zenon, <1>4 DEF IngestRow
    <2>4. ASSUME NEW found, AdvanceAfterMediaProcessing(row, found) PROVE Together'
      <3> HIDE DEF row
      <3> QED
        BY Zenon, <1>1, <2>1, <2>2, <2>3, <2>4, MediaKeeps
    <2>5. CASE /\ ~ingest.force_save
               /\ ingest' = [ingest EXCEPT !.status = "duplicate_pending", !.linked = FALSE,
                                           !.evidence = TRUE, !.error = "none"]
               /\ cleanup' = cleanup \cup {ingest.force_save} /\ UNCHANGED storage
      <3>1. /\ SameGeneration /\ ~ingest'.linked /\ ingest'.accepted = ingest.accepted
            /\ ingest'.evidence /\ ingest'.status = "duplicate_pending"
        BY Zenon, <1>4, <2>5 DEF IngestRow, SameGeneration
      <3>2. DecisionInv' /\ RestIsCleanedUp' /\ ~InPipeline'
        BY <1>3, <2>5, <3>1 DEF DecisionInv, RestIsCleanedUp, SameGeneration, InPipeline
      <3> QED
        BY Zenon, <1>1, <2>1, <3>1, <3>2, RestKeeps
    <2> QED
      BY Zenon, <1>10, <2>4, <2>5 DEF CompleteIdentity
  <1> QED
    BY Zenon, <1>5, <1>6, <1>7, <1>8, <1>9, <1>10 DEF Complete


-----------------------------------------------------------------------------
(* The administrator and the storage *)

(* No stage job is live: only the ingest row and the media change. *)
LEMMA NoJobLeft ==
    ASSUME PipelineInv, UNCHANGED <<jobs, worker>>, SameGeneration,
           \A key \in JobKeys : ~Live(key), ~InPipeline', DecisionInv', RestIsCleanedUp'
    PROVE  Together'
  <1>1. LiveInv' /\ GenerationInv'
    BY Zenon DEF PipelineInv, Together, LiveInv, GenerationInv, Live, SameGeneration
  <1>2. \A w \in Workers : ~HoldsLease(w) /\ HoldsLease(w)' = HoldsLease(w)
    BY Zenon, Holder DEF HoldsLease, IsHolder, JobOf
  <1>3. HandlersInv'
    BY Zenon, <1>2 DEF HandlersInv, HandlerOK
  <1> QED
    BY Zenon, <1>1, <1>3 DEF Together

(* An ingest that has its media, or is asked about, has no live job. *)
LEMMA NoLiveJob ==
    ASSUME PipelineInv, ingest.linked \/ ingest.status = "duplicate_pending"
    PROVE  \A key \in JobKeys : ~Live(key)
  BY Zenon, LiveJob

LEMMA AcceptKeeps ==
    ASSUME PipelineInv, AcceptDuplicate
    PROVE  Together'
  <1>1. ~ingest.linked /\ ~ingest.force_save /\ ingest.force_save \in cleanup
    BY Zenon DEF PipelineInv, Together, DecisionInv, RestIsCleanedUp, AcceptDuplicate
  <1>2. ingest \in IngestRow
    BY Zenon DEF PipelineInv, TypeOK
  <1>3. /\ SameGeneration /\ ingest'.linked /\ ~ingest'.evidence /\ storage' # "none"
        /\ ingest'.status \in {"completed", "storing"}
        /\ UNCHANGED <<jobs, cleanup, worker>>
    BY Zenon, <1>2 DEF AcceptDuplicate, IngestRow, SameGeneration
  <1>4. DecisionInv' /\ RestIsCleanedUp' /\ ~InPipeline'
    BY Zenon, <1>1, <1>3 DEF DecisionInv, RestIsCleanedUp, SameGeneration, InPipeline
  <1> QED
    BY Zenon, <1>3, <1>4, NoJobLeft, NoLiveJob DEF AcceptDuplicate

(* force_save: the second generation has no job yet, and the first none    *)
(* that is live.                                                           *)
LEMMA ForceKeeps ==
    ASSUME PipelineInv, ForceSave
    PROVE  Together'
  <1>1. ~ingest.linked /\ ~ingest.force_save /\ ~ingest.accepted
    BY Zenon DEF PipelineInv, Together, DecisionInv, ForceSave
  <1>2. ingest \in IngestRow /\ jobs \in [JobKeys -> JobRow]
    BY Zenon DEF PipelineInv, TypeOK
  <1>3. /\ ingest'.input = ingest.input /\ ingest'.force_save /\ ~ingest'.linked
        /\ ~ingest'.accepted /\ ~ingest'.evidence /\ ingest'.status = "queued"
        /\ ingest'.artifacts = {}
    BY Zenon, <1>1, <1>2 DEF ForceSave, IngestRow
  <1>4. PICK key \in JobKeys : key = <<FirstStage, TRUE>> /\ key[1] = FirstStage /\ key[2] = TRUE
    BY Zenon, Keys DEF FirstStage, Stages
  <1>5. \A other \in JobKeys : ~Live(other) /\ (other[2] => jobs[other].state = "absent")
    BY Zenon, <1>1, NoLiveJob DEF PipelineInv, Together, GenerationInv, ForceSave
  <1>6. jobs' = [jobs EXCEPT ![key] = NewJob]
    BY Zenon, <1>4, <1>5 DEF ForceSave, Enqueued
  <1>7. NewJob.state = "queued"
    BY Zenon DEF NewJob, NoJob
  <1>8. jobs'[key].state = "queued" /\ \A other \in JobKeys : other # key => jobs'[other] = jobs[other]
    BY Zenon, <1>2, <1>6, <1>7
  <1>9. /\ Live(key)' /\ \A other \in JobKeys : Live(other)' => other = key
        /\ \A other \in JobKeys : other[2] /\ other # key => jobs'[other].state = "absent"
    BY Zenon, <1>5, <1>8 DEF Live
  <1>10. /\ "queued" \in StartsFrom(FirstStage) /\ Inputs(FirstStage)' = {}
         /\ FirstStage \in {"inspect", "download"} => FromUrl'
    BY Zenon, <1>3 DEF FirstStage, StartsFrom, InspectionStarts, ProbeStarts, Inputs, Fetched,
       FromUrl
  <1>11. LiveInv'
    <2>1. \A other \in JobKeys : Rank[other[1]] > Rank[key[1]] => other # key
      <3>1. \A other \in JobKeys : Rank[other[1]] \in Int
        BY Keys DEF Rank, Stages
      <3> QED
        BY <3>1
    <2>2. ASSUME NEW other \in JobKeys, other[2] = key[2], Rank[other[1]] > Rank[key[1]]
          PROVE  jobs'[other].state = "absent"
      BY Zenon, <1>4, <1>9, <2>1, <2>2
    <2>3. Inputs(key[1])' = {} /\ "queued" \in StartsFrom(key[1])
          /\ (key[1] \in {"inspect", "download"} => FromUrl')
      BY Zenon, <1>3, <1>4, <1>10 DEF FirstStage, Inputs, Fetched, FromUrl
    <2> QED
      BY Zenon, <1>3, <1>4, <1>9, <2>2, <2>3 DEF LiveInv
  <1>12. GenerationInv' /\ DecisionInv' /\ RestIsCleanedUp'
    BY Zenon, <1>3, <1>9 DEF GenerationInv, DecisionInv, RestIsCleanedUp
  <1>13. HandlersInv'
    <2>1. ASSUME NEW w \in Workers PROVE ~HoldsLease(w)'
      <3>1. worker' = worker /\ worker[w].job \in JobKeys
        BY Zenon, Holder DEF ForceSave
      <3> QED
        BY Zenon, <1>5, <1>8, <3>1 DEF HoldsLease, IsHolder, JobOf, Live
    <2> QED
      BY Zenon, <2>1 DEF HandlersInv, HandlerOK
  <1> QED
    BY Zenon, <1>11, <1>12, <1>13 DEF Together

(* What becomes of the upload: an ingest without media is not concerned,   *)
(* and one that has it has no live job.                                    *)
LEMMA StorageKeeps ==
    ASSUME PipelineInv,
           StorageReady \/ StorageRetries \/ StorageMissing \/ StorageUnknown \/ StorageReset
    PROVE  Together'
  <1>1. ingest \in IngestRow
    BY Zenon DEF PipelineInv, TypeOK
  <1>2. /\ UNCHANGED <<jobs, worker>> /\ storage' # "none" /\ cleanup \subseteq cleanup'
        /\ \/ UNCHANGED ingest
           \/ /\ ingest.linked
              /\ \E status \in {"completed", "storing", "failed_retryable", "failed_terminal"},
                    error \in {"none", "storage"} :
                       ingest' = [ingest EXCEPT !.status = status, !.error = error]
        /\ ingest.linked =>
              \/ ingest.force_save \in cleanup'
              \/ storage' \in {"pending", "unknown"}
    BY Zenon DEF StorageReady, StorageRetries, StorageMissing, StorageUnknown, StorageReset,
           WaitsForStorage
  <1>3. /\ SameGeneration /\ ingest'.linked = ingest.linked
        /\ ingest'.accepted = ingest.accepted /\ ingest'.evidence = ingest.evidence
        /\ \/ ingest'.status = ingest.status
           \/ /\ ingest.linked
              /\ ingest'.status \in {"completed", "storing", "failed_retryable", "failed_terminal"}
    BY Zenon, <1>1, <1>2 DEF IngestRow, SameGeneration
  <1>4. DecisionInv'
    BY Zenon, <1>2, <1>3 DEF PipelineInv, Together, DecisionInv, SameGeneration
  <1>5. RestIsCleanedUp'
    BY Zenon, <1>2, <1>3 DEF PipelineInv, Together, DecisionInv, RestIsCleanedUp, SameGeneration
  <1>6. CASE ingest.linked
    <2>1. ~InPipeline'
      BY Zenon, <1>3, <1>6 DEF PipelineInv, Together, DecisionInv, InPipeline
    <2> QED
      BY Zenon, <1>2, <1>3, <1>4, <1>5, <1>6, <2>1, NoJobLeft, NoLiveJob
  <1>7. CASE ~ingest.linked
    <2>1. UNCHANGED ingest
      BY Zenon, <1>2, <1>7
    <2>2. LiveInv' /\ GenerationInv' /\ HandlersInv'
      BY ZenonT(40), <1>2, <2>1 DEF PipelineInv, Together, LiveInv, GenerationInv, HandlersInv,
         HandlerOK,
         HoldsLease, IsHolder, JobOf, Stage, At, Live, InPipeline, Inputs, Fetched, FromUrl
    <2> QED
      BY Zenon, <1>4, <1>5, <2>2 DEF Together
  <1> QED
    BY Zenon, <1>6, <1>7


-----------------------------------------------------------------------------
(* The invariant and what follows from it *)

LEMMA PipelineInvInit == Init => PipelineInv
  <1> SUFFICES ASSUME Init PROVE PipelineInv
    BY Zenon
  <1>1. PICK input \in Submitted :
            ingest = [input |-> input, status |-> "queued", force_save |-> FALSE,
                      artifacts |-> {}, linked |-> FALSE, evidence |-> FALSE,
                      accepted |-> FALSE, error |-> "none"]
    BY Zenon DEF Init
  <1>2. PICK key \in JobKeys : key = <<FirstStage, FALSE>> /\ key[1] = FirstStage /\ key[2] = FALSE
    BY ZenonT(40), Keys DEF FirstStage, Stages
  <1>3. NoJob \in JobRow /\ NoJob.state = "absent" /\ NoJob.attempt = 0
    BY PipelineAttemptsAssumption DEF NoJob, JobRow
  <1>4. JobsTyped(NoJobs)
    BY Zenon, <1>3 DEF JobsTyped, GoodRow, NoJobs
  <1>5. JobsTyped(jobs)
    BY Zenon, <1>2, <1>4, RowEnqueued DEF Init
  <1>6. jobs = [NoJobs EXCEPT ![key] = NewJob]
    BY Zenon, <1>2, <1>3 DEF Init, Enqueued, NoJobs
  <1>7. NewJob.state = "queued"
    BY Zenon DEF NewJob, NoJob
  <1>8. jobs[key].state = "queued" /\ \A other \in JobKeys : other # key => jobs[other].state = "absent"
    BY Zenon, <1>3, <1>6, <1>7 DEF NoJobs
  <1>9. Live(key) /\ \A other \in JobKeys : Live(other) => other = key
    BY Zenon, <1>8 DEF Live
  <1>10. ingest \in IngestRow
    BY Zenon, <1>1 DEF IngestRow, Statuses
  <1>11. Idle \in Worker
    BY Zenon DEF Idle, Worker, NoKey, JobKeys, Stages
  <1>12. TypeOK /\ RowsInv
    BY Zenon, <1>5, <1>10, <1>11 DEF Init, TypeOK, RowsInv, JobsTyped, GoodRow, StorageStates
  <1>13. LiveInv
    <2>1. \A other \in JobKeys : Rank[other[1]] \in Int
      BY Keys DEF Rank, Stages
    <2>2. \A other \in JobKeys : Rank[other[1]] > Rank[key[1]] => jobs[other].state = "absent"
      BY <1>8, <2>1
    <2>3. /\ "queued" \in StartsFrom(key[1]) /\ Inputs(key[1]) = {}
          /\ key[1] \in {"inspect", "download"} => FromUrl
      BY Zenon, <1>2 DEF FirstStage, StartsFrom, InspectionStarts, ProbeStarts, Inputs, Fetched
    <2> QED
      BY Zenon, <1>1, <1>2, <1>9, <2>2, <2>3 DEF LiveInv
  <1>14. GenerationInv
    BY Zenon, <1>1, <1>2, <1>8, <1>9 DEF GenerationInv
  <1>15. DecisionInv /\ RestIsCleanedUp
    BY Zenon, <1>1 DEF DecisionInv, RestIsCleanedUp
  <1>16. HandlersInv
    BY Zenon DEF Init, HandlersInv, HandlerOK, Idle, At, HandlerSteps
  <1> QED
    BY Zenon, <1>12, <1>13, <1>14, <1>15, <1>16 DEF PipelineInv, Together

LEMMA PipelineInvNext == PipelineInv /\ [Next]_vars => PipelineInv'
  <1> SUFFICES ASSUME PipelineInv, [Next]_vars PROVE PipelineInv'
    BY Zenon
  <1>1. TypeOK' /\ RowsInv'
    BY Zenon, TypesStay DEF PipelineInv
  <1> SUFFICES Together'
    BY Zenon, <1>1 DEF PipelineInv
  <1>2. ASSUME NEW w \in Workers, NEW key \in JobKeys, ClaimNext(w, key) PROVE Together'
    BY Zenon, <1>2, ClaimKeeps
  <1>3. ASSUME NEW key \in JobKeys, LeaseExpires(key) \/ RecoverJob(key) PROVE Together'
    BY Zenon, <1>3, ExpiryKeeps, RecoverKeeps
  <1>4. ASSUME NEW w \in Workers,
               Work(w) \/ Crash(w) \/ Shutdown(w) \/ RefuseAdmission(w) \/ TransactionFails(w)
        PROVE  Together'
    BY Zenon, <1>4, MemorySteps
  <1>5. ASSUME NEW w \in Workers, Begin(w) PROVE Together'
    BY Zenon, <1>5, BeginKeeps, MemorySteps
  <1>6. ASSUME NEW w \in Workers, FailIngestStep(w) PROVE Together'
    BY Zenon, <1>6, FailKeeps, MemorySteps
  <1>7. ASSUME NEW w \in Workers, Complete(w) PROVE Together'
    BY Zenon, <1>7, CompleteKeeps, MemorySteps
  <1>8. ASSUME NEW w \in Workers, FinishJob(w) PROVE Together'
    BY Zenon, <1>8, FinishKeeps
  <1>9. CASE ForceSave \/ AcceptDuplicate
    BY Zenon, <1>9, ForceKeeps, AcceptKeeps
  <1>10. CASE StorageReady \/ StorageRetries \/ StorageMissing \/ StorageUnknown \/ StorageReset
    BY Zenon, <1>10, StorageKeeps
  <1>11. CASE UNCHANGED vars
    BY ZenonT(40), <1>11 DEF vars, PipelineInv, Together, LiveInv, GenerationInv, DecisionInv,
       HandlersInv,
       HandlerOK, RestIsCleanedUp, HoldsLease, IsHolder, JobOf, Stage, At, Live, InPipeline,
       Inputs, Fetched, FromUrl
  <1> QED
    BY Zenon, <1>2, <1>3, <1>4, <1>5, <1>6, <1>7, <1>8, <1>9, <1>10, <1>11 DEF Next, HandlerStep

(* The rows of jobs, the ingest row and the workers' memory keep their     *)
(* types, and go together as PipelineInv says.                             *)
THEOREM PipelineInvariant == Spec => [](TypeOK /\ PipelineInv)
  <1>1. PipelineInv => TypeOK
    BY Zenon DEF PipelineInv
  <1> QED
    BY <1>1, PipelineInvInit, PipelineInvNext, PTL DEF Spec

(* An ingest in the pipeline always has a stage job that is running or can *)
(* be claimed, and whose begin_* accepts the ingest as it is.              *)
THEOREM IngestNeverStranded == Spec => []NeverStranded
  <1>1. PipelineInv => NeverStranded
    <2> SUFFICES ASSUME PipelineInv, InPipeline
                 PROVE  \E key \in JobKeys :
                            /\ jobs[key].state = "running" \/ (jobs[key].state = "queued"
                                                                /\ jobs[key].attempt < MaxAttempts)
                            /\ MayRun(key[1])
      BY Zenon DEF NeverStranded
    <2>1. PICK key \in JobKeys : Live(key)
      BY Zenon DEF PipelineInv, Together, GenerationInv
    <2>2. jobs[key].state = "running" \/ (jobs[key].state = "queued" /\ jobs[key].attempt < MaxAttempts)
      BY Zenon, <2>1 DEF PipelineInv, RowsInv, Live
    <2>3. ingest.status # "failed_terminal"
      BY Zenon DEF InPipeline
    <2>4. MayRun(key[1])
      BY Zenon, <2>1, <2>3, LiveJob, NoResultYet DEF MayRun
    <2> QED
      BY Zenon, <2>2, <2>4
  <1> QED
    BY <1>1, PipelineInvariant, PTL


(* A probable duplicate is accepted or forced, never both, and its         *)
(* evidence is kept exactly while the decision is open.                    *)
THEOREM DecidedOnce == Spec => []OneDuplicateDecision
  <1>1. PipelineInv => OneDuplicateDecision
    BY Zenon DEF PipelineInv, Together, DecisionInv, OneDuplicateDecision
  <1> QED
    BY <1>1, PipelineInvariant, PTL

(* At most one stage job of the ingest is live, in its generation, and the *)
(* results its handler reads were recorded in that generation.             *)
THEOREM OneStageAtATime == Spec => [](OneLiveStageJob /\ StageInputsRecorded)
  <1>1. PipelineInv => OneLiveStageJob
    BY Zenon DEF PipelineInv, Together, LiveInv, OneLiveStageJob
  <1>2. ASSUME PipelineInv PROVE StageInputsRecorded
    <2> SUFFICES ASSUME NEW key \in JobKeys, Live(key)
                 PROVE  /\ key[1] = "download" => Has("inspection") /\ ~Has("download")
                        /\ key[1] = "probe" /\ FromUrl => Has("download")
                        /\ key[1] = "normalize" => Has("probe") /\ ~Has("normalization")
                        /\ key[1] \in {"fingerprint", "finalize"} => Has("normalization")
      BY Zenon DEF StageInputsRecorded
    <2>1. ingest.artifacts = Inputs(key[1])
      BY Zenon, <1>2, LiveJob
    <2> QED
      BY <2>1 DEF Has, Inputs, Fetched
  <1> QED
    BY <1>1, <1>2, PipelineInvariant, PTL

(* An ingest at rest has a cleanup job for its workspace unless the upload *)
(* may still need the files.                                               *)
THEOREM RestCleanedUp == Spec => []RestIsCleanedUp
  <1>1. PipelineInv => RestIsCleanedUp
    BY Zenon DEF PipelineInv, Together
  <1> QED
    BY <1>1, PipelineInvariant, PTL

(* No worker moves the ingest on without the live lease of its job:        *)
(* begin_*, complete_*, fail_* and the settlement are fenced.              *)
THEOREM WorkersAreFenced == Spec => OnlyLeaseHoldersAdvance
  <1> DEFINE Fenced == \A w \in Workers :
                          worker'[w] # worker[w] /\ ingest' # ingest => HoldsLease(w)
  <1>1. ASSUME PipelineInv, [Next]_vars PROVE Fenced \/ UNCHANGED vars
    <2>1. ASSUME NEW w \in Workers, \A v \in Workers : v # w => worker'[v] = worker[v],
                 ingest' # ingest => HoldsLease(w)
          PROVE  Fenced
      BY Zenon, <2>1
    <2>2. CASE UNCHANGED ingest \/ UNCHANGED worker
      BY Zenon, <2>2
    <2>3. ASSUME NEW w \in Workers, HandlerStep(w), ~UNCHANGED ingest PROVE Fenced
      <3>1. \/ \E pc : worker' = Goto(w, pc)
            \/ worker' = [worker EXCEPT ![w] = Idle]
        BY Zenon, <2>3 DEF HandlerStep, Begin, Work, FailIngestStep, Complete, FinishJob
      <3>2. \A v \in Workers : v # w => worker'[v] = worker[v]
        BY Zenon, <1>1, <3>1, WorkerMoved
      <3>3. HoldsLease(w)
        BY Zenon, <2>3 DEF HandlerStep, Begin, MayBegin, Work, FailIngestStep, MayFail, IngestKept,
           Complete, MayComplete, FinishJob, SettleDefer
      <3> QED
        BY Zenon, <2>1, <3>2, <3>3
    <2> HIDE DEF Fenced
    <2> QED
      BY Zenon, <1>1, <2>2, <2>3 DEF Next, ClaimNext, LeaseExpires, RecoverJob, Crash, Shutdown,
         RefuseAdmission, TransactionFails, ForceSave, AcceptDuplicate, StorageReady,
         StorageRetries, StorageMissing, StorageUnknown, StorageReset
  <1> QED
    BY <1>1, PipelineInvariant, PTL DEF Spec, OnlyLeaseHoldersAdvance


-----------------------------------------------------------------------------
(* The pipeline implements IngestProgress *)

(* The phase of a row, one status after the other *)
PhaseOf(row) ==
    CASE \/ row.status \in {"queued", "downloading", "probing", "normalizing", "fingerprinting"}
         \/ row.status \in {"storing", "failed_retryable"} /\ ~row.linked -> "pipeline"
      [] row.status = "duplicate_pending" -> "decision"
      [] row.linked /\ row.status = "completed" -> "stored"
      [] row.linked /\ row.status = "failed_terminal" -> "unstored"
      [] row.linked /\ row.status \in {"storing", "failed_retryable"} -> "waiting"
      [] OTHER -> "failed"

LEMMA PhaseIsPhaseOf == Phase = PhaseOf(ingest) /\ Phase' = PhaseOf(ingest')
  BY Zenon DEF Phase, PhaseOf, InPipeline

LEMMA PhaseCases ==
    ASSUME NEW row
    PROVE  /\ ~row.linked /\ row.status \in {"queued", "downloading", "probing", "normalizing",
                                             "fingerprinting", "storing", "failed_retryable"}
                 => PhaseOf(row) = "pipeline"
           /\ row.status = "duplicate_pending" => PhaseOf(row) = "decision"
           /\ row.linked /\ row.status = "completed" => PhaseOf(row) = "stored"
           /\ row.linked /\ row.status = "failed_terminal" => PhaseOf(row) = "unstored"
           /\ row.linked /\ row.status \in {"storing", "failed_retryable"}
                 => PhaseOf(row) = "waiting"
           /\ ~row.linked /\ row.status = "failed_terminal" => PhaseOf(row) = "failed"
  BY Zenon DEF PhaseOf

(* A recorded result is one more. *)
LEMMA OneMore ==
    ASSUME PipelineInv, NEW artifact, artifact \notin ingest.artifacts,
           ingest'.artifacts = ingest.artifacts \cup {artifact}
    PROVE  Cardinality(ingest'.artifacts) = Cardinality(ingest.artifacts) + 1
  <1>1. IsFiniteSet(Artifacts)
    <2>1. IsFiniteSet({})
      BY Zenon, FS_EmptySet
    <2>2. IsFiniteSet({} \cup {"inspection"})
      BY Zenon, <2>1, FS_AddElement
    <2>3. IsFiniteSet({} \cup {"inspection"} \cup {"download"})
      BY Zenon, <2>2, FS_AddElement
    <2>4. IsFiniteSet({} \cup {"inspection"} \cup {"download"} \cup {"probe"})
      BY Zenon, <2>3, FS_AddElement
    <2>5. IsFiniteSet({} \cup {"inspection"} \cup {"download"} \cup {"probe"} \cup {"normalization"})
      BY Zenon, <2>4, FS_AddElement
    <2>6. IsFiniteSet({} \cup {"inspection"} \cup {"download"} \cup {"probe"} \cup {"normalization"}
                         \cup {"finalization"})
      BY Zenon, <2>5, FS_AddElement
    <2>7. Artifacts = {} \cup {"inspection"} \cup {"download"} \cup {"probe"} \cup {"normalization"}
                         \cup {"finalization"}
      BY Zenon DEF Artifacts
    <2> QED
      BY Zenon, <2>6, <2>7
  <1>2. ingest.artifacts \subseteq Artifacts
    BY Zenon DEF PipelineInv, TypeOK, IngestRow
  <1>3. IsFiniteSet(ingest.artifacts)
    BY Zenon, <1>1, <1>2, FS_Subset
  <1> QED
    BY Zenon, <1>3, FS_AddElement

(* The steps of the pipeline under IngestProgress: nothing to see, ... *)
LEMMA Stutters ==
    ASSUME Phase' = Phase, ingest'.artifacts = ingest.artifacts,
           ingest'.force_save = ingest.force_save
    PROVE  UNCHANGED Progress!vars
  BY Zenon DEF Progress!vars

(* ... a stage that begins or fails: only the status moves, ... *)
LEMMA StatusMoves ==
    ASSUME PipelineInv, NEW key \in JobKeys, Live(key), ingest.status # "failed_terminal",
           NEW status \in StartsFrom(key[1]) \cup {"failed_terminal"}, NEW error,
           ingest' = [ingest EXCEPT !.status = status, !.error = error]
    PROVE  [Progress!Next]_(Progress!vars)
  <1>1. ~ingest.linked /\ ingest.status \in StartsFrom(key[1]) /\ key[1] \in Stages
    BY Zenon, LiveJob, Keys
  <1>2. /\ ~ingest'.linked /\ ingest'.status = status /\ ingest'.artifacts = ingest.artifacts
        /\ ingest'.force_save = ingest.force_save
    BY Zenon, <1>1 DEF PipelineInv, TypeOK, IngestRow
  <1>3. Phase = "pipeline"
    BY Zenon, <1>1, Starts, PhaseIsPhaseOf, PhaseCases
  <1>4. CASE status = "failed_terminal"
    <2>1. Phase' = "failed"
      BY Zenon, <1>2, <1>4, PhaseIsPhaseOf, PhaseCases
    <2> QED
      BY Zenon, <1>2, <1>3, <2>1 DEF Progress!Next, Progress!GiveUp
  <1>5. CASE status # "failed_terminal"
    <2>1. Phase' = "pipeline"
      BY Zenon, <1>1, <1>2, <1>5, Starts, PhaseIsPhaseOf, PhaseCases
    <2> QED
      BY Zenon, <1>2, <1>3, <2>1, Stutters
  <1> QED
    BY Zenon, <1>4, <1>5


(* ... a stage that records its result, ... *)
LEMMA ResultsGrow ==
    ASSUME PipelineInv, Phase = "pipeline", NEW artifact, artifact \notin ingest.artifacts,
           ingest'.artifacts = ingest.artifacts \cup {artifact},
           Phase' \in {"pipeline", "failed"} \cup Progress!HasMedia,
           ingest'.force_save = ingest.force_save
    PROVE  Progress!Next
  BY Zenon, OneMore DEF Progress!Next, Progress!Record

(* ... and the last stage, with the media or with a question. *)
LEMMA CompleteRefines ==
    ASSUME PipelineInv, NEW w \in Workers, Complete(w), MayComplete(w)
    PROVE  Progress!Next
  <1>1. PICK key \in JobKeys : Live(key) /\ key[1] = Stage(w)
    BY Zenon, Holder DEF MayComplete, Stage
  <1>2. /\ ~ingest.linked /\ ingest.artifacts = Inputs(Stage(w))
        /\ ingest.status = Working[Stage(w)] /\ Stage(w) \in Stages
    BY Zenon, <1>1, LiveJob, Keys DEF MayComplete
  <1>3. Phase = "pipeline"
    BY Zenon, <1>2, Starts, PhaseIsPhaseOf, PhaseCases
  <1>4. ASSUME NEW artifact, artifact \notin ingest.artifacts,
               NEW status \in {"downloading", "normalizing", "fingerprinting", "storing",
                               "failed_terminal"},
               \/ ingest' = Recorded(artifact, status)
               \/ ingest' = [Recorded(artifact, status) EXCEPT !.error = "stage"]
        PROVE  Progress!Next
    <2>1. /\ ~ingest'.linked /\ ingest'.status = status
          /\ ingest'.artifacts = ingest.artifacts \cup {artifact}
          /\ ingest'.force_save = ingest.force_save
      BY <1>2, <1>4, RecordedRow DEF SameGeneration
    <2>2. Phase' \in {"pipeline", "failed"}
      BY Zenon, <2>1, PhaseIsPhaseOf, PhaseCases
    <2> QED
      BY Zenon, <1>3, <1>4, <2>1, <2>2, ResultsGrow
  <1>5. CASE Stage(w) = "inspect" /\ CompleteInspection(w)
    <2>1. "inspection" \notin ingest.artifacts
      BY Zenon, <1>2, <1>5 DEF Inputs
    <2> QED
      BY Zenon, <1>4, <1>5, <2>1 DEF CompleteInspection
  <1>6. CASE Stage(w) = "download" /\ CompleteDownload(w)
    <2>1. "download" \notin ingest.artifacts
      BY Zenon, <1>2, <1>6 DEF Inputs
    <2> QED
      BY Zenon, <1>4, <1>6, <2>1 DEF CompleteDownload
  <1>7. CASE Stage(w) = "probe" /\ CompleteProbe(w)
    <2>1. "probe" \notin ingest.artifacts
      BY Zenon, <1>2, <1>7 DEF Inputs, Fetched
    <2> QED
      BY Zenon, <1>4, <1>7, <2>1 DEF CompleteProbe
  <1>8. CASE Stage(w) = "normalize" /\ CompleteNormalization(w)
    <2>1. "normalization" \notin ingest.artifacts
      BY <1>2, <1>8 DEF Inputs, Fetched
    <2> QED
      BY Zenon, <1>4, <1>8, <2>1 DEF CompleteNormalization
  <1>9. ASSUME NEW row \in IngestRow, NEW found, AdvanceAfterMediaProcessing(row, found)
        PROVE  /\ Phase' \in Progress!HasMedia
               /\ ingest'.artifacts = row.artifacts /\ ingest'.force_save = row.force_save
    <2>1. /\ ingest'.linked /\ ingest'.status \in {"completed", "storing", "failed_terminal"}
          /\ ingest'.artifacts = row.artifacts /\ ingest'.force_save = row.force_save
      BY Zenon, <1>9, AdvancedRow
    <2> QED
      BY Zenon, <2>1, PhaseIsPhaseOf, PhaseCases DEF Progress!HasMedia
  <1>10. ingest \in IngestRow
    BY Zenon DEF PipelineInv, TypeOK
  <1>11. CASE Stage(w) = "finalize" /\ CompleteFinalization(w)
    <2> DEFINE row == [ingest EXCEPT !.artifacts = @ \cup {"finalization"}, !.error = "none"]
    <2>1. /\ row \in IngestRow /\ row.force_save = ingest.force_save
          /\ row.artifacts = ingest.artifacts \cup {"finalization"}
      BY Zenon, <1>10 DEF IngestRow, Artifacts
    <2>2. AdvanceAfterMediaProcessing(row, storage)
      BY Zenon, <1>11 DEF CompleteFinalization
    <2>3. "finalization" \notin ingest.artifacts
      BY Zenon, <1>1, NoResultYet DEF Has
    <2> HIDE DEF row
    <2>4. /\ Phase' \in Progress!HasMedia /\ ingest'.force_save = ingest.force_save
          /\ ingest'.artifacts = ingest.artifacts \cup {"finalization"}
      BY Zenon, <1>9, <2>1, <2>2
    <2> QED
      BY Zenon, <1>3, <2>3, <2>4, ResultsGrow
  <1>12. CASE Stage(w) = "fingerprint" /\ CompleteIdentity(w)
    <2> DEFINE row == [ingest EXCEPT !.evidence = FALSE, !.error = "none"]
    <2>1. /\ row \in IngestRow /\ row.force_save = ingest.force_save
          /\ row.artifacts = ingest.artifacts
      BY Zenon, <1>10 DEF IngestRow
    <2>2. ASSUME NEW found, AdvanceAfterMediaProcessing(row, found) PROVE Progress!Next
      <3> HIDE DEF row
      <3>1. /\ Phase' \in Progress!HasMedia /\ ingest'.force_save = ingest.force_save
            /\ ingest'.artifacts = ingest.artifacts
        BY Zenon, <1>9, <2>1, <2>2
      <3> QED
        BY Zenon, <1>3, <3>1 DEF Progress!Next, Progress!Identify
    <2>3. CASE /\ ~ingest.force_save
               /\ ingest' = [ingest EXCEPT !.status = "duplicate_pending", !.linked = FALSE,
                                           !.evidence = TRUE, !.error = "none"]
      <3>1. /\ ingest'.status = "duplicate_pending" /\ ingest'.force_save = ingest.force_save
            /\ ingest'.artifacts = ingest.artifacts
        BY Zenon, <1>10, <2>3 DEF IngestRow
      <3>2. Phase' = "decision"
        BY Zenon, <3>1, PhaseIsPhaseOf, PhaseCases
      <3> QED
        BY Zenon, <1>3, <2>3, <3>1, <3>2 DEF Progress!Next, Progress!Ask
    <2> QED
      BY Zenon, <1>12, <2>2, <2>3 DEF CompleteIdentity
  <1> QED
    BY Zenon, <1>5, <1>6, <1>7, <1>8, <1>11, <1>12 DEF Complete


(* ... a step that leaves the ingest as it is, ... *)
LEMMA IngestUntouched ==
    ASSUME UNCHANGED ingest
    PROVE  UNCHANGED Progress!vars
  BY Zenon, PhaseIsPhaseOf, Stutters

(* ... a stage job that is given up, and with it the ingest, ... *)
LEMMA GivenUpRefines ==
    ASSUME PipelineInv, NEW key \in JobKeys, Live(key), IngestKept \/ IngestGivenUp
    PROVE  [Progress!Next]_(Progress!vars)
  <1>1. CASE UNCHANGED ingest
    BY Zenon, <1>1, IngestUntouched
  <1>2. CASE ~IsTerminal(ingest.status) /\ ingest' = Failed("failed_terminal")
    BY Zenon, <1>2, StatusMoves DEF IsTerminal, Failed
  <1> QED
    BY Zenon, <1>1, <1>2 DEF IngestKept, IngestGivenUp

(* ... the administrator's decision, ... *)
LEMMA DecisionRefines ==
    ASSUME PipelineInv, ForceSave \/ AcceptDuplicate
    PROVE  Progress!Next
  <1>1. ingest \in IngestRow /\ Phase = "decision"
    BY Zenon, PhaseIsPhaseOf, PhaseCases DEF PipelineInv, TypeOK, ForceSave, AcceptDuplicate
  <1>2. ~ingest.linked
    BY Zenon DEF PipelineInv, Together, DecisionInv, ForceSave, AcceptDuplicate
  <1>3. CASE ForceSave
    <2>1. /\ ingest'.status = "queued" /\ ~ingest'.linked /\ ingest'.artifacts = {}
          /\ ingest'.force_save = TRUE
      BY Zenon, <1>1, <1>2, <1>3 DEF ForceSave, IngestRow
    <2>2. Phase' = "pipeline" /\ Cardinality(ingest'.artifacts) = 0
      BY Zenon, <2>1, PhaseIsPhaseOf, PhaseCases, FS_EmptySet
    <2> QED
      BY Zenon, <1>1, <2>1, <2>2 DEF Progress!Next, Progress!Force
  <1>4. CASE AcceptDuplicate
    <2>1. /\ ingest'.status \in {"completed", "storing"} /\ ingest'.linked
          /\ ingest'.artifacts = ingest.artifacts /\ ingest'.force_save = ingest.force_save
      BY Zenon, <1>1, <1>4 DEF AcceptDuplicate, IngestRow
    <2>2. Phase' \in {"waiting", "stored"}
      BY Zenon, <2>1, PhaseIsPhaseOf, PhaseCases
    <2> QED
      BY Zenon, <1>1, <2>1, <2>2 DEF Progress!Next, Progress!Accept
  <1> QED
    BY Zenon, <1>3, <1>4

(* ... and what becomes of the upload, which only a linked ingest follows. *)
LEMMA StorageRefines ==
    ASSUME PipelineInv,
           StorageReady \/ StorageRetries \/ StorageMissing \/ StorageUnknown \/ StorageReset
    PROVE  [Progress!Next]_(Progress!vars)
  <1>1. CASE UNCHANGED ingest
    BY Zenon, <1>1, IngestUntouched
  <1>2. ASSUME ingest.linked,
               NEW status \in {"completed", "failed_retryable", "failed_terminal", "storing"},
               NEW error, ingest' = [ingest EXCEPT !.status = status, !.error = error]
        PROVE  Progress!Next
    <2>1. ingest.status \in {"storing", "completed", "failed_retryable", "failed_terminal"}
      BY Zenon, <1>2 DEF PipelineInv, Together, DecisionInv
    <2>2. /\ ingest'.status = status /\ ingest'.linked
          /\ ingest'.artifacts = ingest.artifacts /\ ingest'.force_save = ingest.force_save
      BY Zenon, <1>2 DEF PipelineInv, TypeOK, IngestRow
    <2>3. Phase \in Progress!HasMedia
      BY Zenon, <1>2, <2>1, PhaseIsPhaseOf, PhaseCases DEF Progress!HasMedia
    <2>4. Phase' \in Progress!HasMedia
      BY Zenon, <2>2, PhaseIsPhaseOf, PhaseCases DEF Progress!HasMedia
    <2> QED
      BY Zenon, <2>2, <2>3, <2>4 DEF Progress!Next, Progress!FollowStorage
  <1> QED
    BY Zenon, <1>1, <1>2 DEF StorageReady, StorageRetries, StorageMissing, StorageUnknown,
       StorageReset,
       WaitsForStorage

LEMMA ProgressInit == Init => Progress!Init
  <1> SUFFICES ASSUME Init PROVE Progress!Init
    BY Zenon
  <1>1. /\ ingest.status = "queued" /\ ~ingest.linked /\ ingest.artifacts = {}
        /\ ingest.force_save = FALSE
    BY DEF Init
  <1>2. Phase = "pipeline" /\ Cardinality(ingest.artifacts) = 0
    BY Zenon, <1>1, PhaseIsPhaseOf, PhaseCases, FS_EmptySet
  <1> QED
    BY Zenon, <1>1, <1>2 DEF Progress!Init

LEMMA ProgressNext == PipelineInv /\ [Next]_vars => [Progress!Next]_(Progress!vars)
  <1> SUFFICES ASSUME PipelineInv, [Next]_vars PROVE [Progress!Next]_(Progress!vars)
    BY Zenon
  <1>1. CASE UNCHANGED ingest
    BY Zenon, <1>1, IngestUntouched
  <1>2. ASSUME NEW key \in JobKeys, RecoverJob(key) PROVE [Progress!Next]_(Progress!vars)
    BY Zenon, <1>2, GivenUpRefines DEF RecoverJob, SettleRetry, Live
  <1>3. ASSUME NEW w \in Workers, Begin(w) PROVE [Progress!Next]_(Progress!vars)
    <2>1. CASE MayBegin(w) /\ ingest' = [ingest EXCEPT !.status = Working[Stage(w)], !.error = "none"]
      <3>1. PICK key \in JobKeys : Live(key) /\ key[1] = Stage(w)
        BY Zenon, <2>1, Holder DEF MayBegin, Stage
      <3>2. ingest.status # "failed_terminal" /\ Working[Stage(w)] \in StartsFrom(key[1])
        BY Zenon, <2>1, <3>1, Holder, Starts DEF MayBegin, MayRun
      <3> QED
        BY Zenon, <2>1, <3>1, <3>2, StatusMoves
    <2> QED
      BY Zenon, <1>1, <1>3, <2>1 DEF Begin
  <1>4. ASSUME NEW w \in Workers, FailIngestStep(w) PROVE [Progress!Next]_(Progress!vars)
    <2>1. ASSUME MayFail(w), NEW status \in {"failed_terminal", "failed_retryable"},
                 ingest' = Failed(status)
          PROVE  [Progress!Next]_(Progress!vars)
      <3>1. PICK key \in JobKeys : Live(key) /\ key[1] = Stage(w)
        BY Zenon, <2>1, Holder DEF MayFail, Stage
      <3>2. /\ ingest.status # "failed_terminal"
            /\ status \in StartsFrom(key[1]) \cup {"failed_terminal"}
        BY Zenon, <2>1, <3>1, Holder, Starts DEF MayFail
      <3> QED
        BY Zenon, <2>1, <3>1, <3>2, StatusMoves DEF Failed
    <2> QED
      BY Zenon, <1>1, <1>4, <2>1 DEF FailIngestStep, IngestKept
  <1>5. ASSUME NEW w \in Workers, Complete(w) PROVE [Progress!Next]_(Progress!vars)
    BY Zenon, <1>1, <1>5, CompleteRefines DEF Complete
  <1>6. ASSUME NEW w \in Workers, FinishJob(w) PROVE [Progress!Next]_(Progress!vars)
    <2>1. CASE IsHolder(w) /\ (IngestKept \/ IngestGivenUp)
      BY Zenon, <2>1, Holder, GivenUpRefines
    <2> QED
      BY Zenon, <1>1, <1>6, <2>1 DEF FinishJob, HoldsLease, CompleteLease, SettleRetry, SettleFail,
         SettleDefer
  <1>7. CASE ForceSave \/ AcceptDuplicate
    BY Zenon, <1>7, DecisionRefines
  <1>8. CASE StorageReady \/ StorageRetries \/ StorageMissing \/ StorageUnknown \/ StorageReset
    BY Zenon, <1>8, StorageRefines
  <1> QED
    BY Zenon, <1>1, <1>2, <1>3, <1>4, <1>5, <1>6, <1>7, <1>8 DEF Next, HandlerStep, ClaimNext,
       LeaseExpires, Work, Crash, Shutdown, RefuseAdmission, TransactionFails, vars

(* The pipeline implements IngestProgress: leases, attempts, takeovers and *)
(* recovery never show, every stage result is recorded once, force_save    *)
(* alone starts again, and a failure is final unless it is the upload's.   *)
THEOREM PipelineImplementsProgress == Spec => ImplementsProgress
  BY ProgressInit, ProgressNext, PipelineInvariant, PTL
  DEF Spec, ImplementsProgress, Progress!Spec


=============================================================================
