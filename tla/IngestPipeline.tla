--------------------------- MODULE IngestPipeline ---------------------------
(***************************************************************************)
(* One ingest on its way from submission to a media item: the ingest row,  *)
(* the queue.jobs rows of its stages (inspect, download, probe, normalize, *)
(* fingerprint or finalize, each once per generation), the workers that    *)
(* run the stage handlers, stale-lease recovery, and the two decisions an  *)
(* administrator takes about a probable duplicate: accept it, or force the *)
(* pipeline to start again.                                                *)
(*                                                                         *)
(* Every transaction of the inbox repository locks the ingest row first    *)
(* and the queue row second, so each is one action.  The upload of the     *)
(* media is the subject of StorageUpload; here it is its result.           *)
(***************************************************************************)
EXTENDS Integers, FiniteSets

CONSTANTS
    Workers,       \* worker processes polling queue.jobs
    MaxAttempts,   \* queue.jobs.max_attempts of a stage job
    Submitted,     \* the kinds of submission considered
    NoOne          \* the owner of nothing; not a worker

ASSUME PipelineWorkersAssumption == Workers # {} /\ NoOne \notin Workers
ASSUME PipelineAttemptsAssumption == MaxAttempts \in Nat \ {0}
ASSUME PipelineInputsAssumption ==
    Submitted \subseteq [from_url : BOOLEAN, video : BOOLEAN, publishing : BOOLEAN]

VARIABLES
    ingest,       \* the ingest row
    jobs,         \* the stage job of each generation, by its dedupe key
    storage,      \* storage_state of the media the ingest resolved to
    cleanup,      \* the generations whose workspace has a cleanup job
    materialize,  \* whether the ingest has a materialize_publication job
    worker        \* what each worker's runner and stage handler hold in memory

vars == <<ingest, jobs, storage, cleanup, materialize, worker>>

-----------------------------------------------------------------------------
(* Types *)

Stages == {"inspect", "download", "probe", "normalize", "fingerprint", "finalize"}

(* The stage results that clear_pipeline_artifacts forgets. *)
Artifacts == {"inspection", "download", "probe", "normalization", "finalization"}

(* received, exact_dedup_check and cancelled are never stored. *)
Statuses == {"queued", "downloading", "probing", "normalizing", "fingerprinting",
             "storing", "duplicate_pending", "completed", "failed_retryable",
             "failed_terminal"}

(* input never changes: input_kind is url, or a Telegram message; whether  *)
(* the asset will turn out to be a video; whether requested_action differs *)
(* from 'save'.  linked says that media_id is set; error whether           *)
(* error_code is one of storage_upload and storage_unknown, or a stage's.  *)
(* force_save also stands for the generation: force_save draws a new       *)
(* workspace_id and is never reset.                                        *)
IngestRow == [input : Submitted, status : Statuses, force_save : BOOLEAN,
              artifacts : SUBSET Artifacts, linked : BOOLEAN, evidence : BOOLEAN,
              accepted : BOOLEAN, error : {"none", "stage", "storage"}]

(* A job is named by stage_dedupe_key: its stage and the force_save suffix. *)
JobKeys == Stages \X BOOLEAN

(* holder is the lease token, named by the worker that claimed it: a run   *)
(* forgets its token when it ends.  live: lease_expires_at is ahead.       *)
JobRow == [state : {"absent", "queued", "running", "succeeded", "failed"},
           attempt : 0 .. MaxAttempts, holder : Workers \cup {NoOne}, live : BOOLEAN]

StorageStates == {"none", "pending", "ready", "unknown", "missing"}

(* What the handler hands to finish_job. *)
Results == {"ok", "retry", "defer", "fail"}

HandlerSteps == {"begin", "work", "complete", "fail_retryable", "fail_terminal"}

Worker == [pc : {"idle"} \cup HandlerSteps \cup Results, job : JobKeys]

NoKey == <<"inspect", FALSE>>

Idle == [pc |-> "idle", job |-> NoKey]

NoJob == [state |-> "absent", attempt |-> 0, holder |-> NoOne, live |-> FALSE]

NewJob == [NoJob EXCEPT !.state = "queued"]

TypeOK ==
    /\ ingest \in IngestRow
    /\ jobs \in [JobKeys -> JobRow]
    /\ storage \in StorageStates
    /\ cleanup \subseteq BOOLEAN
    /\ materialize \in BOOLEAN
    /\ worker \in [Workers -> Worker]

FromUrl == ingest.input.from_url

Video == ingest.input.video

Publishing == ingest.input.publishing

FirstStage == IF FromUrl THEN "inspect" ELSE "probe"

(* insert_job: a job that already has the dedupe key stays as it is. *)
Enqueued(rows, key) == IF rows[key].state = "absent" THEN [rows EXCEPT ![key] = NewJob] ELSE rows

NoJobs == [key \in JobKeys |-> NoJob]

(* create_ingest has committed. *)
Init ==
    /\ ingest \in {[input |-> i, status |-> "queued", force_save |-> FALSE,
                    artifacts |-> {}, linked |-> FALSE, evidence |-> FALSE,
                    accepted |-> FALSE, error |-> "none"] : i \in Submitted}
    /\ jobs = Enqueued(NoJobs, <<FirstStage, FALSE>>)
    /\ storage = "none"
    /\ cleanup = {}
    /\ materialize = FALSE
    /\ worker = [w \in Workers |-> Idle]

-----------------------------------------------------------------------------
(* The runner *)

At(w, pc) == worker[w].pc = pc

Stage(w) == worker[w].job[1]

JobOf(w) == jobs[worker[w].job]

Goto(w, pc) == [worker EXCEPT ![w].pc = pc]

(* lock_running_job, when an expired lease is allowed. *)
IsHolder(w) == JobOf(w).state = "running" /\ JobOf(w).holder = w

(* lock_current_job_attempt *)
HoldsLease(w) == IsHolder(w) /\ JobOf(w).live

(* The attempt number of a finished job is read no more. *)
Released(state, attempt) ==
    [state |-> state, attempt |-> IF state = "queued" THEN attempt ELSE 0,
     holder |-> NoOne, live |-> FALSE]

(* claim_next *)
ClaimNext(w, key) ==
    /\ At(w, "idle")
    /\ jobs[key].state = "queued"
    /\ jobs[key].attempt < MaxAttempts
    /\ jobs' = [jobs EXCEPT ![key] = [state |-> "running", attempt |-> @.attempt + 1,
                                      holder |-> w, live |-> TRUE]]
    /\ worker' = [worker EXCEPT ![w] = [pc |-> "begin", job |-> key]]
    /\ UNCHANGED <<ingest, storage, cleanup, materialize>>

(* The heartbeat stops while the worker is stalled or dead. *)
LeaseExpires(key) ==
    /\ jobs[key].state = "running"
    /\ jobs[key].live
    /\ jobs' = [jobs EXCEPT ![key].live = FALSE]
    /\ UNCHANGED <<ingest, storage, cleanup, materialize, worker>>

(* The process dies; so does one whose heartbeat fails, because no stage   *)
(* handler is cancellable.                                                 *)
Crash(w) ==
    /\ ~At(w, "idle")
    /\ worker' = [worker EXCEPT ![w] = Idle]
    /\ UNCHANGED <<ingest, jobs, storage, cleanup, materialize>>

(* Shutdown drops the handler where it stands and returns the job. *)
Shutdown(w) ==
    /\ worker[w].pc \in HandlerSteps
    /\ worker' = Goto(w, "retry")
    /\ UNCHANGED <<ingest, jobs, storage, cleanup, materialize>>

-----------------------------------------------------------------------------
(* Terminal failure *)

IsTerminal(status) == status \in {"completed", "failed_terminal"}

Failed(status) == [ingest EXCEPT !.status = status, !.error = "stage"]

(* The queue gives up on a stage: the ingest fails with it, unless it has  *)
(* ended already, and its workspace is to be cleaned up.                   *)
IngestGivenUp ==
    /\ ingest' = IF IsTerminal(ingest.status) THEN ingest ELSE Failed("failed_terminal")
    /\ cleanup' = cleanup \cup {ingest.force_save}

IngestKept == UNCHANGED <<ingest, cleanup>>

(* Faulty variant of SettleRetry: the job is requeued after its last attempt. *)
SettleRetryOffByOne(key) ==
    /\ jobs' = [jobs EXCEPT ![key] = Released("queued", @.attempt)]
    /\ IngestKept

(* queue_parameters and update_locked_job *)
SettleRetry(key) ==
    LET row == jobs[key]
        terminal == row.attempt >= MaxAttempts
    IN  /\ jobs' = [jobs EXCEPT ![key] =
                       Released(IF terminal THEN "failed" ELSE "queued", row.attempt)]
        /\ IF terminal THEN IngestGivenUp ELSE IngestKept

SettleDefer(key) ==
    /\ jobs' = [jobs EXCEPT ![key] = Released("queued", @.attempt - 1)]
    /\ IngestKept

SettleFail(key) ==
    /\ jobs' = [jobs EXCEPT ![key] = Released("failed", @.attempt)]
    /\ IngestGivenUp

(* complete_lease *)
CompleteLease(key) ==
    /\ jobs' = [jobs EXCEPT ![key] = Released("succeeded", @.attempt)]
    /\ IngestKept

(* finish_job, through settle_lease and the inbox's settle_job.  Whoever   *)
(* lost the lease changes nothing; the error ends the worker's loop and    *)
(* the process is started again.  Only a deferral that gives the attempt   *)
(* back is accepted from an expired lease.                                 *)
FinishJob(w) ==
    /\ worker[w].pc \in Results
    /\ LET key == worker[w].job IN
       \/ At(w, "ok") /\ HoldsLease(w) /\ CompleteLease(key)
       \/ At(w, "retry") /\ HoldsLease(w) /\ SettleRetry(key)
       \/ At(w, "fail") /\ HoldsLease(w) /\ SettleFail(key)
       \/ At(w, "defer") /\ IsHolder(w) /\ SettleDefer(key)
       \/ /\ ~ IF At(w, "defer") THEN IsHolder(w) ELSE HoldsLease(w)
          /\ UNCHANGED <<jobs, ingest, cleanup>>
    /\ worker' = [worker EXCEPT ![w] = Idle]
    /\ UNCHANGED <<storage, materialize>>

(* recover_stale and the inbox's recover_job *)
RecoverJob(key) ==
    /\ jobs[key].state = "running"
    /\ ~jobs[key].live
    /\ SettleRetry(key)
    /\ UNCHANGED <<storage, materialize, worker>>

-----------------------------------------------------------------------------
(* The stage handlers *)

(* The status in which a stage works. *)
Working == [inspect |-> "queued", download |-> "downloading", probe |-> "probing",
            normalize |-> "normalizing", fingerprint |-> "fingerprinting",
            finalize |-> "storing"]

(* The statuses from which each begin_* starts its stage: the stage's own,  *)
(* those a preceding stage leaves behind, and failed_retryable.             *)
InspectionStarts == {"queued", "failed_retryable"}
DownloadStarts == {"downloading", "failed_retryable"}
ProbeStarts == {"queued", "downloading", "probing", "failed_retryable"}
NormalizationStarts == {"normalizing", "failed_retryable"}
FingerprintingStarts == {"fingerprinting", "failed_retryable"}
FinalizationStarts == {"storing", "failed_retryable"}

StartsFrom(stage) ==
    CASE stage = "inspect" -> InspectionStarts
      [] stage = "download" -> DownloadStarts
      [] stage = "probe" -> ProbeStarts
      [] stage = "normalize" -> NormalizationStarts
      [] stage = "fingerprint" -> FingerprintingStarts
      [] stage = "finalize" -> FinalizationStarts

Has(artifact) == artifact \in ingest.artifacts

(* begin_source_download and begin_asset_normalization also stop where     *)
(* their result is recorded; a forced generation normalizes again.         *)
ResultRecorded(stage) ==
    \/ stage = "download" /\ Has("download")
    \/ stage = "normalize" /\ Has("normalization") /\ ~ingest.force_save

MayRun(stage) == ingest.status \in StartsFrom(stage) /\ ~ResultRecorded(stage)

MayBegin(w) == HoldsLease(w) /\ MayRun(Stage(w))

(* The free space of the work volume is checked, against the row as it is  *)
(* read without a lock, by the stages that write large files.              *)
Admitted(stage) ==
    stage \in {"download", "normalize", "fingerprint"} \/ (stage = "probe" /\ ~FromUrl)

RefuseAdmission(w) ==
    /\ At(w, "begin")
    /\ Admitted(Stage(w))
    /\ MayRun(Stage(w))
    /\ worker' = Goto(w, "defer")
    /\ UNCHANGED <<ingest, jobs, storage, cleanup, materialize>>

(* begin_*: the stage takes the ingest over, or finds that it has advanced *)
(* and reports success.                                                    *)
Begin(w) ==
    /\ At(w, "begin")
    /\ \/ /\ MayBegin(w)
          /\ ingest' = [ingest EXCEPT !.status = Working[Stage(w)], !.error = "none"]
          /\ worker' = Goto(w, "work")
       \/ /\ ~MayBegin(w)
          /\ worker' = Goto(w, "ok")
          /\ UNCHANGED ingest
    /\ UNCHANGED <<jobs, storage, cleanup, materialize>>

(* How the work of each handler ends, outside any transaction: it succeeds, *)
(* it fails in a way the handler first records on the ingest, or in a way   *)
(* it only returns.  An error of the tool is terminal in the last attempt;  *)
(* an error of the workspace is recorded as retryable even then.            *)
SettledOutcomes == {"complete", "fail_retryable", "fail_terminal"}
InspectSource == SettledOutcomes
DownloadSource == SettledOutcomes
ProbeAsset == SettledOutcomes \cup IF FromUrl THEN {} ELSE {"retry", "fail"}
NormalizeAsset == SettledOutcomes
FinalizeIngest == SettledOutcomes
ComputeFingerprint == SettledOutcomes \cup {"fail"}

Outcomes(stage) ==
    CASE stage = "inspect" -> InspectSource
      [] stage = "download" -> DownloadSource
      [] stage = "probe" -> ProbeAsset
      [] stage = "normalize" -> NormalizeAsset
      [] stage = "fingerprint" -> ComputeFingerprint
      [] stage = "finalize" -> FinalizeIngest

(* finalize_ingest resolves the media in a transaction of its own. *)
Work(w) ==
    /\ At(w, "work")
    /\ \E pc \in Outcomes(Stage(w)) : worker' = Goto(w, pc)
    /\ storage' \in IF Stage(w) = "finalize" /\ worker'[w].pc = "complete" /\ storage = "none"
                     THEN StorageStates \ {"none"}
                     ELSE {storage}
    /\ UNCHANGED <<ingest, jobs, cleanup, materialize>>

(* fail_ingest_step's guard *)
MayFail(w) ==
    /\ HoldsLease(w)
    /\ ingest.status = Working[Stage(w)]
    /\ ~(Stage(w) = "download" /\ Has("download"))

(* fail_*: record the failure and return it; the queue row is settled by   *)
(* the runner afterwards.                                                  *)
FailIngestStep(w) ==
    /\ worker[w].pc \in {"fail_retryable", "fail_terminal"}
    /\ LET status == IF At(w, "fail_terminal") THEN "failed_terminal" ELSE "failed_retryable" IN
       IF MayFail(w)
       THEN /\ ingest' = Failed(status)
            /\ cleanup' = cleanup \cup IF status = "failed_terminal"
                                       THEN {ingest.force_save} ELSE {}
       ELSE IngestKept
    /\ worker' = Goto(w, IF At(w, "fail_terminal") THEN "fail" ELSE "retry")
    /\ UNCHANGED <<jobs, storage, materialize>>

-----------------------------------------------------------------------------
(* complete_*: the result, the new status, the successor's job and the     *)
(* success of this job in one transaction                                  *)

Recorded(artifact, status) ==
    [ingest EXCEPT !.artifacts = @ \cup {artifact}, !.status = status, !.error = "none"]

Succeeded(w) == [jobs EXCEPT ![worker[w].job] = Released("succeeded", @.attempt)]

(* Faulty variant of SucceededThen: the successor gets the first           *)
(* generation's dedupe key.                                                *)
SucceededThenUnscoped(w, stage) == Enqueued(Succeeded(w), <<stage, FALSE>>)

SucceededThen(w, stage) == Enqueued(Succeeded(w), <<stage, ingest.force_save>>)

(* complete_source_inspection *)
CompleteInspection(w) ==
    /\ ingest' = Recorded("inspection", "downloading")
    /\ jobs' = SucceededThen(w, "download")
    /\ UNCHANGED <<storage, cleanup, materialize>>

(* complete_source_download: the ingest stays in downloading. *)
CompleteDownload(w) ==
    /\ ingest' = Recorded("download", "downloading")
    /\ jobs' = SucceededThen(w, "probe")
    /\ UNCHANGED <<storage, cleanup, materialize>>

(* complete_asset_probe: an asset no normalizer accepts ends the ingest.   *)
CompleteProbe(w) ==
    /\ \/ /\ ingest' = Recorded("probe", "normalizing")
          /\ jobs' = SucceededThen(w, "normalize")
          /\ UNCHANGED cleanup
       \/ /\ ingest' = [Recorded("probe", "failed_terminal") EXCEPT !.error = "stage"]
          /\ jobs' = Succeeded(w)
          /\ cleanup' = cleanup \cup {ingest.force_save}
    /\ UNCHANGED <<storage, materialize>>

(* complete_asset_normalization *)
CompleteNormalization(w) ==
    /\ ingest' = Recorded("normalization", IF Video THEN "fingerprinting" ELSE "storing")
    /\ jobs' = SucceededThen(w, IF Video THEN "fingerprint" ELSE "finalize")
    /\ UNCHANGED <<storage, cleanup, materialize>>

(* advance_after_media_processing, on the row the caller hands over; the   *)
(* media's upload job is StorageUpload's.                                  *)
AdvanceAfterMediaProcessing(row, found) ==
    /\ storage' = found
    /\ \/ /\ found = "ready"
          /\ ingest' = [row EXCEPT !.status = "completed", !.linked = TRUE]
          /\ cleanup' = cleanup \cup {row.force_save}
          /\ materialize' = (materialize \/ Publishing)
       \/ /\ found = "pending"
          /\ ingest' = [row EXCEPT !.status = "storing", !.linked = TRUE]
          /\ UNCHANGED <<cleanup, materialize>>
       \/ /\ found \in {"unknown", "missing"}
          /\ ingest' = [row EXCEPT !.status = "failed_terminal", !.linked = TRUE,
                                   !.error = "storage"]
          /\ cleanup' = cleanup \cup {row.force_save}
          /\ UNCHANGED materialize

(* complete_ingest_finalization *)
CompleteFinalization(w) ==
    /\ AdvanceAfterMediaProcessing(
          [ingest EXCEPT !.artifacts = @ \cup {"finalization"}, !.error = "none"], storage)
    /\ jobs' = Succeeded(w)

(* Faulty variant of CompleteIdentity: a forced generation asks again. *)
CompleteIdentityAskingAgain(w) ==
    /\ ingest' = [ingest EXCEPT !.status = "duplicate_pending", !.linked = FALSE,
                                !.evidence = TRUE, !.error = "none"]
    /\ cleanup' = cleanup \cup {ingest.force_save}
    /\ UNCHANGED <<storage, materialize>>
    /\ jobs' = Succeeded(w)

(* complete_video_identity: the bytes are known (in any storage state), or *)
(* new, or probably a duplicate, which a forced generation no longer asks. *)
CompleteIdentity(w) ==
    /\ \/ \E found \in StorageStates \ {"none"} :
             AdvanceAfterMediaProcessing(
                [ingest EXCEPT !.evidence = FALSE, !.error = "none"], found)
       \/ /\ ~ingest.force_save
          /\ ingest' = [ingest EXCEPT !.status = "duplicate_pending", !.linked = FALSE,
                                      !.evidence = TRUE, !.error = "none"]
          /\ cleanup' = cleanup \cup {ingest.force_save}
          /\ UNCHANGED <<storage, materialize>>
    /\ jobs' = Succeeded(w)

(* Faulty variant of MayComplete: a stale attempt completes the stage. *)
MayCompleteWithoutLease(w) ==
    /\ ingest.status = Working[Stage(w)]
    /\ ~ResultRecorded(Stage(w))
    /\ ~(Stage(w) = "finalize" /\ Has("finalization"))

MayComplete(w) ==
    /\ HoldsLease(w)
    /\ ingest.status = Working[Stage(w)]
    /\ ~ResultRecorded(Stage(w))
    /\ ~(Stage(w) = "finalize" /\ Has("finalization"))

Complete(w) ==
    /\ At(w, "complete")
    /\ \/ /\ MayComplete(w)
          /\ \/ Stage(w) = "inspect" /\ CompleteInspection(w)
             \/ Stage(w) = "download" /\ CompleteDownload(w)
             \/ Stage(w) = "probe" /\ CompleteProbe(w)
             \/ Stage(w) = "normalize" /\ CompleteNormalization(w)
             \/ Stage(w) = "fingerprint" /\ CompleteIdentity(w)
             \/ Stage(w) = "finalize" /\ CompleteFinalization(w)
       \/ ~MayComplete(w) /\ UNCHANGED <<ingest, jobs, storage, cleanup, materialize>>
    /\ worker' = Goto(w, "ok")

(* A transaction fails before it commits; map_inbox_error returns it. *)
TransactionFails(w) ==
    /\ worker[w].pc \in {"begin", "complete", "fail_retryable", "fail_terminal"}
    /\ worker' = Goto(w, "retry")
    /\ UNCHANGED <<ingest, jobs, storage, cleanup, materialize>>

-----------------------------------------------------------------------------
(* The administrator's decision about a probable duplicate *)

(* force_save.  Repeating it in a forced generation changes nothing, and   *)
(* in any other status it is refused.                                      *)
ForceSave ==
    /\ ingest.status = "duplicate_pending"
    /\ ingest' = [ingest EXCEPT !.status = "queued", !.force_save = TRUE,
                                !.artifacts = {}, !.evidence = FALSE, !.error = "none"]
    /\ jobs' = Enqueued(jobs, <<FirstStage, TRUE>>)
    /\ UNCHANGED <<storage, cleanup, materialize, worker>>

(* accept_duplicate, for a candidate of the evidence whose storage is      *)
(* ready or pending; repeating the decision changes nothing.               *)
AcceptDuplicate ==
    /\ ingest.status = "duplicate_pending"
    /\ ~ingest.accepted
    /\ \E found \in {"ready", "pending"} :
          /\ storage' = found
          /\ ingest' = [ingest EXCEPT !.linked = TRUE, !.accepted = TRUE,
                           !.evidence = FALSE, !.error = "none",
                           !.status = IF found = "ready" THEN "completed" ELSE "storing"]
          /\ materialize' = (materialize \/ (found = "ready" /\ Publishing))
    /\ UNCHANGED <<jobs, cleanup, worker>>

-----------------------------------------------------------------------------
(* What becomes of the media's upload *)

StorageError == ingest.error = "storage"

WaitsForStorage ==
    /\ ingest.linked
    /\ \/ ingest.status = "storing"
       \/ ingest.status \in {"failed_retryable", "failed_terminal"} /\ StorageError

(* complete_storage_upload, attach_storage_upload: the waiting ingest      *)
(* completes and gets the publication it asked for.                        *)
StorageReady ==
    /\ storage \in {"pending", "unknown"}
    /\ storage' = "ready"
    /\ IF WaitsForStorage
       THEN /\ ingest' = [ingest EXCEPT !.status = "completed", !.error = "none"]
            /\ materialize' = (materialize \/ Publishing)
       ELSE UNCHANGED <<ingest, materialize>>
    /\ cleanup' = cleanup \cup IF ingest.linked THEN {ingest.force_save} ELSE {}
    /\ UNCHANGED <<jobs, worker>>

(* fail_storage_for_media, while the upload may be tried again ... *)
StorageRetries ==
    /\ storage = "pending"
    /\ ingest.linked
    /\ ingest.status = "storing"
    /\ ingest' = [ingest EXCEPT !.status = "failed_retryable", !.error = "storage"]
    /\ UNCHANGED <<jobs, storage, cleanup, materialize, worker>>

(* ... and when it may not. *)
StorageMissing ==
    /\ storage = "pending"
    /\ storage' = "missing"
    /\ IF WaitsForStorage
       THEN ingest' = [ingest EXCEPT !.status = "failed_terminal", !.error = "storage"]
       ELSE UNCHANGED ingest
    /\ cleanup' = cleanup \cup IF ingest.linked THEN {ingest.force_save} ELSE {}
    /\ UNCHANGED <<jobs, materialize, worker>>

(* mark_storage_upload_unknown, by the upload, recovery or the operator. *)
StorageUnknown ==
    /\ storage \in {"pending", "ready", "missing"}
    /\ storage' = "unknown"
    /\ IF ingest.linked
       THEN ingest' = [ingest EXCEPT !.status = "failed_terminal", !.error = "storage"]
       ELSE UNCHANGED ingest
    /\ UNCHANGED <<jobs, cleanup, materialize, worker>>

(* reset_storage_upload: the linked ingest waits again. *)
StorageReset ==
    /\ storage \in {"pending", "unknown", "missing"}
    /\ storage' = "pending"
    /\ IF ingest.linked /\ (ingest.status \in {"completed", "storing"} \/ StorageError)
       THEN ingest' = [ingest EXCEPT !.status = "storing", !.error = "none"]
       ELSE UNCHANGED ingest
    /\ UNCHANGED <<jobs, cleanup, materialize, worker>>

-----------------------------------------------------------------------------
(* Specification *)

HandlerStep(w) ==
    Begin(w) \/ Work(w) \/ FailIngestStep(w) \/ Complete(w) \/ FinishJob(w)

Next ==
    \/ \E w \in Workers, key \in JobKeys : ClaimNext(w, key)
    \/ \E key \in JobKeys : LeaseExpires(key) \/ RecoverJob(key)
    \/ \E w \in Workers :
          \/ HandlerStep(w)
          \/ Crash(w)
          \/ Shutdown(w)
          \/ RefuseAdmission(w)
          \/ TransactionFails(w)
    \/ ForceSave
    \/ AcceptDuplicate
    \/ StorageReady
    \/ StorageRetries
    \/ StorageMissing
    \/ StorageUnknown
    \/ StorageReset

Spec == Init /\ [][Next]_vars

(* The worker polls, finishes the handler it started and recovers expired  *)
(* leases; a lease that is not renewed expires.  Free space comes back:    *)
(* a stage that is deferred again and again begins in the end.             *)
Fairness ==
    /\ \A w \in Workers :
          /\ WF_vars(\E key \in JobKeys : ClaimNext(w, key))
          /\ WF_vars(HandlerStep(w))
          /\ SF_vars(Begin(w))
    /\ \A key \in JobKeys : WF_vars(RecoverJob(key)) /\ WF_vars(LeaseExpires(key))

FairSpec == Spec /\ Fairness

-----------------------------------------------------------------------------
(* Properties *)

Live(key) == jobs[key].state \in {"queued", "running"}

(* At most one stage job of the ingest is queued or running, and it        *)
(* belongs to the current generation: the stage transactions succeed one   *)
(* job and insert the next together, and force_save restarts a pipeline    *)
(* that has no job left.                                                   *)
OneLiveStageJob ==
    /\ \A k1, k2 \in JobKeys : Live(k1) /\ Live(k2) => k1 = k2
    /\ \A key \in JobKeys : Live(key) => key[2] = ingest.force_save

InPipeline ==
    \/ ingest.status \in {"queued", "downloading", "probing", "normalizing", "fingerprinting"}
    \/ ingest.status \in {"storing", "failed_retryable"} /\ ~ingest.linked

(* An ingest that has not reached its decision always has a stage job that *)
(* can still be claimed and whose begin_* will accept the ingest as it is: *)
(* no sequence of crashes, deferrals, lost leases and shutdowns strands it *)
(* (recover_job and settle_job fail the ingest with its last job).         *)
NeverStranded ==
    InPipeline =>
        \E key \in JobKeys :
            /\ jobs[key].state = "running" \/ (jobs[key].state = "queued"
                                                /\ jobs[key].attempt < MaxAttempts)
            /\ MayRun(key[1])

(* The result a stage starts from was recorded by the stage before it, in  *)
(* this generation: the "no stored normalization metadata" branches of the *)
(* handlers are never taken, also after force_save has cleared everything. *)
StageInputsRecorded ==
    \A key \in JobKeys : Live(key) =>
        /\ key[1] = "download" => Has("inspection") /\ ~Has("download")
        /\ key[1] = "probe" /\ FromUrl => Has("download")
        /\ key[1] = "normalize" => Has("probe") /\ ~Has("normalization")
        /\ key[1] \in {"fingerprint", "finalize"} => Has("normalization")

(* A probable duplicate is either accepted or forced, never both; until    *)
(* then the evidence the decision is taken from is kept (accept_duplicate  *)
(* and force_save are fenced by the ingest row).                           *)
OneDuplicateDecision ==
    /\ ~(ingest.accepted /\ ingest.force_save)
    /\ ingest.evidence <=> ingest.status = "duplicate_pending"

(* An ingest that came to rest has a cleanup job for its workspace, unless *)
(* the workspace may still be needed because its storage is pending or     *)
(* unknown: every transaction that ends an ingest enqueues the cleanup.    *)
RestIsCleanedUp ==
    (/\ ingest.status \in {"completed", "failed_terminal", "duplicate_pending"}
     /\ ~(ingest.linked /\ storage \in {"pending", "unknown"}))
        => ingest.force_save \in cleanup

(* A worker changes the ingest only while it holds the live lease of its   *)
(* job: begin_*, complete_*, fail_* and settle_job are fenced by           *)
(* lock_current_job_attempt and lock_running_job.                          *)
OnlyLeaseHoldersAdvance ==
    [][\A w \in Workers :
          worker'[w] # worker[w] /\ ingest' # ingest => HoldsLease(w)]_vars

Phase ==
    CASE InPipeline -> "pipeline"
      [] ingest.status = "duplicate_pending" -> "decision"
      [] ingest.linked /\ ingest.status = "completed" -> "stored"
      [] ingest.linked /\ ingest.status = "failed_terminal" -> "unstored"
      [] ingest.linked /\ ingest.status \in {"storing", "failed_retryable"} -> "waiting"
      [] OTHER -> "failed"

Progress == INSTANCE IngestProgress WITH
    phase <- Phase,
    results <- Cardinality(ingest.artifacts),
    restarted <- ingest.force_save

(* Leases, attempts, takeovers and recovery never show: the pipeline       *)
(* records every stage result once and in order, starts again only when    *)
(* force_save decides a pending duplicate, and a failure is final unless   *)
(* it is the upload's.                                                     *)
ImplementsProgress == Progress!Spec

(* Every ingest leaves the pipeline: it waits for storage or for a         *)
(* decision, or it has completed or failed for good.                       *)
PipelineEnds == []<>~InPipeline

=============================================================================
