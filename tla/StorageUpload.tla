--------------------------- MODULE StorageUpload ---------------------------
(***************************************************************************)
(* The upload of one media item to the Telegram storage channel: the media *)
(* row with its storage generation and reservation token, the              *)
(* upload_storage_asset job of every generation, the ingests that wait for *)
(* the upload, the workers that run it with cooperative cancellation,      *)
(* stale-lease recovery, and the operator commands that reconcile an       *)
(* upload whose result is unknown.                                         *)
(*                                                                         *)
(* A database transaction that locks the media row before it decides is    *)
(* one action.  Two do not and are split where others can come between:    *)
(* ReadStorageState and FinalizeIngest; FailLinkedIngests and FailMedia.   *)
(***************************************************************************)
EXTENDS Integers, FiniteSets

CONSTANTS
    Workers,          \* worker processes polling queue.jobs
    Ingests,          \* ingests whose normalized bytes are this media item
    Publishing,       \* the ingests whose requested_action is not 'save'
    MaxAttempts,      \* queue.jobs.max_attempts of an upload job
    MaxGeneration,    \* bound: the operator stops resetting at this generation
    Video             \* whether the media is a video

ASSUME StorageWorkersAssumption == Workers # {}
ASSUME StorageIngestsAssumption == Ingests # {} /\ Publishing \subseteq Ingests
ASSUME StorageAttemptsAssumption == MaxAttempts \in Nat \ {0}
ASSUME StorageGenerationAssumption == MaxGeneration \in Nat
ASSUME VideoAssumption == Video \in BOOLEAN

(* The owner of nothing; not a worker. *)
CONSTANT NoOne
ASSUME NoOneAssumption == NoOne \notin Workers

VARIABLES
    media,        \* the storage columns of the media row
    jobs,         \* the upload_storage_asset job of each generation
    ingests,      \* the state of each ingest
    seen,         \* the storage state an open finalization transaction has read
    materialize,  \* the ingests that have a materialize_publication job
    worker,       \* what each worker's runner and upload handler hold in memory
    inflight,     \* per generation, the workers whose upload Telegram has not decided
    messages      \* per generation, how many messages the storage channel got

vars == <<media, jobs, ingests, seen, materialize, worker, inflight, messages>>

telegram == <<inflight, messages>>

-----------------------------------------------------------------------------
(* Types *)

Generations == 0 .. MaxGeneration

StorageStates == {"pending", "ready", "unknown", "missing"}

(* token is storage_token: the worker whose current run reserved it.  A    *)
(* reservation needs a NULL token and a run forgets its token when it      *)
(* ends, so the worker's name is as good as a fresh identifier.  fresh     *)
(* says that storage_started_at is less than a minute old; path that       *)
(* local_work_path is set; receipt is the generation whose message the row *)
(* names, -1 when it names none.                                           *)
MediaRow == [state : StorageStates, generation : Generations,
             token : Workers \cup {NoOne}, fresh : BOOLEAN, path : BOOLEAN,
             receipt : Generations \cup {-1}]

(* holder is the lease token, named by the worker that claimed it, for the *)
(* same reason; live says that lease_expires_at lies in the future.        *)
JobRow == [state : {"absent", "queued", "running", "succeeded", "failed"},
           attempt : 0 .. MaxAttempts, holder : Workers \cup {NoOne}, live : BOOLEAN]

(* "processing" stands for every stage before the ingest is linked to the  *)
(* media.  A linked ingest fails for storage reasons only, so every failed *)
(* one carries the error code storage_upload or storage_unknown.           *)
IngestStates == {"processing", "storing", "completed", "failed_retryable",
                 "failed_terminal"}

(* The step upload_with_cancellation or the handler around it is about to  *)
(* run: read and check the file, reserve, dispatch, wait for Telegram,     *)
(* release, complete, mark unknown (and fail, or leave the lease), then    *)
(* tell the ingests.                                                       *)
HandlerSteps == {"inspect", "reserve", "dispatch", "upload", "release_staging",
                 "release_cancelled", "release_retry", "release_fail", "complete",
                 "mark", "mark_leave", "complete_ingests", "fail_retry",
                 "fail_terminal", "fail_media"}

(* What the handler hands to finish_job. *)
Results == {"ok", "retry", "cancelled", "leave", "fail"}

(* rows are the ingests that the worker's open transaction has locked. *)
Worker == [pc : {"idle"} \cup HandlerSteps \cup Results, generation : Generations,
           last : BOOLEAN, cancelled : BOOLEAN,
           answer : {"none", "accepted", "refused"}, rows : SUBSET Ingests]

Idle == [pc |-> "idle", generation |-> 0, last |-> FALSE, cancelled |-> FALSE,
         answer |-> "none", rows |-> {}]

NoJob == [state |-> "absent", attempt |-> 0, holder |-> NoOne, live |-> FALSE]

NewUploadJob == [NoJob EXCEPT !.state = "queued"]

TypeOK ==
    /\ media \in MediaRow
    /\ jobs \in [Generations -> JobRow]
    /\ ingests \in [Ingests -> IngestStates]
    /\ seen \in [Ingests -> StorageStates \cup {"nothing"}]
    /\ materialize \subseteq Ingests
    /\ worker \in [Workers -> Worker]
    /\ inflight \in [Generations -> SUBSET Workers]
    /\ messages \in [Generations -> Nat]

(* A video is inserted by the transaction that links its first ingest and  *)
(* queues its upload; other media are inserted by resolve_media, before    *)
(* any ingest is linked.                                                   *)
Init ==
    /\ media = [state |-> "pending", generation |-> 0, token |-> NoOne,
                fresh |-> FALSE, path |-> TRUE, receipt |-> -1]
    /\ \E first \in Ingests :
          ingests = [i \in Ingests |->
                        IF Video /\ i = first THEN "storing" ELSE "processing"]
    /\ jobs = [g \in Generations |-> IF Video /\ g = 0 THEN NewUploadJob ELSE NoJob]
    /\ seen = [i \in Ingests |-> "nothing"]
    /\ materialize = {}
    /\ worker = [w \in Workers |-> Idle]
    /\ inflight = [g \in Generations |-> {}]
    /\ messages = [g \in Generations |-> 0]

-----------------------------------------------------------------------------
(* What a storage result does to the linked ingests *)

Linked == {i \in Ingests : ingests[i] # "processing"}

Moved(set, state) == [i \in Ingests |-> IF i \in set THEN state ELSE ingests[i]]

WithState(states) == {i \in Ingests : ingests[i] \in states}

(* Waiting for the upload, or failed because of it. *)
Waiting == WithState({"storing", "failed_retryable", "failed_terminal"})

(* No open transaction has locked these rows.  A transaction that needs    *)
(* them while it holds the media row waits, or one of the two is aborted   *)
(* as deadlocked; both are failures the actions allow for.                 *)
Unlocked(set) == \A w \in Workers : worker[w].rows \cap set = {}

Write(set, state) == Unlocked(set) /\ ingests' = Moved(set, state)

(* complete_linked_ingests_for_storage and complete_storage_for_media: the *)
(* waiting ingests complete and get the publication they asked for.        *)
CompleteIngests ==
    /\ Write(Waiting, "completed")
    /\ materialize' = materialize \cup (Waiting \cap Publishing)

(* mark_linked_ingests_storage_unknown *)
FailIngests == Write(Linked, "failed_terminal")

(* settle_queued_storage_upload_jobs *)
QueuedUploadsFailed ==
    [g \in Generations |-> IF jobs[g].state = "queued"
                           THEN [jobs[g] EXCEPT !.state = "failed"] ELSE jobs[g]]

(* The columns a resolved upload leaves behind. *)
MediaIn(state) ==
    [media EXCEPT !.state = state, !.token = NoOne, !.fresh = FALSE]

MediaReady(generation) ==
    [MediaIn("ready") EXCEPT !.path = FALSE, !.receipt = generation]

-----------------------------------------------------------------------------
(* Ingests reach the media *)

(* insert_storage_job: only for pending storage, and a job that is already *)
(* there under the generation's dedupe key stays as it is.                 *)
JobsWithUpload ==
    IF media.state = "pending" /\ jobs[media.generation].state = "absent"
    THEN [jobs EXCEPT ![media.generation] = NewUploadJob]
    ELSE jobs

(* advance_after_media_processing, for an ingest that found the media's    *)
(* storage in the given state.                                             *)
AdvanceAfterMediaProcessing(i, state) ==
    \/ /\ state = "ready"
       /\ ingests' = [ingests EXCEPT ![i] = "completed"]
       /\ materialize' = materialize \cup ({i} \cap Publishing)
       /\ UNCHANGED jobs
    \/ /\ state = "pending"
       /\ ingests' = [ingests EXCEPT ![i] = "storing"]
       /\ jobs' = JobsWithUpload
       /\ UNCHANGED materialize
    \/ /\ state \in {"unknown", "missing"}
       /\ ingests' = [ingests EXCEPT ![i] = "failed_terminal"]
       /\ UNCHANGED <<jobs, materialize>>

(* complete_video_identity for an exact duplicate, whose media row         *)
(* persist_video_identity_in_transaction has locked.                       *)
CompleteVideoIdentity(i) ==
    /\ Video
    /\ ingests[i] = "processing"
    /\ AdvanceAfterMediaProcessing(i, media.state)
    /\ UNCHANGED <<media, seen, worker, telegram>>

(* accept_duplicate: locks the media row; the upload job is there already. *)
AcceptDuplicate(i) ==
    /\ Video
    /\ ingests[i] = "processing"
    /\ \/ /\ media.state = "ready"
          /\ ingests' = [ingests EXCEPT ![i] = "completed"]
          /\ materialize' = materialize \cup ({i} \cap Publishing)
       \/ /\ media.state = "pending"
          /\ ingests' = [ingests EXCEPT ![i] = "storing"]
          /\ UNCHANGED materialize
    /\ UNCHANGED <<media, jobs, seen, worker, telegram>>

(* complete_ingest_finalization, of media other than videos, in two steps: *)
(* it reads storage_state without locking the media row ...                *)
ReadStorageState(i) ==
    /\ ~Video
    /\ ingests[i] = "processing"
    /\ seen[i] = "nothing"
    /\ seen' = [seen EXCEPT ![i] = media.state]
    /\ UNCHANGED <<media, jobs, ingests, materialize, worker, telegram>>

(* ... and commits the ingest's new state and its media_id later.          *)
FinalizeIngest(i) ==
    /\ seen[i] # "nothing"
    /\ seen' = [seen EXCEPT ![i] = "nothing"]
    /\ AdvanceAfterMediaProcessing(i, seen[i])
    /\ UNCHANGED <<media, worker, telegram>>

-----------------------------------------------------------------------------
(* The runner *)

At(w, pc) == worker[w].pc = pc

(* A handler that has its result remembers only whose job it ran. *)
Goto(w, pc) ==
    [worker EXCEPT ![w] = IF pc \in Results
                          THEN [Idle EXCEPT !.pc = pc, !.generation = worker[w].generation]
                          ELSE [@ EXCEPT !.pc = pc, !.answer = "none", !.rows = {}]]

Cancelled(w) == worker[w].cancelled

(* The handler succeeds; if it was cancelled because its heartbeat failed, *)
(* and not because of a shutdown, execute_handler turns that into a        *)
(* permanent failure.                                                      *)
EndsWell(w) == {Goto(w, "ok")} \cup IF Cancelled(w) THEN {Goto(w, "fail")} ELSE {}

JobOf(w) == jobs[worker[w].generation]

(* lock_running_job finds the row of this claim, expired or not. *)
IsHolder(w) == JobOf(w).state = "running" /\ JobOf(w).holder = w

HoldsLease(w) == IsHolder(w) /\ JobOf(w).live

(* claim_next *)
ClaimNext(w, g) ==
    /\ At(w, "idle")
    /\ jobs[g].state = "queued"
    /\ jobs[g].attempt < MaxAttempts
    /\ jobs' = [jobs EXCEPT ![g] = [state |-> "running", attempt |-> @.attempt + 1,
                                    holder |-> w, live |-> TRUE]]
    /\ worker' = [worker EXCEPT ![w] =
                     [Idle EXCEPT !.pc = "inspect", !.generation = g,
                                  !.last = jobs[g].attempt + 1 >= MaxAttempts]]
    /\ UNCHANGED <<media, ingests, seen, materialize, telegram>>

(* The lease runs out: the worker is stalled, or it drains a cancelled     *)
(* upload after it has stopped its heartbeat.                              *)
LeaseExpires(g) ==
    /\ jobs[g].state = "running"
    /\ jobs[g].live
    /\ jobs' = [jobs EXCEPT ![g].live = FALSE]
    /\ UNCHANGED <<media, ingests, seen, materialize, worker, telegram>>

(* A minute passes without a renewal of the reservation. *)
ReservationAges ==
    /\ media.fresh
    /\ media' = [media EXCEPT !.fresh = FALSE]
    /\ UNCHANGED <<jobs, ingests, seen, materialize, worker, telegram>>

(* The process dies and comes back with nothing in memory. *)
Crash(w) ==
    /\ ~At(w, "idle")
    /\ worker' = [worker EXCEPT ![w] = Idle]
    /\ UNCHANGED <<media, jobs, ingests, seen, materialize, telegram>>

(* execute_handler cancels a running handler when the worker shuts down or *)
(* a heartbeat fails, and waits for it.                                    *)
Cancel(w) ==
    /\ worker[w].pc \in HandlerSteps
    /\ ~Cancelled(w)
    /\ worker' = [worker EXCEPT ![w].cancelled = TRUE]
    /\ UNCHANGED <<media, jobs, ingests, seen, materialize, telegram>>

-----------------------------------------------------------------------------
(* upload_with_cancellation *)

(* Where a failed upload goes: fail_storage_for_media, as retryable unless *)
(* the error is permanent or the attempts are used up.                     *)
FailStep(w, retryable) ==
    IF retryable /\ ~worker[w].last THEN "fail_retry" ELSE "fail_terminal"

(* find_media, find_storage_receipt and the checks of the local file.  A   *)
(* receipt is reused; a reclaimed workspace, an unusable file or a hash    *)
(* mismatch is permanent; a failed read is not.                            *)
InspectMedia(w) ==
    /\ At(w, "inspect")
    /\ \/ /\ media.state = "ready"
          /\ worker' = Goto(w, "complete_ingests")
       \/ /\ media.state # "ready"
          /\ media.path
          /\ worker' = Goto(w, "reserve")
       \/ /\ media.state # "ready"
          /\ worker' = Goto(w, "fail_terminal")
       \/ worker' = Goto(w, FailStep(w, TRUE))
    /\ UNCHANGED <<media, jobs, ingests, seen, materialize, telegram>>

(* reserve_storage_upload hands out the token. *)
Reservable(w) ==
    /\ media.state = "pending"
    /\ media.generation = worker[w].generation
    /\ media.token = NoOne

(* Where the handler goes when reserve_storage_upload does not reserve:    *)
(* reuse what is stored; leave a newer generation alone; an unresolved or  *)
(* missing upload is a permanent failure; another's reservation is waited  *)
(* for as long as there are attempts.                                      *)
NotReserved(w) ==
    IF media.state = "ready" THEN {Goto(w, "complete_ingests")}
    ELSE IF media.generation # worker[w].generation THEN EndsWell(w)
    ELSE IF media.state # "pending" THEN {Goto(w, "fail_terminal")}
    ELSE {Goto(w, IF worker[w].last THEN "fail_terminal" ELSE "retry")}

(* reserve_storage_upload; a lost answer leaves the reservation behind. *)
ReserveStorageUpload(w) ==
    /\ At(w, "reserve")
    /\ \/ /\ Reservable(w)
          /\ media' = [media EXCEPT !.token = w, !.fresh = TRUE]
          /\ worker' \in {Goto(w, "dispatch"), Goto(w, FailStep(w, TRUE))}
       \/ /\ ~Reservable(w)
          /\ worker' \in NotReserved(w)
          /\ UNCHANGED media
       \/ /\ worker' = Goto(w, FailStep(w, TRUE))
          /\ UNCHANGED media
    /\ UNCHANGED <<jobs, ingests, seen, materialize, telegram>>

(* Before the request can escape: an unstaged thumbnail or a cancellation  *)
(* gives the reservation back, otherwise upload_media is dispatched.       *)
DispatchUpload(w) ==
    /\ At(w, "dispatch")
    /\ \/ /\ ~Cancelled(w)
          /\ inflight' = [inflight EXCEPT ![worker[w].generation] = @ \cup {w}]
          /\ worker' = Goto(w, "upload")
       \/ /\ Cancelled(w)
          /\ worker' = Goto(w, "release_cancelled")
          /\ UNCHANGED inflight
       \/ /\ Video
          /\ worker' = Goto(w, "release_staging")
          /\ UNCHANGED inflight
    /\ UNCHANGED <<media, jobs, ingests, seen, materialize, messages>>

(* The token comparison every later write of the upload makes. *)
OwnsReservation(w) == media.token = w

(* Where the handler goes after release_storage_upload, by what it was     *)
(* released for; the release of an unstaged thumbnail is best effort.      *)
AfterRelease(w, committed) ==
    CASE At(w, "release_staging") -> "fail_terminal"
      [] At(w, "release_cancelled") -> IF committed THEN "cancelled" ELSE FailStep(w, TRUE)
      [] At(w, "release_retry") -> FailStep(w, TRUE)
      [] At(w, "release_fail") -> FailStep(w, ~committed)

(* release_storage_upload; a token that is no longer this upload's is no   *)
(* error.                                                                  *)
ReleaseStorageUpload(w) ==
    /\ worker[w].pc \in {"release_staging", "release_cancelled", "release_retry",
                         "release_fail"}
    /\ \/ /\ media' = IF OwnsReservation(w) THEN MediaIn("pending") ELSE media
          /\ worker' \in {Goto(w, AfterRelease(w, TRUE)), Goto(w, AfterRelease(w, FALSE))}
       \/ /\ worker' = Goto(w, AfterRelease(w, FALSE))
          /\ UNCHANGED media
    /\ UNCHANGED <<jobs, ingests, seen, materialize, telegram>>

(* Telegram acts on an upload whether or not its worker still waits: the   *)
(* message appears, or the upload is refused without effect.               *)
Answered(w, g, answer) ==
    IF At(w, "upload") /\ worker[w].generation = g
    THEN [worker EXCEPT ![w].answer = answer] ELSE worker

Deliver(w, g) ==
    /\ w \in inflight[g]
    /\ inflight' = [inflight EXCEPT ![g] = @ \ {w}]
    /\ messages' = [messages EXCEPT ![g] = @ + 1]
    /\ worker' = Answered(w, g, "accepted")
    /\ UNCHANGED <<media, jobs, ingests, seen, materialize>>

Refuse(w, g) ==
    /\ w \in inflight[g]
    /\ inflight' = [inflight EXCEPT ![g] = @ \ {w}]
    /\ worker' = Answered(w, g, "refused")
    /\ UNCHANGED <<media, jobs, ingests, seen, materialize, messages>>

(* Faulty variant of UploadReturns: a lost answer counts as no effect. *)
UploadReturnsOptimistic(w) ==
    /\ At(w, "upload")
    /\ \/ /\ worker[w].answer = "accepted"
          /\ worker' = Goto(w, IF Cancelled(w) THEN "mark" ELSE "complete")
       \/ worker' \in {Goto(w, "release_retry"), Goto(w, "release_fail")}
    /\ UNCHANGED <<media, jobs, ingests, seen, materialize, telegram>>

(* upload_media returns: the message (unless a cancellation came first),   *)
(* an explicit refusal, which is worth a retry or not, or an ambiguous     *)
(* answer (is_ambiguous_error), possible whatever Telegram did.            *)
UploadReturns(w) ==
    /\ At(w, "upload")
    /\ \/ /\ worker[w].answer = "accepted"
          /\ worker' = Goto(w, IF Cancelled(w) THEN "mark" ELSE "complete")
       \/ /\ worker[w].answer = "refused"
          /\ worker' \in {Goto(w, "release_retry"), Goto(w, "release_fail")}
       \/ worker' = Goto(w, "mark")
    /\ UNCHANGED <<media, jobs, ingests, seen, materialize, telegram>>

(* A cancellation after the dispatch drops the wait, not the request. *)
AbandonUpload(w) ==
    /\ At(w, "upload")
    /\ Cancelled(w)
    /\ worker' = Goto(w, "mark")
    /\ UNCHANGED <<media, jobs, ingests, seen, materialize, telegram>>

(* renew_storage_upload, every minute of the upload. *)
RenewStorageUpload(w) ==
    /\ At(w, "upload")
    /\ \/ /\ OwnsReservation(w)
          /\ media' = [media EXCEPT !.fresh = TRUE]
          /\ UNCHANGED worker
       \/ /\ worker' = Goto(w, "mark_leave")
          /\ UNCHANGED media
    /\ UNCHANGED <<jobs, ingests, seen, materialize, telegram>>

(* Faulty variant of Completes: the token is not compared. *)
CompletesUnowned(w) == media.state = "pending"

Completes(w) == OwnsReservation(w) /\ media.state = "pending"

(* complete_storage_upload: the media is ready, its linked ingests are     *)
(* completed.  A lost token, a database error (with or without the commit) *)
(* or a cancellation in the middle sends the handler to mark the result    *)
(* unknown.                                                                *)
CompleteStorageUpload(w) ==
    /\ At(w, "complete")
    /\ \/ /\ Completes(w)
          /\ media' = MediaReady(worker[w].generation)
          /\ CompleteIngests
          /\ \/ worker' \in {Goto(w, "complete_ingests"), Goto(w, "mark_leave")}
             \/ Cancelled(w) /\ worker' = Goto(w, "mark")
       \/ /\ \/ worker' = Goto(w, "mark_leave")
             \/ Cancelled(w) /\ worker' = Goto(w, "mark")
          /\ UNCHANGED <<media, ingests, materialize>>
    /\ UNCHANGED <<jobs, seen, telegram>>

(* mark_storage_upload_unknown, by the owner of the reservation.  When it  *)
(* cannot, or does not learn that it could, the lease is left to expire.   *)
MarkStorageUploadUnknown(w) ==
    /\ worker[w].pc \in {"mark", "mark_leave"}
    /\ \/ /\ Completes(w)
          /\ media' = MediaIn("unknown")
          /\ FailIngests
          /\ jobs' = QueuedUploadsFailed
          /\ worker' \in {Goto(w, "leave"), Goto(w, IF At(w, "mark") THEN "fail" ELSE "leave")}
       \/ /\ worker' = Goto(w, "leave")
          /\ UNCHANGED <<media, ingests, jobs>>
    /\ UNCHANGED <<seen, materialize, telegram>>

-----------------------------------------------------------------------------
(* upload_storage_asset tells the ingests *)

(* complete_storage_for_media *)
CompleteStorageForMedia(w) ==
    /\ At(w, "complete_ingests")
    /\ \/ /\ \/ /\ media.state = "ready"
                /\ CompleteIngests
                /\ media' = [media EXCEPT !.path = FALSE]
             \/ /\ media.state # "ready"
                /\ UNCHANGED <<media, ingests, materialize>>
          /\ worker' \in EndsWell(w) \cup {Goto(w, "retry")}
       \/ /\ worker' = Goto(w, "retry")
          /\ UNCHANGED <<media, ingests, materialize>>
    /\ UNCHANGED <<jobs, seen, telegram>>

StorageWaiting == WithState({"storing", "failed_retryable"})

(* fail_storage_for_media, of a failure that will be retried. *)
FailRetryable(w) ==
    /\ At(w, "fail_retry")
    /\ \/ Write(StorageWaiting, "failed_retryable")
       \/ UNCHANGED ingests
    /\ worker' = Goto(w, "retry")
    /\ UNCHANGED <<media, jobs, seen, materialize, telegram>>

(* fail_storage_for_media, of a terminal failure: the linked ingests first *)
(* (nobody sees the change before the commit) ...                          *)
FailLinkedIngests(w) ==
    /\ At(w, "fail_terminal")
    /\ \/ /\ Unlocked(StorageWaiting)
          /\ worker' = [worker EXCEPT ![w].pc = "fail_media", ![w].rows = StorageWaiting]
       \/ worker' = Goto(w, "retry")
    /\ UNCHANGED <<media, jobs, ingests, seen, materialize, telegram>>

(* Faulty variant of StorageFailed: the ingests fail, the media row keeps  *)
(* its state.                                                              *)
StorageFailedIngestsOnly(w) ==
    /\ ingests' = Moved(worker[w].rows, "failed_terminal")
    /\ UNCHANGED media

(* ... then the media row, which is missing if it was pending. *)
StorageFailed(w) ==
    /\ ingests' = Moved(worker[w].rows, "failed_terminal")
    /\ media' = IF media.state = "pending" THEN MediaIn("missing") ELSE media

FailMedia(w) ==
    /\ At(w, "fail_media")
    /\ \/ /\ StorageFailed(w)
          /\ worker' \in {Goto(w, "fail"), Goto(w, "retry")}
       \/ /\ worker' = Goto(w, "retry")
          /\ UNCHANGED <<media, ingests>>
    /\ UNCHANGED <<jobs, seen, materialize, telegram>>

-----------------------------------------------------------------------------
(* Settling the lease *)

(* update_locked_job *)
JobReleased(g, state, attempt) ==
    [jobs EXCEPT ![g] = [state |-> state, attempt |-> attempt, holder |-> NoOne,
                         live |-> FALSE]]

Refunded(attempt) == IF attempt > 0 THEN attempt - 1 ELSE 0

(* Faulty variant of ReconcileStorageTerminal: the reservation and the     *)
(* waiting ingests are left as they are.                                   *)
ReconcileNothing == UNCHANGED <<media, ingests>>

(* reconcile_storage_terminal: an upload job that will not run again may   *)
(* not leave pending storage behind.  Here the ingests of ready media      *)
(* complete without a materialize_publication job.                         *)
ReconcileStorageTerminal ==
    CASE media.state = "ready" -> Write(Waiting, "completed") /\ UNCHANGED media
      [] media.state = "pending" -> FailIngests /\ media' = MediaIn("unknown")
      [] media.state = "unknown" -> FailIngests /\ UNCHANGED media
      [] media.state = "missing" -> UNCHANGED <<media, ingests>>

(* Faulty variant of Terminal: one attempt too many. *)
TerminalOffByOne(w) == At(w, "fail") \/ JobOf(w).attempt > MaxAttempts

(* queue_parameters: a retry is terminal when the attempts are used up. *)
Terminal(w) == At(w, "fail") \/ JobOf(w).attempt >= MaxAttempts

(* finish_job.  A worker that finds its lease lost stops, and starts again *)
(* with nothing in memory; a safely cancelled upload gives its attempt     *)
(* back even when the lease has run out.                                   *)
FinishJob(w) ==
    LET g == worker[w].generation IN
    /\ worker[w].pc \in Results
    /\ worker' = [worker EXCEPT ![w] = Idle]
    /\ \/ /\ At(w, "leave") \/ ~(IF At(w, "cancelled") THEN IsHolder(w) ELSE HoldsLease(w))
          /\ UNCHANGED <<media, jobs, ingests>>
       \/ /\ At(w, "ok")
          /\ HoldsLease(w)
          /\ jobs' = JobReleased(g, "succeeded", JobOf(w).attempt)
          /\ UNCHANGED <<media, ingests>>
       \/ /\ At(w, "cancelled")
          /\ IsHolder(w)
          /\ jobs' = JobReleased(g, "queued", Refunded(JobOf(w).attempt))
          /\ UNCHANGED <<media, ingests>>
       \/ /\ worker[w].pc \in {"retry", "fail"}
          /\ HoldsLease(w)
          /\ ~Terminal(w)
          /\ jobs' = JobReleased(g, "queued", JobOf(w).attempt)
          /\ UNCHANGED <<media, ingests>>
       \/ /\ worker[w].pc \in {"retry", "fail"}
          /\ HoldsLease(w)
          /\ Terminal(w)
          /\ ReconcileStorageTerminal
          /\ jobs' = JobReleased(g, "failed", JobOf(w).attempt)
    /\ UNCHANGED <<seen, materialize, telegram>>

(* An upload that may still be draining gets a minute's grace. *)
InGrace == media.state = "pending" /\ media.token # NoOne /\ media.fresh

(* Safe to run again: nothing is reserved, so nothing was dispatched. *)
SafelyUnreserved == media.state = "pending" /\ media.token = NoOne

(* recover_storage_job.  Here, too, the ingests of ready media complete    *)
(* without a materialize_publication job.                                  *)
RecoverStorageJob(g) ==
    /\ jobs[g].state = "running"
    /\ ~jobs[g].live
    /\ ~InGrace
    /\ \/ /\ media.state = "ready"
          /\ Write(Waiting, "completed")
          /\ jobs' = JobReleased(g, "succeeded", jobs[g].attempt)
          /\ UNCHANGED media
       \/ /\ SafelyUnreserved
          /\ jobs' = JobReleased(g, "queued", Refunded(jobs[g].attempt))
          /\ UNCHANGED <<media, ingests>>
       \/ /\ media.state # "ready" /\ ~SafelyUnreserved
          /\ media' = MediaIn("unknown")
          /\ FailIngests
          /\ jobs' = JobReleased(g, "failed", jobs[g].attempt)
    /\ UNCHANGED <<seen, materialize, worker, telegram>>

-----------------------------------------------------------------------------
(* Operator commands and workspace cleanup *)

(* storage mark-unknown, with --force when a reservation is active. *)
OperatorMarkUnknown ==
    /\ \E force \in BOOLEAN : force \/ media.token = NoOne
    /\ media' = MediaIn("unknown")
    /\ FailIngests
    /\ jobs' = QueuedUploadsFailed
    /\ UNCHANGED <<seen, materialize, worker, telegram>>

(* reset_storage_upload opens a new generation while the bytes are there.  *)
(* (A cleanup job that is running but has not begun also refuses it; the   *)
(* model lets it pass, and the cleanup then finds an active upload.)       *)
ResetStorageUpload ==
    /\ media.token = NoOne
    /\ media.path
    /\ media.generation < MaxGeneration
    /\ media' = [MediaIn("pending") EXCEPT !.generation = @ + 1, !.receipt = -1]
    /\ Write(Linked, "storing")
    /\ jobs' = [jobs EXCEPT ![media.generation + 1] = NewUploadJob]
    /\ UNCHANGED <<seen, materialize, worker, telegram>>

(* attach_storage_upload names a message the operator found in the storage *)
(* channel.                                                                *)
AttachStorageUpload(g) ==
    /\ media.state = "unknown"
    /\ messages[g] > 0
    /\ media' = MediaReady(g)
    /\ CompleteIngests
    /\ UNCHANGED <<jobs, seen, worker, telegram>>

(* begin_workspace_cleanup, for a linked ingest: the path goes first.  The *)
(* cleanup job was queued when the storage became ready or missing.        *)
BeginWorkspaceCleanup ==
    /\ media.state \in {"ready", "missing"}
    /\ media.path
    /\ \A g \in Generations : jobs[g].state \notin {"queued", "running"}
    /\ WithState({"completed", "failed_terminal", "storing"}) # {}
    /\ media' = [media EXCEPT !.path = FALSE]
    /\ UNCHANGED <<jobs, ingests, seen, materialize, worker, telegram>>

-----------------------------------------------------------------------------

LinkStep(i) ==
    \/ CompleteVideoIdentity(i)
    \/ AcceptDuplicate(i)
    \/ ReadStorageState(i)
    \/ FinalizeIngest(i)

(* The steps that take a running handler to its end. *)
HandlerStep(w) ==
    \/ InspectMedia(w)
    \/ ReserveStorageUpload(w)
    \/ DispatchUpload(w)
    \/ ReleaseStorageUpload(w)
    \/ UploadReturns(w)
    \/ AbandonUpload(w)
    \/ CompleteStorageUpload(w)
    \/ MarkStorageUploadUnknown(w)
    \/ CompleteStorageForMedia(w)
    \/ FailRetryable(w)
    \/ FailLinkedIngests(w)
    \/ FailMedia(w)
    \/ FinishJob(w)

OperatorStep ==
    \/ OperatorMarkUnknown
    \/ ResetStorageUpload
    \/ \E g \in Generations : AttachStorageUpload(g)

Next ==
    \/ \E i \in Ingests : LinkStep(i)
    \/ \E w \in Workers : HandlerStep(w) \/ RenewStorageUpload(w) \/ Cancel(w) \/ Crash(w)
    \/ \E w \in Workers, g \in Generations : ClaimNext(w, g) \/ Deliver(w, g) \/ Refuse(w, g)
    \/ \E g \in Generations : LeaseExpires(g) \/ RecoverStorageJob(g)
    \/ ReservationAges
    \/ OperatorStep
    \/ BeginWorkspaceCleanup

Spec == Init /\ [][Next]_vars

(* A lease whose holder is gone gets no more heartbeats. *)
AbandonedLeaseExpires(g) ==
    /\ \A w \in Workers : ~(worker[w].pc # "idle" /\ worker[w].generation = g)
    /\ LeaseExpires(g)

(* Some worker keeps polling, a handler keeps running (a Telegram call     *)
(* ends: the client times out), time passes and recovery keeps running.    *)
(* Nothing obliges an operator, a cancellation, a crash or Telegram.       *)
Fairness ==
    /\ \A g \in Generations : /\ WF_vars(\E w \in Workers : ClaimNext(w, g))
                              /\ WF_vars(AbandonedLeaseExpires(g))
                              /\ WF_vars(RecoverStorageJob(g))
    /\ \A w \in Workers : WF_vars(HandlerStep(w))
    /\ WF_vars(ReservationAges)

FairSpec == Spec /\ Fairness

-----------------------------------------------------------------------------
(* Properties *)

(* "A Telegram effect is never resent implicitly": in one generation the   *)
(* storage channel gets at most one message, and no upload is on its way   *)
(* when one is there, whatever crashes, cancellations, lost answers and    *)
(* recovered leases come between.  Only the operator's reset opens a new   *)
(* generation.                                                             *)
OneUploadPerGeneration ==
    \A g \in Generations : messages[g] + Cardinality(inflight[g]) <= 1

(* Whoever is about to upload, uploads or records an upload for pending    *)
(* storage of the current generation holds its reservation, so nobody else *)
(* can be doing the same.                                                  *)
UploaderOwnsReservation ==
    \A w \in Workers :
        /\ worker[w].pc \in {"dispatch", "upload", "complete"}
        /\ worker[w].generation = media.generation
        /\ media.state = "pending"
        => media.token = w

(* Ready media names a message that is in the storage channel, holds no    *)
(* reservation and no longer owns local bytes.                             *)
ReadyIsStored ==
    media.state = "ready" =>
        /\ media.receipt \in Generations
        /\ messages[media.receipt] > 0
        /\ media.token = NoOne
        /\ ~media.path

(* For a video the linked ingests say what the media row says, after every *)
(* transaction: they wait while the upload is pending, they are complete   *)
(* exactly when it is ready, and they have failed when it is unresolved.   *)
(* (When it is missing they need not have: see StorageFailureNotLost.)     *)
IngestsAgreeWithMedia ==
    Video => \A i \in Linked :
        CASE media.state = "pending" -> ingests[i] \in {"storing", "failed_retryable"}
          [] media.state = "ready" -> ingests[i] = "completed"
          [] media.state = "unknown" -> ingests[i] = "failed_terminal"
          [] media.state = "missing" -> ingests[i] # "completed"

(* A video ingest that asked to be published never completes without the   *)
(* job that publishes it, although two of the paths that complete ingests  *)
(* do not queue that job.                                                  *)
RequestedPublicationKept ==
    Video => \A i \in Publishing : ingests[i] = "completed" => i \in materialize

(* Pending storage of a video always has a job of its own generation that  *)
(* will still run: no settlement, recovery or reset strands the upload.    *)
PendingUploadHasJob ==
    Video /\ media.state = "pending" => jobs[media.generation].state \in {"queued", "running"}

(* A queued upload can be claimed: claim_next skips a job whose attempts   *)
(* are used up.                                                            *)
QueuedUploadClaimable ==
    \A g \in Generations : jobs[g].state = "queued" => jobs[g].attempt < MaxAttempts

(* An upload lands only in the generation it was made for: a late answer   *)
(* of an abandoned upload never becomes the receipt of a newer generation. *)
LateUploadNeverLands ==
    [][media.state = "pending" /\ media'.state = "ready"
          => media'.receipt = media.generation]_vars

(* Stored media stays stored: no late worker, settlement or recovery takes *)
(* ready away, only the operator does.                                     *)
ReadyIsKept ==
    [][media.state = "ready" /\ media'.state # "ready" => OperatorMarkUnknown]_vars

(* A reservation never outlives its upload for good: whether its owner     *)
(* crashed, lost the answer of the reservation or was taken over, the      *)
(* token is cleared in the end.                                            *)
ReservationResolves == media.token # NoOne ~> media.token = NoOne

(* "`missing` is the explicit, known-no-effect terminal result from the    *)
(* storage handler": nothing of this generation is in the storage channel  *)
(* or on its way there.                                                    *)
MissingHasNoEffect ==
    media.state = "missing" =>
        messages[media.generation] = 0 /\ inflight[media.generation] = {}

(* Somebody is at work who can still tell the ingests. *)
UploadUnderWay ==
    \/ \E g \in Generations : jobs[g].state \in {"queued", "running"}
    \/ \E w \in Workers : worker[w].pc # "idle"

(* "Success and failure cannot be lost because an ingest has not reached   *)
(* storing yet", for success: no ingest waits for media that is ready when *)
(* nobody is left to complete it.                                          *)
StorageSuccessNotLost ==
    media.state = "ready" /\ WithState({"storing"}) # {} => UploadUnderWay

(* The same for failure: no ingest of a video waits for media that has     *)
(* been given up as missing when nobody is left to fail it.                *)
StorageFailureNotLost ==
    Video /\ media.state = "missing" /\ WithState({"storing"}) # {} => UploadUnderWay

(* "Only an unresolved reservation is promoted to storage_unknown here":   *)
(* settling the job of an older generation leaves a newer one, in which    *)
(* nothing is reserved, alone.                                             *)
ResetSurvivesOldSettlement ==
    [][\A w \in Workers :
          FinishJob(w) /\ media.token = NoOne /\ worker[w].generation < media.generation
             => media' = media]_vars
=============================================================================
