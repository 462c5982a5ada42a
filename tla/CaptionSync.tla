----------------------------- MODULE CaptionSync -----------------------------
(***************************************************************************)
(* The caption of one stored media item (crates/persistence/src/library.rs,*)
(* apps/worker/src/storage.rs, crates/telegram/src/storage.rs): every      *)
(* change of the metadata opens a caption generation with a job of its     *)
(* own, a worker edits the storage message outside a transaction and then  *)
(* records what came of it.  Generations are fenced by their number, two   *)
(* attempts at one generation by the claim token.                          *)
(*                                                                         *)
(* A lease token is unique while it is in use and is named by the worker   *)
(* that holds it.  A job that has ended no longer matters and its row is   *)
(* not kept.                                                               *)
(***************************************************************************)
EXTENDS Naturals, FiniteSets

CONSTANTS
    Texts,         \* contents of the description and the tags together
    Workers,
    None,          \* no worker, no answer
    MaxJobs,       \* job rows alive at once
    MaxAttempts,   \* NewJob::sync_storage_caption: 3
    MaxGeneration, \* caption generations of a behaviour
    MaxFaults,     \* crashes, lapsed leases and failed transactions
    MaxUntracked   \* metadata changes that open no generation

CaptionSyncAssumption ==
    /\ Workers # {} /\ None \notin Workers /\ None \notin [text : Texts, source : BOOLEAN]
    /\ MaxJobs \in Nat /\ MaxAttempts \in Nat \ {0} /\ MaxGeneration \in Nat
    /\ MaxFaults \in Nat /\ MaxUntracked \in Nat

VARIABLES
    storage,    \* media.storage_state
    upload,     \* the metadata the upload in progress was captioned with, if any
    meta,       \* description and tags, and whether there is a source URL
    gen,        \* media.caption_sync_generation
    sync,       \* media.caption_sync_state
    claim,      \* media.caption_sync_claim_token
    jobs,       \* the sync_storage_caption rows
    work,       \* what each worker is doing
    caption,    \* the metadata that the storage message shows
    late,       \* edits that no worker waits for and that may still land
    shown,      \* history: the generations whose caption has been shown
    faults, untracked

row == <<storage, upload, meta, gen, sync, claim>>
telegram == <<caption, late, shown>>
bounds == <<faults, untracked>>
vars == <<row, jobs, work, telegram, bounds>>

Ids == 1 .. MaxJobs
Metas == [text : Texts, source : BOOLEAN]
Gone == [state |-> "gone", gen |-> 0, attempts |-> 0, holder |-> None]
NewJob(g) == [state |-> "queued", gen |-> g, attempts |-> 0, holder |-> None]
Idle == [pc |-> "idle", job |-> 0, gen |-> 0, seen |-> None, landed |-> FALSE, answer |-> None]

Init ==
    /\ storage = "pending_storage" /\ upload = None
    /\ meta \in [text : Texts, source : {FALSE}]
    /\ gen = 0 /\ sync = "not_required" /\ claim = None
    /\ jobs = [j \in Ids |-> Gone]
    /\ work = [w \in Workers |-> Idle]
    /\ caption = None /\ late = {} /\ shown = {}
    /\ faults = 0 /\ untracked = 0

HasStorageMessage == storage = "ready"

Free == {j \in Ids : jobs[j].state = "gone"}

\* Each generation, and each late completion, has a dedupe key of its own.
EnqueueCaptionSyncJobWithKey(g) ==
    LET j == CHOOSE i \in Free : \A k \in Free : i <= k IN
    /\ Free # {}
    /\ jobs' = [jobs EXCEPT ![j] = NewJob(g)]

EnqueueCaptionSyncJob(g) == EnqueueCaptionSyncJobWithKey(g)

(* Changes of the metadata ------------------------------------------------*)

\* A change is published under a new generation once there is a message.
NextCaptionSyncValues(ready) ==
    IF ready THEN /\ gen < MaxGeneration
                  /\ gen' = gen + 1
                  /\ sync' = "pending"
                  /\ claim' = None
                  /\ EnqueueCaptionSyncJob(gen + 1)
             ELSE /\ sync' = "not_required"
                  /\ claim' = None
                  /\ UNCHANGED <<gen, jobs>>

\* An edit based on another updated_at is refused and changes nothing.
ReplaceMetadata(t) ==
    /\ t # meta.text
    /\ meta' = [meta EXCEPT !.text = t]
    /\ NextCaptionSyncValues(HasStorageMessage)

UpdateMedia(t) ==
    /\ ReplaceMetadata(t)
    /\ UNCHANGED <<storage, upload, work, telegram, bounds>>

\* A new ingest of the same bytes: a missing source URL is filled in, but only a
\* change of the description or the tags counts as a change of the caption.
MergeExactDuplicate(t, source) ==
    LET merged == [text |-> t, source |-> meta.source \/ source] IN
    /\ merged # meta
    /\ meta' = merged
    /\ IF t # meta.text
       THEN NextCaptionSyncValues(HasStorageMessage) /\ UNCHANGED bounds
       ELSE /\ untracked < MaxUntracked
            /\ untracked' = untracked + 1
            /\ UNCHANGED <<gen, sync, claim, jobs, faults>>
    /\ UNCHANGED <<storage, upload, work, telegram>>

\* accept_duplicate merges description and tags into the accepted media and leaves
\* the caption columns alone.
AcceptDuplicate(t) ==
    /\ storage \in {"ready", "pending_storage"}
    /\ t # meta.text
    /\ untracked < MaxUntracked
    /\ untracked' = untracked + 1
    /\ meta' = [meta EXCEPT !.text = t]
    /\ UNCHANGED <<storage, upload, gen, sync, claim, jobs, work, telegram, faults>>

(* The upload -------------------------------------------------------------*)

StartUpload ==
    /\ storage = "pending_storage" /\ upload = None
    /\ upload' = meta
    /\ UNCHANGED <<storage, meta, gen, sync, claim, jobs, work, telegram, bounds>>

CaptionSyncValuesAfterStorageUpload(known) ==
    IF known = meta
    THEN sync' = "synced" /\ claim' = None /\ UNCHANGED <<gen, jobs>>
    ELSE NextCaptionSyncValues(TRUE)

CompleteStorageUpload ==
    /\ storage = "pending_storage" /\ upload # None
    /\ storage' = "ready" /\ upload' = None
    /\ caption' = upload
    /\ CaptionSyncValuesAfterStorageUpload(upload)
    /\ shown' = IF upload = meta THEN shown \cup {gen} ELSE shown
    /\ UNCHANGED <<meta, work, late, bounds>>

UploadUnknown ==
    /\ storage = "pending_storage" /\ upload # None
    /\ storage' = "storage_unknown" /\ upload' = None
    /\ caption' = upload
    /\ UNCHANGED <<meta, gen, sync, claim, jobs, work, late, shown, bounds>>

\* The operator attaches the message; its caption is not known.
AttachStorageUpload ==
    /\ storage = "storage_unknown"
    /\ storage' = "ready"
    /\ CaptionSyncValuesAfterStorageUpload(None)
    /\ UNCHANGED <<upload, meta, work, telegram, bounds>>

RetryFailed ==
    /\ HasStorageMessage
    /\ sync = "failed"
    /\ NextCaptionSyncValues(TRUE)

RetryCaptionSync ==
    /\ RetryFailed
    /\ UNCHANGED <<storage, upload, meta, work, telegram, bounds>>

(* The worker -------------------------------------------------------------*)

Claim(w, j) ==
    /\ work[w].pc = "idle"
    /\ jobs[j].state = "queued"
    /\ jobs' = [jobs EXCEPT ![j].state = "running", ![j].attempts = @ + 1, ![j].holder = w]
    /\ work' = [work EXCEPT ![w] = [Idle EXCEPT !.pc = "begin", !.job = j, !.gen = jobs[j].gen]]
    /\ UNCHANGED <<row, telegram, bounds>>

Due(g) == gen = g /\ HasStorageMessage /\ sync = "pending"

BeginCaptionSync(w) ==
    /\ work[w].pc = "begin"
    /\ IF Due(work[w].gen)
       THEN /\ sync' = "syncing" /\ claim' = w
            /\ work' = [work EXCEPT ![w].pc = "edit", ![w].seen = meta]
       ELSE /\ work' = [work EXCEPT ![w].pc = "settle", ![w].answer = "ok"]
            /\ UNCHANGED <<sync, claim>>
    /\ UNCHANGED <<storage, upload, meta, gen, jobs, telegram, bounds>>

\* Telegram applies the edit, before it answers.
Land(w) ==
    /\ work[w].pc = "edit" /\ ~work[w].landed
    /\ caption' = work[w].seen
    /\ shown' = shown \cup {work[w].gen}
    /\ work' = [work EXCEPT ![w].landed = TRUE]
    /\ UNCHANGED <<row, jobs, late, bounds>>

\* "Not modified" is a success.  A lost answer is retryable, whether or not the edit
\* has been applied; a refusal is final.
EditStorageCaption(w, answer) ==
    /\ work[w].pc = "edit"
    /\ answer = "ok" => work[w].landed
    /\ answer = "permanent" => ~work[w].landed
    /\ work' = [work EXCEPT ![w].pc = "complete", ![w].answer = answer]
    /\ UNCHANGED <<row, jobs, telegram, bounds>>

Attempts(w) == jobs[work[w].job].attempts

Retryable(w) == work[w].answer = "retryable" /\ Attempts(w) < MaxAttempts

\* Mutant: a late completion of another generation is only ignored.
ReapplyNothing(w) == UNCHANGED <<sync, claim, jobs>>

\* A late completion of another generation re-opens the current one.
ReapplyCurrent(w) ==
    /\ sync' = "pending" /\ claim' = None
    /\ EnqueueCaptionSyncJobWithKey(gen)

ClaimHolds(w) == sync = "syncing" /\ claim = w

CompleteCaptionSync(w) ==
    /\ CASE gen # work[w].gen -> ReapplyCurrent(w)
         [] gen = work[w].gen /\ ~ClaimHolds(w) -> UNCHANGED <<sync, claim, jobs>>
         [] OTHER ->
              /\ sync' = CASE work[w].answer = "ok" -> "synced"
                           [] Retryable(w) -> "pending"
                           [] OTHER -> "failed"
              /\ claim' = None
              /\ UNCHANGED jobs
    /\ UNCHANGED <<storage, upload, meta, gen>>

SyncStorageCaption(w) ==
    /\ work[w].pc = "complete"
    /\ CompleteCaptionSync(w)
    /\ work' = [work EXCEPT ![w].pc = "settle",
                            ![w].answer = IF @ = "ok" \/ Retryable(w) THEN @ ELSE "permanent"]
    /\ UNCHANGED <<telegram, bounds>>

\* A transaction of the handler fails; map_library_error makes that retryable.
TransactionFails(w) ==
    /\ work[w].pc \in {"begin", "complete"}
    /\ faults < MaxFaults
    /\ faults' = faults + 1
    /\ work' = [work EXCEPT ![w].pc = "settle", ![w].answer = "retryable"]
    /\ UNCHANGED <<row, jobs, telegram, untracked>>

Holds(w) == jobs[work[w].job].state = "running" /\ jobs[work[w].job].holder = w

\* The media row follows a job that did not succeed: only its generation is compared.
ReleaseCaption(g, terminal) ==
    IF gen = g /\ sync = "syncing"
    THEN sync' = (IF terminal THEN "failed" ELSE "pending") /\ claim' = None
    ELSE UNCHANGED <<sync, claim>>

EndedOrQueued(j, terminal) ==
    jobs' = [jobs EXCEPT ![j] = IF terminal THEN Gone
                                ELSE [jobs[j] EXCEPT !.state = "queued", !.holder = None]]

SettleCaptionJob(w) ==
    LET j == work[w].job
        terminal == work[w].answer = "permanent" \/ Attempts(w) >= MaxAttempts
    IN  IF work[w].answer = "ok"
        THEN jobs' = [jobs EXCEPT ![j] = Gone] /\ UNCHANGED <<sync, claim>>
        ELSE ReleaseCaption(work[w].gen, terminal) /\ EndedOrQueued(j, terminal)

Settle(w) ==
    /\ work[w].pc = "settle"
    /\ IF Holds(w) THEN SettleCaptionJob(w) ELSE UNCHANGED <<sync, claim, jobs>>
    /\ work' = [work EXCEPT ![w] = Idle]
    /\ UNCHANGED <<storage, upload, meta, gen, telegram, bounds>>

(* Faults -----------------------------------------------------------------*)

RecoverCaptionJob(j) ==
    LET terminal == jobs[j].attempts >= MaxAttempts IN
    /\ ReleaseCaption(jobs[j].gen, terminal)
    /\ EndedOrQueued(j, terminal)
    /\ UNCHANGED <<storage, upload, meta, gen, work, telegram>>

Executed(j) == \E w \in Workers : work[w].job = j /\ jobs[j].holder = w

\* The lease of a job that nobody runs any more expires.
RecoverAbandoned(j) ==
    /\ jobs[j].state = "running" /\ ~Executed(j)
    /\ RecoverCaptionJob(j)
    /\ UNCHANGED bounds

\* A worker is held up for so long that the lease expires under it.
RecoverUnderWorker(j) ==
    /\ jobs[j].state = "running" /\ Executed(j)
    /\ faults < MaxFaults
    /\ faults' = faults + 1
    /\ RecoverCaptionJob(j)
    /\ UNCHANGED untracked

\* The handler is dropped; what it has sent is on its way.
Drop(w) ==
    /\ work[w].pc # "idle"
    /\ late' = IF work[w].pc = "edit" /\ ~work[w].landed
               THEN late \cup {[seen |-> work[w].seen, gen |-> work[w].gen]} ELSE late
    /\ work' = [work EXCEPT ![w] = Idle]
    /\ UNCHANGED <<row, jobs, caption, shown, untracked>>

Crash(w) ==
    /\ faults < MaxFaults
    /\ faults' = faults + 1
    /\ Drop(w)

\* The runner drops a handler whose heartbeat finds the lease lost.
HeartbeatLost(w) ==
    /\ work[w].pc # "idle" /\ ~Holds(w)
    /\ Drop(w)
    /\ UNCHANGED faults

LateLand(e) ==
    /\ caption' = e.seen
    /\ shown' = shown \cup {e.gen}
    /\ late' = late \ {e}
    /\ UNCHANGED <<row, jobs, work, bounds>>

LateLost(e) ==
    /\ late' = late \ {e}
    /\ UNCHANGED <<row, jobs, work, caption, shown, bounds>>

WorkerStep(w) ==
    \/ BeginCaptionSync(w)
    \/ SyncStorageCaption(w)
    \/ Settle(w)
    \/ \E answer \in {"ok", "retryable", "permanent"} : EditStorageCaption(w, answer)

Next ==
    \/ \E t \in Texts : UpdateMedia(t) \/ AcceptDuplicate(t)
    \/ \E t \in Texts, s \in BOOLEAN : MergeExactDuplicate(t, s)
    \/ StartUpload \/ CompleteStorageUpload \/ UploadUnknown \/ AttachStorageUpload
    \/ RetryCaptionSync
    \/ \E w \in Workers : WorkerStep(w) \/ Land(w) \/ TransactionFails(w)
                          \/ Crash(w) \/ HeartbeatLost(w)
    \/ \E w \in Workers, j \in Ids : Claim(w, j)
    \/ \E j \in Ids : RecoverAbandoned(j) \/ RecoverUnderWorker(j)
    \/ \E e \in late : LateLand(e) \/ LateLost(e)

Spec == Init /\ [][Next]_vars

(* Properties -------------------------------------------------------------*)

\* The columns and the workers' states are what the code can write.
TypeOK ==
    /\ storage \in {"pending_storage", "ready", "storage_unknown"}
    /\ upload \in Metas \cup {None} /\ meta \in Metas /\ caption \in Metas \cup {None}
    /\ gen \in 0 .. MaxGeneration
    /\ sync \in {"not_required", "pending", "syncing", "synced", "failed"}
    /\ claim \in Workers \cup {None}
    /\ \A j \in Ids : jobs[j].attempts <= MaxAttempts /\ jobs[j].gen <= gen
    /\ (claim # None) = (sync = "syncing")
    /\ (sync = "not_required") = ~HasStorageMessage

\* complete_caption_sync records "synced" for a generation only when the metadata of
\* that generation has really been shown on the storage message, whatever crashes,
\* lost leases and late answers come between.
SyncedWasShown == sync = "synced" => gen \in shown

Working(w) == work[w].pc \in {"edit", "complete"}

\* While no worker fails and every metadata change has opened a generation: once a caption
\* is recorded as synced and no edit is on its way, the message shows the metadata of
\* the row.  Edits of older generations that land late are made good by the reapply.
CaptionCurrent ==
    /\ sync = "synced" /\ untracked = 0
    /\ \A w \in Workers : ~Working(w)
    => caption = meta

\* While no worker fails: a caption that waits for its sync has a job of the current
\* generation that will do it; neither a stale completion nor a settlement leaves the
\* row pending for nobody.
PendingHasJob ==
    sync \in {"pending", "syncing"} =>
        \E j \in Ids : jobs[j].state # "gone" /\ jobs[j].gen = gen

\* docs/operations.md: a late old-generation edit cannot leave the final caption stale:
\* when nothing is left to do, the message of a synced row shows its metadata.
StaleCaptionIsReapplied ==
    /\ sync = "synced" /\ late = {}
    /\ \A w \in Workers : work[w].pc = "idle"
    /\ \A j \in Ids : jobs[j].state = "gone"
    => caption = meta

\* docs/operations.md: when the lease of the final attempt expires while its generation
\* waits for its caption, the generation is recorded as failed.
FinalExpiryRecordsFailure ==
    [][\A j \in Ids :
         /\ jobs[j].state = "running" /\ jobs[j].gen = gen /\ jobs'[j] = Gone
         /\ work' = work
         /\ sync \in {"pending", "syncing"}
         => sync' = "failed"]_vars

\* docs/product.md: the outcome of a claim is recorded only by the worker that holds it.
OnlyClaimantRecords ==
    [][sync = "syncing" /\ sync' \in {"synced", "failed"} /\ gen' = gen
         => work'[claim] # work[claim]]_vars
=============================================================================
