-------------------------- MODULE WorkspaceCleanup --------------------------
(***************************************************************************)
(* The working directories of the ingests and who may delete them.  Every  *)
(* generation of an ingest has a directory; the stages leave the source    *)
(* and the canonical file there, a media row points at the canonical file  *)
(* until it is uploaded, and cleanup_workspace jobs, a periodic scavenger, *)
(* force-save and the operator's storage reset meet around it.             *)
(*                                                                         *)
(* The stages' leases are the subject of IngestPipeline and the upload's   *)
(* reservation that of StorageUpload; a stage is one step here and an      *)
(* upload two.  A cleanup decides in a transaction and deletes afterwards, *)
(* when it may have lost its lease.                                        *)
(***************************************************************************)
EXTENDS Integers, FiniteSets

CONSTANTS
    Ingests,       \* ingests; an ingest's id names its first directory
    Medias,        \* canonical byte contents; each has at most one media row
    Bytes,         \* the content each ingest normalizes to
    FromUrl,       \* input_kind = url; otherwise Telegram messages
    Video,         \* videos; otherwise images
    MaxAttempts,   \* max_attempts of a cleanup job
    NoMedia,       \* media_id is NULL
    NoDir          \* local_work_path is NULL

CleanupBytesAssumption == Bytes \in [Ingests -> Medias] /\ NoMedia \notin Medias
CleanupShapeAssumption == {FromUrl, Video} \subseteq BOOLEAN
CleanupAttemptsAssumption == MaxAttempts \in Nat \ {0}

VARIABLES
    ingest,     \* the ingest rows
    media,      \* the media rows
    upload,     \* the upload job of each media's current generation
    files,      \* what is in the work root: <<directory, file>>
    cleanup,    \* the cleanup job of each directory
    deleting,   \* directories a cleanup worker has been told to delete
    scavenge    \* what the scavenger still has to delete

vars == <<ingest, media, upload, files, cleanup, deleting, scavenge>>

-----------------------------------------------------------------------------
(* Types *)

(* The first generation's directory is named by the ingest's id; force_save *)
(* draws a new one.                                                          *)
Dirs == Ingests \X {0, 1}

Pipeline == {"download", "process", "identify", "resolved"}

(* waiting stands for storing and for failed_retryable, after the media was *)
(* linked; unstored for failed_terminal with a storage error.               *)
Stages == Pipeline \cup {"decision", "waiting", "completed", "unstored", "failed"}

IngestRow == [stage : Stages, generation : {0, 1}, media : Medias \cup {NoMedia}]

MediaRow == [state : {"absent", "pending", "ready", "unknown", "missing"},
             path : Dirs \cup {NoDir}]

CleanupJob == [state : {"absent", "queued", "running", "succeeded", "failed"},
               attempt : 0 .. MaxAttempts]

TypeOK ==
    /\ ingest \in [Ingests -> IngestRow]
    /\ media \in [Medias -> MediaRow]
    /\ upload \in [Medias -> {"none", "queued", "running"}]
    /\ files \subseteq Dirs \X {"source", "canonical"}
    /\ cleanup \in [Dirs -> CleanupJob]
    /\ deleting \subseteq Dirs
    /\ scavenge \subseteq Dirs

FirstStage == IF FromUrl THEN "download" ELSE "process"

Init ==
    /\ ingest = [i \in Ingests |-> [stage |-> FirstStage, generation |-> 0, media |-> NoMedia]]
    /\ media = [m \in Medias |-> [state |-> "absent", path |-> NoDir]]
    /\ upload = [m \in Medias |-> "none"]
    /\ files = {}
    /\ cleanup = [d \in Dirs |-> [state |-> "absent", attempt |-> 0]]
    /\ deleting = {}
    /\ scavenge = {}

(* workspace_id *)
Dir(i) == <<i, ingest[i].generation>>

Contents(d) == {d} \X {"source", "canonical"}

(* enqueue_workspace_cleanup: ON CONFLICT (dedupe_key) DO NOTHING *)
WithCleanup(dirs) ==
    [d \in Dirs |-> IF d \in dirs /\ cleanup[d].state = "absent"
                    THEN [state |-> "queued", attempt |-> 0]
                    ELSE cleanup[d]]

LinkedTo(m) == {i \in Ingests : ingest[i].media = m}

(* enqueue_workspace_cleanup_for_media *)
WithCleanupForMedia(m) == WithCleanup({Dir(i) : i \in LinkedTo(m)})

-----------------------------------------------------------------------------
(* The stages *)

(* download_source opens the directory named by the ingest, not by its      *)
(* workspace_id.                                                            *)
DownloadDir(i) == <<i, 0>>

(* download_source *)
Download(i) ==
    /\ ingest[i].stage = "download"
    /\ files' = files \cup {<<DownloadDir(i), "source">>}
    /\ ingest' = [ingest EXCEPT ![i].stage = "process"]
    /\ UNCHANGED <<media, upload, cleanup, deleting, scavenge>>

(* A permanent failure of a stage, recorded by the stage or by the queue. *)
FailStage(i) ==
    /\ ingest[i].stage \in Pipeline
    /\ ingest' = [ingest EXCEPT ![i].stage = "failed"]
    /\ cleanup' = WithCleanup({Dir(i)})
    /\ UNCHANGED <<media, upload, files, deleting, scavenge>>

(* probe_asset and normalize_asset.  A Telegram source that is not there is *)
(* downloaded again; a URL's is not.                                        *)
Process(i) ==
    /\ ingest[i].stage = "process"
    /\ FromUrl => <<Dir(i), "source">> \in files
    /\ files' = files \cup Contents(Dir(i))
    /\ ingest' = [ingest EXCEPT ![i].stage = "identify"]
    /\ UNCHANGED <<media, upload, cleanup, deleting, scavenge>>

(* INSERT INTO media ... ON CONFLICT (canonical_sha256) DO NOTHING *)
Inserted(m, d) ==
    IF media[m].state = "absent" THEN [state |-> "pending", path |-> d] ELSE media[m]

(* finalize_ingest calls resolve_media, which commits by itself. *)
ResolveMedia(i) ==
    /\ ~Video
    /\ ingest[i].stage = "identify"
    /\ media' = [media EXCEPT ![Bytes[i]] = Inserted(Bytes[i], Dir(i))]
    /\ ingest' = [ingest EXCEPT ![i].stage = "resolved"]
    /\ UNCHANGED <<upload, files, cleanup, deleting, scavenge>>

(* advance_after_media_processing, and insert_storage_job: the job's dedupe *)
(* key holds the media's generation.                                        *)
AdvanceAfterMediaProcessing(i, m, row) ==
    \/ /\ row.state = "ready"
       /\ ingest' = [ingest EXCEPT ![i].stage = "completed", ![i].media = m]
       /\ cleanup' = WithCleanup({Dir(i)})
       /\ UNCHANGED upload
    \/ /\ row.state = "pending"
       /\ ingest' = [ingest EXCEPT ![i].stage = "waiting", ![i].media = m]
       /\ upload' = [upload EXCEPT ![m] = IF @ = "none" THEN "queued" ELSE @]
       /\ UNCHANGED cleanup
    \/ /\ row.state \in {"unknown", "missing"}
       /\ ingest' = [ingest EXCEPT ![i].stage = "unstored", ![i].media = m]
       /\ cleanup' = WithCleanup({Dir(i)})
       /\ UNCHANGED upload

(* complete_ingest_finalization *)
CompleteFinalization(i) ==
    /\ ingest[i].stage = "resolved"
    /\ AdvanceAfterMediaProcessing(i, Bytes[i], media[Bytes[i]])
    /\ UNCHANGED <<media, files, deleting, scavenge>>

(* complete_video_identity: the media row and the link in one transaction *)
CompleteIdentity(i) ==
    /\ Video
    /\ ingest[i].stage = "identify"
    /\ LET row == Inserted(Bytes[i], Dir(i)) IN
       /\ media' = [media EXCEPT ![Bytes[i]] = row]
       /\ AdvanceAfterMediaProcessing(i, Bytes[i], row)
    /\ UNCHANGED <<files, deleting, scavenge>>

(* complete_video_identity, when another media looks the same *)
FindDuplicate(i) ==
    /\ Video
    /\ ingest[i].stage = "identify"
    /\ ingest[i].generation = 0
    /\ media[Bytes[i]].state = "absent"
    /\ \E m \in Medias : media[m].state # "absent"
    /\ ingest' = [ingest EXCEPT ![i].stage = "decision"]
    /\ cleanup' = WithCleanup({Dir(i)})
    /\ UNCHANGED <<media, upload, files, deleting, scavenge>>

(* force_save *)
ForceSave(i) ==
    /\ ingest[i].stage = "decision"
    /\ ingest' = [ingest EXCEPT ![i].stage = FirstStage, ![i].generation = 1]
    /\ UNCHANGED <<media, upload, files, cleanup, deleting, scavenge>>

(* accept_duplicate *)
AcceptDuplicate(i) ==
    /\ ingest[i].stage = "decision"
    /\ \E m \in Medias \ {Bytes[i]} :
          /\ media[m].state \in {"ready", "pending"}
          /\ ingest' = [ingest EXCEPT ![i].media = m,
                          ![i].stage = IF media[m].state = "ready" THEN "completed" ELSE "waiting"]
    /\ UNCHANGED <<media, upload, files, cleanup, deleting, scavenge>>

-----------------------------------------------------------------------------
(* The upload *)

Moved(m, from, to) ==
    [i \in Ingests |-> IF ingest[i].media = m /\ ingest[i].stage \in from
                       THEN [ingest[i] EXCEPT !.stage = to] ELSE ingest[i]]

BytesAreThere(m) == media[m].path # NoDir /\ <<media[m].path, "canonical">> \in files

(* upload_storage_asset reads the file and reserves the upload. *)
StartUpload(m) ==
    /\ upload[m] = "queued"
    /\ media[m].state = "pending"
    /\ BytesAreThere(m)
    /\ upload' = [upload EXCEPT ![m] = "running"]
    /\ UNCHANGED <<ingest, media, files, cleanup, deleting, scavenge>>

(* fail_storage_for_media: the file is not there, or Telegram refuses it. *)
FailUpload(m) ==
    /\ media[m].state = "pending"
    /\ upload[m] = "running" \/ (upload[m] = "queued" /\ ~BytesAreThere(m))
    /\ upload' = [upload EXCEPT ![m] = "none"]
    /\ media' = [media EXCEPT ![m].state = "missing"]
    /\ ingest' = Moved(m, {"waiting"}, "unstored")
    /\ cleanup' = WithCleanupForMedia(m)
    /\ UNCHANGED <<files, deleting, scavenge>>

(* The upload is tried again later. *)
RetryUpload(m) ==
    /\ upload[m] = "running"
    /\ upload' = [upload EXCEPT ![m] = "queued"]
    /\ UNCHANGED <<ingest, media, files, cleanup, deleting, scavenge>>

Stored(m) == [media EXCEPT ![m] = [state |-> "ready", path |-> NoDir]]

(* complete_storage_upload *)
CompleteUpload(m) ==
    /\ upload[m] = "running"
    /\ upload' = [upload EXCEPT ![m] = "none"]
    /\ media' = Stored(m)
    /\ ingest' = Moved(m, {"waiting", "unstored"}, "completed")
    /\ cleanup' = WithCleanupForMedia(m)
    /\ UNCHANGED <<files, deleting, scavenge>>

(* mark_storage_upload_unknown *)
LoseUpload(m) ==
    /\ upload[m] = "running"
    /\ upload' = [upload EXCEPT ![m] = "none"]
    /\ media' = [media EXCEPT ![m].state = "unknown"]
    /\ ingest' = Moved(m, Stages, "unstored")
    /\ UNCHANGED <<files, cleanup, deleting, scavenge>>

(* attach_storage_upload *)
AttachUpload(m) ==
    /\ media[m].state = "unknown"
    /\ media' = Stored(m)
    /\ ingest' = Moved(m, {"waiting", "unstored"}, "completed")
    /\ cleanup' = WithCleanupForMedia(m)
    /\ UNCHANGED <<upload, files, deleting, scavenge>>

(* reset_storage_upload's conditions *)
MayReset(m) ==
    /\ media[m].state # "absent"
    /\ upload[m] # "running"
    /\ media[m].path # NoDir
    /\ \A i \in LinkedTo(m) : cleanup[Dir(i)].state # "running"

(* reset_storage_upload *)
ResetUpload(m) ==
    /\ MayReset(m)
    /\ media' = [media EXCEPT ![m].state = "pending"]
    /\ upload' = [upload EXCEPT ![m] = "queued"]
    /\ ingest' = Moved(m, {"completed", "unstored", "waiting"}, "waiting")
    /\ UNCHANGED <<files, cleanup, deleting, scavenge>>

-----------------------------------------------------------------------------
(* Cleanup jobs *)

(* claim_next *)
ClaimCleanup(d) ==
    /\ cleanup[d].state = "queued"
    /\ cleanup[d].attempt < MaxAttempts
    /\ cleanup' = [cleanup EXCEPT ![d] = [state |-> "running", attempt |-> @.attempt + 1]]
    /\ UNCHANGED <<ingest, media, upload, files, deleting, scavenge>>

(* A retry, a deferral and a recovered lease all use the attempt up. *)
Requeued(job) ==
    IF job.attempt >= MaxAttempts THEN [job EXCEPT !.state = "failed"]
                                  ELSE [job EXCEPT !.state = "queued"]

(* Another job of the ingest or of its media is queued or running. *)
HasActiveJob(i) ==
    \/ ingest[i].stage \in Pipeline
    \/ ingest[i].media # NoMedia /\ upload[ingest[i].media] # "none"

(* Faulty variant of StorageAllowsCleanup: unknown storage is given up. *)
StorageAllowsUnknown(i) ==
    ingest[i].media # NoMedia => media[ingest[i].media].state # "pending"

StorageAllowsCleanup(i) ==
    ingest[i].media # NoMedia => media[ingest[i].media].state \in {"ready", "missing"}

(* begin_workspace_cleanup's decision; only the retryable states, which are *)
(* in the pipeline or wait for storage, are not among those it lists.       *)
CleanupReady(d) ==
    LET i == d[1] IN
    \/ Dir(i) # d
    \/ ~HasActiveJob(i) /\ StorageAllowsCleanup(i)

(* begin_workspace_cleanup.  In the current directory it clears the path of *)
(* the media before anything is deleted.                                    *)
BeginCleanup(d) ==
    /\ cleanup[d].state = "running"
    /\ d \notin deleting
    /\ CleanupReady(d)
    /\ deleting' = deleting \cup {d}
    /\ LET m == ingest[d[1]].media IN
       media' = IF Dir(d[1]) = d /\ m # NoMedia
                THEN [media EXCEPT ![m].path = NoDir] ELSE media
    /\ UNCHANGED <<ingest, upload, files, cleanup, scavenge>>

(* begin_workspace_cleanup defers, and the runner settles the job. *)
DeferCleanup(d) ==
    /\ cleanup[d].state = "running"
    /\ d \notin deleting
    /\ ~CleanupReady(d)
    /\ cleanup' = [cleanup EXCEPT ![d] = Requeued(@)]
    /\ UNCHANGED <<ingest, media, upload, files, deleting, scavenge>>

(* cleanup_existing, by a worker that may have lost its lease meanwhile. *)
RemoveWorkspace(d) ==
    /\ d \in deleting
    /\ files' = files \ Contents(d)
    /\ deleting' = deleting \ {d}
    /\ cleanup' = IF cleanup[d].state = "running"
                  THEN [cleanup EXCEPT ![d].state = "succeeded"] ELSE cleanup
    /\ UNCHANGED <<ingest, media, upload, scavenge>>

(* The removal fails, or the worker dies, or its lease expires: the job is  *)
(* settled or recovered, and a stalled worker may still delete.             *)
InterruptCleanup(d) ==
    /\ cleanup[d].state = "running"
    /\ cleanup' = [cleanup EXCEPT ![d] = Requeued(@)]
    /\ deleting' \in {deleting, deleting \ {d}}
    /\ UNCHANGED <<ingest, media, upload, files, scavenge>>

-----------------------------------------------------------------------------
(* Reconciliation of directories *)

(* protected_workspace_ids *)
ProtectedWorkspaces == {Dir(i) : i \in Ingests}

(* reconcile_workspaces reads the protected ids and then walks over the old *)
(* directories; what is created after it began is too young.                *)
StartScavenge ==
    /\ scavenge = {}
    /\ scavenge' = {f[1] : f \in files} \ ProtectedWorkspaces
    /\ scavenge' # {}
    /\ UNCHANGED <<ingest, media, upload, files, cleanup, deleting>>

(* scavenge_completed_workspaces *)
ScavengeWorkspace ==
    /\ \E d \in scavenge :
          /\ files' = files \ Contents(d)
          /\ scavenge' = scavenge \ {d}
    /\ UNCHANGED <<ingest, media, upload, cleanup, deleting>>

(* An error ends the round; the next one starts from a new snapshot. *)
AbandonScavenge ==
    /\ scavenge # {}
    /\ scavenge' = {}
    /\ UNCHANGED <<ingest, media, upload, files, cleanup, deleting>>

-----------------------------------------------------------------------------
(* Specification *)

Next ==
    \/ \E i \in Ingests :
          \/ Download(i) \/ Process(i) \/ ResolveMedia(i) \/ CompleteFinalization(i)
          \/ CompleteIdentity(i) \/ FindDuplicate(i) \/ FailStage(i)
          \/ ForceSave(i) \/ AcceptDuplicate(i)
    \/ \E m \in Medias :
          \/ StartUpload(m) \/ FailUpload(m) \/ RetryUpload(m) \/ CompleteUpload(m)
          \/ LoseUpload(m) \/ AttachUpload(m) \/ ResetUpload(m)
    \/ \E d \in Dirs :
          \/ ClaimCleanup(d) \/ BeginCleanup(d) \/ DeferCleanup(d)
          \/ RemoveWorkspace(d) \/ InterruptCleanup(d)
    \/ StartScavenge \/ ScavengeWorkspace \/ AbandonScavenge

Spec == Init /\ [][Next]_vars

(* The worker reconciles at start-up and every five minutes; a round that  *)
(* keeps starting gets through in the end.                                 *)
FairSpec == Spec /\ WF_vars(StartScavenge) /\ SF_vars(ScavengeWorkspace)

-----------------------------------------------------------------------------
(* Properties *)

(* Bytes that are not stored yet, or may not be, stay on disk: whatever   *)
(* cleanup, reset, scavenger and late workers do, the canonical file that *)
(* local_work_path names is there while storage is pending or unknown.    *)
UnstoredKeepsBytes ==
    \A m \in Medias : media[m].state \in {"pending", "unknown"} => BytesAreThere(m)

(* docs: an upload job that cannot find its bytes is never queued; a job  *)
(* of upload_storage_asset for pending media finds the canonical file.    *)
UploadFindsBytes ==
    \A m \in Medias : upload[m] # "none" /\ media[m].state = "pending" => BytesAreThere(m)

(* A path that is still recorded is a promise: the file exists and nobody  *)
(* has been told to delete it, so the operator may reset the upload.       *)
PathIsKept ==
    \A m \in Medias :
        media[m].path # NoDir =>
            BytesAreThere(m) /\ media[m].path \notin deleting \cup scavenge

(* The stage that identifies the canonical file finds it in the directory  *)
(* of the current generation.                                              *)
StageFindsCanonical ==
    \A i \in Ingests :
        ingest[i].stage \in {"identify", "resolved"} => <<Dir(i), "canonical">> \in files

(* docs: the source of a generation is in that generation's workspace, so  *)
(* probe_asset finds what download_source left, also after a force-save.   *)
DownloadInWorkspace ==
    \A i \in Ingests :
        FromUrl /\ ingest[i].stage = "process" => <<Dir(i), "source">> \in files

(* docs: a deletion that failed is picked up by reconciliation.  The files *)
(* of a completed ingest whose cleanup job has used up its attempts are    *)
(* deleted in the end.                                                     *)
FailedCleanupReconciled ==
    \A i \in Ingests :
        (ingest[i].stage = "completed" /\ cleanup[Dir(i)].state = "failed")
            ~> files \cap Contents(Dir(i)) = {}

=============================================================================
