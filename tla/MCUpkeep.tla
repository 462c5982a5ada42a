------------------------------- MODULE MCUpkeep -------------------------------
(***************************************************************************)
(* What keeps the installation in order.  Each behaviour runs one          *)
(* component: the captions of the storage messages (CaptionSync), the      *)
(* pruning of terminal jobs (JobRetention, once with the kinds of job that *)
(* have an external effect and once with the others), the removal of       *)
(* workspaces (WorkspaceCleanup, with videos and with images) or a client  *)
(* that walks through a listing (KeysetPages).  The variables of the       *)
(* others keep the value Off.                                              *)
(***************************************************************************)
EXTENDS Naturals, Sequences, TLC

CONSTANTS None, Off, Workers, NoMedia, NoDir, A, B, M1, M2

VARIABLES
    part,
    storage, upload, meta, gen, sync, claim, jobs, work, caption, late, shown, faults,
    untracked,
    row, owner, pass, saved, now, misses,
    ingest, media, uploads, files, cleanup, deleting, scavenge,
    listing, key, hidden, walk, touched

Captions == INSTANCE CaptionSync WITH
    Texts <- {"t1", "t2"}, MaxJobs <- 2, MaxAttempts <- 2, MaxGeneration <- 2,
    MaxFaults <- 1, MaxUntracked <- 1

External == <<"publish", "upload", "caption">>
Internal == <<"inspect", "materialize", "cleanup">>

Retention(kinds, restarts) == INSTANCE JobRetention WITH
    Jobs <- {1, 2, 3}, Kind <- kinds,
    After <- "succeeded" :> 1 @@ "cancelled" :> 1 @@ "failed" :> 2,
    BatchSize <- 1, ScanSize <- 2, MaxNow <- 3, MaxFaults <- restarts, faults <- misses

(* Two Telegram videos with different bytes that look alike. *)
Workspace == INSTANCE WorkspaceCleanup WITH
    Ingests <- {A, B}, Medias <- {M1, M2}, Bytes <- A :> M1 @@ B :> M2,
    FromUrl <- FALSE, Video <- TRUE, MaxAttempts <- 2, upload <- uploads

(* Two submitted links to the same image. *)
Linked == INSTANCE WorkspaceCleanup WITH
    Ingests <- {A, B}, Medias <- {M1}, Bytes <- A :> M1 @@ B :> M1,
    FromUrl <- TRUE, Video <- FALSE, MaxAttempts <- 2, upload <- uploads

(* Three rows with two timestamps. *)
Pages == INSTANCE KeysetPages WITH
    Listings <- {"ingests", "media", "lookup", "posts"}, Rows <- {1, 2, 3},
    Times <- {2, 3}, Matching <- {1, 3}, Limits <- {0, 1, 2}

ASSUME Captions!CaptionSyncAssumption
ASSUME Retention(External, 0)!RetentionAssumption
ASSUME Retention(Internal, 1)!RetentionAssumption
ASSUME Workspace!CleanupBytesAssumption /\ Workspace!CleanupShapeAssumption
       /\ Workspace!CleanupAttemptsAssumption
ASSUME Linked!CleanupBytesAssumption /\ Linked!CleanupShapeAssumption
ASSUME Pages!PagesAssumption

-----------------------------------------------------------------------------

captionVars == <<storage, upload, meta, gen, sync, claim, jobs, work, caption, late, shown,
                 faults, untracked>>
retentionVars == <<row, owner, pass, saved, now, misses>>
workspaceVars == <<ingest, media, uploads, files, cleanup, deleting, scavenge>>
pageVars == <<listing, key, hidden, walk, touched>>
vars == <<part, captionVars, retentionVars, workspaceVars, pageVars>>

CaptionsOff ==
    /\ storage = Off /\ upload = Off /\ meta = Off /\ gen = Off /\ sync = Off
    /\ claim = Off /\ jobs = Off /\ work = Off /\ caption = Off /\ late = Off
    /\ shown = Off /\ faults = Off /\ untracked = Off
RetentionOff ==
    row = Off /\ owner = Off /\ pass = Off /\ saved = Off /\ now = Off /\ misses = Off
WorkspaceOff ==
    /\ ingest = Off /\ media = Off /\ uploads = Off /\ files = Off /\ cleanup = Off
    /\ deleting = Off /\ scavenge = Off
PagesOff == listing = Off /\ key = Off /\ hidden = Off /\ walk = Off /\ touched = Off

Init ==
    /\ part \in {"captions", "external", "internal", "workspace", "linked", "pages"}
    /\ \/ part = "captions" /\ Captions!Init
       \/ part # "captions" /\ CaptionsOff
    /\ \/ part \in {"external", "internal"} /\ Retention(External, 0)!Init
       \/ part \notin {"external", "internal"} /\ RetentionOff
    /\ \/ part = "workspace" /\ Workspace!Init
       \/ part = "linked" /\ Linked!Init
       \/ part \notin {"workspace", "linked"} /\ WorkspaceOff
    /\ \/ part = "pages" /\ Pages!Init
       \/ part # "pages" /\ PagesOff

Next ==
    \/ /\ part = "captions" /\ Captions!Next
       /\ UNCHANGED <<part, retentionVars, workspaceVars, pageVars>>
    \/ /\ \/ part = "external" /\ Retention(External, 0)!Next
          \/ part = "internal" /\ Retention(Internal, 1)!Next
       /\ UNCHANGED <<part, captionVars, workspaceVars, pageVars>>
    \/ /\ \/ part = "workspace" /\ Workspace!Next
          \/ part = "linked" /\ Linked!Next
       /\ UNCHANGED <<part, captionVars, retentionVars, pageVars>>
    \/ /\ part = "pages" /\ Pages!Next
       /\ UNCHANGED <<part, captionVars, retentionVars, workspaceVars>>

Spec == Init /\ [][Next]_vars

Alike == Permutations(Workers)

-----------------------------------------------------------------------------

(* complete_caption_sync records a generation as synced only when its      *)
(* metadata has been on the storage message, whatever crashes, lost leases *)
(* and late answers come between.  While no worker fails, a caption that   *)
(* waits has a job of its generation, and a synced one with no edit on its *)
(* way shows the metadata of the row: edits of older generations that land *)
(* late are made good by the reapply.                                      *)
CaptionCurrent ==
    part = "captions" =>
        /\ Captions!SyncedWasShown
        /\ faults = 0 => Captions!CaptionCurrent /\ Captions!PendingHasJob

(* The row of a job whose effect is not settled is kept: the terminal row  *)
(* of an unknown publication, an unknown or failed upload, a failed        *)
(* materialization and a failed cleanup is what reconciliation and retries *)
(* start from (terminal_job_retention_eligible of every owner).            *)
UnresolvedKeepsJob ==
    /\ part = "external" => Retention(External, 0)!UnresolvedKeepsJob
    /\ part = "internal" => Retention(Internal, 1)!UnresolvedKeepsJob

(* Whatever cleanup, reset, scavenger and late workers do, the canonical   *)
(* file that local_work_path names is there while storage is pending or    *)
(* unknown, and nobody has been told to delete it while the path is        *)
(* recorded (begin_workspace_cleanup, reset_storage_upload); and a stage   *)
(* finds the canonical file that the stage before it left.                 *)
UnstoredKeepsBytes ==
    /\ part = "workspace" => Workspace!UnstoredKeepsBytes /\ Workspace!PathIsKept
    /\ part = "linked" => Linked!StageFindsCanonical

(* A client that follows the cursors to the last page has got every row    *)
(* that nobody inserted or changed meanwhile exactly once, also among rows *)
(* with one timestamp, and no ingest twice (list_admin, search_media,      *)
(* lookup_media, list_posts).                                              *)
UntouchedListedOnce ==
    part = "pages" => Pages!UntouchedListedOnce /\ Pages!NoIngestTwice

=============================================================================
