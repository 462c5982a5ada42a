------------------------- MODULE ImageNormalization -------------------------
(***************************************************************************)
(* Normalising one image (apps/worker/src/normalization.rs,                *)
(* normalize_image_asset; crates/media/src/image_normalize.rs): an attempt *)
(* of the job decodes the source, makes sure that a canonical image and    *)
(* then a thumbnail stand at their fixed paths, hashes both and records    *)
(* the digests under its lease.  All attempts share one workspace.         *)
(*                                                                         *)
(* The encoding runs on a blocking thread.  Dropping the handler's future  *)
(* (a lost lease, a shutdown) does not stop that thread: it goes on        *)
(* writing and removing files, only the hashing and the settlement after   *)
(* it are never reached.                                                   *)
(*                                                                         *)
(* A file is its content.  Encoders repeat themselves, or (Repeatable      *)
(* FALSE) give each attempt bytes of its own, as a new build may.          *)
(***************************************************************************)
EXTENDS Naturals, FiniteSets

CONSTANTS
    MaxAttempts,   \* max_attempts of the job
    Repeatable,    \* equal images are encoded to equal bytes
    None,          \* no file, no digest
    Overtaken      \* a lease may expire under an attempt that still runs

ImageAssumption ==
    /\ MaxAttempts \in Nat \ {0}
    /\ Repeatable \in BOOLEAN
    /\ Overtaken \in BOOLEAN

VARIABLES
    small,     \* the canonical image fits max_normalized_storage_bytes
    file,      \* the content at the two output paths
    job,       \* the job row and the digests on the ingest
    att        \* the attempts

vars == <<small, file, job, att>>

Attempts == 1 .. MaxAttempts

Outputs == {"canonical", "thumbnail"}

Bytes == 0 .. MaxAttempts

(* encode_image_bytes, encode_bounded_preview: what an attempt encodes *)
Encoded(a) == IF Repeatable THEN 0 ELSE a

(* The steps of an attempt: encode_image on the blocking thread goes       *)
(* through look and link for each output, execute hashes each, and         *)
(* normalize_asset settles.                                                *)
Blocking == {"look_canonical", "link_canonical", "again_canonical",
             "look_thumbnail", "link_thumbnail", "again_thumbnail"}

Look(o)  == IF o = "canonical" THEN "look_canonical" ELSE "look_thumbnail"
Link(o)  == IF o = "canonical" THEN "link_canonical" ELSE "link_thumbnail"
Again(o) == IF o = "canonical" THEN "again_canonical" ELSE "again_thumbnail"
Hash(o)  == IF o = "canonical" THEN "hash_canonical" ELSE "hash_thumbnail"

Hashing == {"hash_canonical", "hash_thumbnail"}

Steps == {"idle", "settle", "fail", "ended"} \cup Blocking \cup Hashing

Fresh == [step |-> "idle", created |-> {}, digest |-> [o \in Outputs |-> None], awaited |-> TRUE]

(* Init: a job that waits, no output *)
Init ==
    /\ small \in BOOLEAN
    /\ file = [o \in Outputs |-> None]
    /\ job = [state |-> "queued", attempt |-> 0, recorded |-> None]
    /\ att = [a \in Attempts |-> Fresh]

Holds(a) == job.state = "running" /\ job.attempt = a

(* normalize_image_asset: prepare the workspace, plan, start the thread *)
StartAttempt(a) ==
    /\ job.state = "queued"
    /\ a = job.attempt + 1
    /\ job' = [job EXCEPT !.state = "running", !.attempt = a]
    /\ att' = [att EXCEPT ![a].step = Look("canonical")]
    /\ UNCHANGED <<small, file>>

(* Where an attempt goes once output o stands: the next output, then the   *)
(* hashes if anybody still awaits the thread.                              *)
AfterEnsured(a, o) ==
    IF o = "canonical" THEN Look("thumbnail")
    ELSE IF att[a].awaited THEN Hash("canonical") ELSE "ended"

AfterError(a) == IF att[a].awaited THEN "fail" ELSE "ended"

(* encode_image's error path and cleanup_outputs: an attempt that fails    *)
(* removes the outputs that it created itself.                             *)
FilesAfterError(a) == [o \in Outputs |-> IF o \in att[a].created THEN None ELSE file[o]]

ErrorOut(a) ==
    /\ file' = FilesAfterError(a)
    /\ att' = [att EXCEPT ![a].step = AfterError(a), ![a].created = {}]

Ensured(a, o, created) ==
    att' = [att EXCEPT ![a].step = AfterEnsured(a, o),
                       ![a].created = IF created THEN @ \cup {o} ELSE @]

(* existing_output_dimensions: only an output with the bytes that the      *)
(* attempt would write is taken for its own                                *)
Acceptable(a, o) == file[o] = Encoded(a)

(* ensure_output, ensure_bounded_preview_output: look for the output first *)
LookFor(a, o) ==
    /\ att[a].step = Look(o)
    /\ \/ /\ file[o] = None
          /\ att' = [att EXCEPT ![a].step = Link(o)]
          /\ UNCHANGED file
       \/ /\ file[o] # None
          /\ Acceptable(a, o)
          /\ Ensured(a, o, FALSE)
          /\ UNCHANGED file
       \/ /\ file[o] # None
          /\ ~Acceptable(a, o)
          /\ ErrorOut(a)
    /\ UNCHANGED <<small, job>>

(* Faulty variant of WriteImage: the temporary file is renamed into place. *)
WriteImageByRename(a, o) ==
    /\ att[a].step = Link(o)
    /\ file' = [file EXCEPT ![o] = Encoded(a)]
    /\ Ensured(a, o, TRUE)
    /\ UNCHANGED <<small, job>>

(* write_image: a private temporary file, then a hard link, which fails if *)
(* the path exists                                                         *)
WriteImage(a, o) ==
    /\ att[a].step = Link(o)
    /\ \/ /\ file[o] = None
          /\ file' = [file EXCEPT ![o] = Encoded(a)]
          /\ Ensured(a, o, TRUE)
       \/ /\ file[o] # None
          /\ att' = [att EXCEPT ![a].step = Again(o)]
          /\ UNCHANGED file
    /\ UNCHANGED <<small, job>>

(* The second look after OutputExists; an output that has gone again is an *)
(* error                                                                   *)
LookAgain(a, o) ==
    /\ att[a].step = Again(o)
    /\ \/ /\ file[o] # None
          /\ Acceptable(a, o)
          /\ Ensured(a, o, FALSE)
          /\ UNCHANGED file
       \/ /\ file[o] # None => ~Acceptable(a, o)
          /\ ErrorOut(a)
    /\ UNCHANGED <<small, job>>

(* A decoding, encoding or file error on the blocking thread *)
EncodingFails(a) ==
    /\ att[a].step \in Blocking
    /\ ErrorOut(a)
    /\ UNCHANGED <<small, job>>

(* execute: sha256_file of an output; a missing or unreadable file ends in *)
(* cleanup_outputs                                                         *)
HashOutput(a, o) ==
    /\ att[a].step = Hash(o)
    /\ \/ /\ file[o] # None
          /\ att' = [att EXCEPT ![a].digest[o] = file[o],
                                ![a].step = IF o = "canonical" THEN Hash("thumbnail")
                                            ELSE IF small THEN "settle" ELSE "fail"]
          /\ UNCHANGED file
       \/ ErrorOut(a)
    /\ UNCHANGED <<small, job>>

(* settle_normalization: complete_asset_normalization under the lease *)
Record(a) ==
    /\ att[a].step = "settle"
    /\ att' = [att EXCEPT ![a] = [Fresh EXCEPT !.step = "ended"]]
    /\ job' = IF Holds(a)
              THEN [job EXCEPT !.state = "succeeded", !.recorded = att[a].digest]
              ELSE job
    /\ UNCHANGED <<small, file>>

(* fail_normalization: every image error is permanent *)
Fail(a) ==
    /\ att[a].step = "fail"
    /\ att' = [att EXCEPT ![a] = [Fresh EXCEPT !.step = "ended"]]
    /\ job' = IF Holds(a) THEN [job EXCEPT !.state = "failed"] ELSE job
    /\ UNCHANGED <<small, file>>

(* recover_stale_leases *)
LoseLease(a) ==
    /\ Holds(a)
    /\ ~Overtaken => att[a].step = "ended"
    /\ job' = [job EXCEPT !.state = IF a < MaxAttempts THEN "queued" ELSE "failed"]
    /\ UNCHANGED <<small, file, att>>

(* The runner drops the future of an attempt whose lease is lost or whose  *)
(* worker shuts down; a blocking thread runs on.  A shutdown returns the   *)
(* job to the queue.                                                       *)
Cancel(a) ==
    /\ att[a].awaited
    /\ att[a].step \in Blocking \cup Hashing
    /\ Holds(a) => Overtaken
    /\ job' = IF Holds(a)
              THEN [job EXCEPT !.state = IF a < MaxAttempts THEN "queued" ELSE "failed"]
              ELSE job
    /\ att' = [att EXCEPT ![a] =
                  IF @.step \in Blocking THEN [@ EXCEPT !.awaited = FALSE]
                  ELSE [Fresh EXCEPT !.step = "ended"]]
    /\ UNCHANGED <<small, file>>

(* The worker's process dies *)
Kill(a) ==
    /\ att[a].step \notin {"idle", "ended"}
    /\ att' = [att EXCEPT ![a] = [Fresh EXCEPT !.step = "ended"]]
    /\ UNCHANGED <<small, file, job>>

Next ==
    \E a \in Attempts :
        \/ StartAttempt(a)
        \/ \E o \in Outputs : LookFor(a, o)
        \/ \E o \in Outputs : WriteImage(a, o)
        \/ \E o \in Outputs : LookAgain(a, o)
        \/ EncodingFails(a)
        \/ \E o \in Outputs : HashOutput(a, o)
        \/ Record(a)
        \/ Fail(a)
        \/ LoseLease(a)
        \/ Cancel(a)
        \/ Kill(a)

Spec == Init /\ [][Next]_vars

-----------------------------------------------------------------------------

(* Every variable has its type: what an attempt created, hashed and the    *)
(* row recorded are outputs and contents of this job.                      *)
TypeOK ==
    /\ small \in BOOLEAN
    /\ file \in [Outputs -> Bytes \cup {None}]
    /\ job \in [state : {"queued", "running", "succeeded", "failed"},
                attempt : 0 .. MaxAttempts,
                recorded : {None} \cup [Outputs -> Bytes]]
    /\ att \in [Attempts -> [step : Steps, created : SUBSET Outputs,
                             digest : [Outputs -> Bytes \cup {None}], awaited : BOOLEAN]]

(* The digests that complete_asset_normalization recorded are those of the *)
(* files at the output paths, as long as those files exist: no attempt     *)
(* puts other bytes where the row says there are these.                    *)
RecordedBytesUnchanged ==
    job.recorded # None =>
        \A o \in Outputs : file[o] \in {None, job.recorded[o]}

(* After the digests are recorded the two files stay: the storage job of   *)
(* the ingest reads them at the recorded paths.  True when an attempt ends *)
(* before its lease is given to another.                                   *)
RecordedArtifactKept ==
    job.recorded # None => file = job.recorded

(* Both outputs of one recorded normalisation come from the same attempt   *)
(* or from attempts that encode alike: the thumbnail shows the canonical.  *)
RecordedPairAgrees ==
    job.recorded # None => job.recorded["canonical"] = job.recorded["thumbnail"]

=============================================================================
