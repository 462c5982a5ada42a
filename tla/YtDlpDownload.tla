---------------------------- MODULE YtDlpDownload ----------------------------
(***************************************************************************)
(* One call of YtDlpDownloader::download (crates/media/src/ytdlp.rs): up   *)
(* to three runs of yt-dlp, each in a directory of its own, watched by the *)
(* process runner (command.rs), the result linked to the destination and   *)
(* the directory removed by a guard (TempDirectory of publication.rs).     *)
(* The call may be dropped at every await.                                 *)
(*                                                                         *)
(* The destination is a path made for this call alone (SourceDownload), so *)
(* linking to it finds nothing there.  The runner's look at the directory  *)
(* is one step: nobody removes files meanwhile (compare FrameExtraction).  *)
(***************************************************************************)
EXTENDS Integers, FiniteSets, FiniteSetsExt, Functions

CONSTANTS
    MaxBytes,     \* limits.max_bytes
    Multiplier,   \* YTDLP_ATTEMPT_MAX_BYTES_MULTIPLIER
    Burst,        \* what yt-dlp writes at most from a look to the next, or to its death
    None

YtDlpDownloadAssumption ==
    MaxBytes \in Nat \ {0} /\ Multiplier \in Nat \ {0} /\ Burst \in Nat \ {0}

VARIABLES
    family,     \* provider_family
    pc,
    attempt,    \* the run in progress
    dir,        \* which attempt directories exist
    files,      \* the files of each directory, with their sizes
    proc,       \* the process: "none", "run", "dying", or how it exited
    stderr,     \* what it said
    looked,     \* the size the monitor saw last
    dest,       \* the destination: the run it came from and its size
    result,     \* what download returns
    guard       \* the removal by a guard that was dropped with the call

vars == <<family, pc, attempt, dir, files, proc, stderr, looked, dest, result, guard>>

Tries == 1 .. 3
Names == {"final", "part"}
Markers == {"media_403", "auth", "unavailable", "surface", "transient"}
NoFiles == [n \in {} |-> 0]

AttemptMaxBytes == Multiplier * MaxBytes
Format(k) == IF k < 3 THEN "high_quality" ELSE "progressive"
Size(k) == MapThenSumSet(LAMBDA n : files[k][n], DOMAIN files[k])

HasExited == proc \in {"ok", "noisy", "fail"}

Init ==
    /\ family \in {"youtube", "x"}
    /\ pc = "reserve" /\ attempt = 1
    /\ dir = [k \in Tries |-> FALSE] /\ files = [k \in Tries |-> NoFiles]
    /\ proc = "none" /\ stderr = {} /\ looked = 0
    /\ dest = None /\ result = None /\ guard = "none"

-----------------------------------------------------------------------------
(* yt-dlp: external.                                                       *)

WriteFile(n) ==
    /\ dir[attempt] /\ Size(attempt) < looked + Burst
    /\ files' = [files EXCEPT ![attempt] =
                    [m \in DOMAIN @ \cup {n} |-> (IF m \in DOMAIN @ THEN @[m] ELSE 0) + (IF m = n THEN 1 ELSE 0)]]

YtDlpWrites ==
    /\ proc = "run"
    /\ \E n \in Names : WriteFile(n)
    /\ UNCHANGED <<family, pc, attempt, dir, proc, stderr, looked, dest, result, guard>>

\* It fails with any message, and succeeds with or without a file: it skips
\* one that it knows to exceed --max-filesize.
YtDlpExits ==
    /\ proc = "run"
    /\ \/ proc' \in {"ok", "noisy"} /\ UNCHANGED stderr
       \/ proc' = "fail" /\ stderr' \in SUBSET Markers
    /\ UNCHANGED <<family, pc, attempt, dir, files, looked, dest, result, guard>>

\* A killed process may still finish the call it is in.
YtDlpDies ==
    /\ proc = "dying"
    /\ proc' = "none"
    /\ (\E n \in Names : WriteFile(n)) \/ UNCHANGED files
    /\ UNCHANGED <<family, pc, attempt, dir, stderr, looked, dest, result, guard>>

-----------------------------------------------------------------------------
(* How a run ends.                                                         *)

IsMediaDataForbidden(class) == class = "media_forbidden"

\* The guard of download_with_format goes out of scope; the process is dead.
DropDirectory ==
    /\ dir' = [dir EXCEPT ![attempt] = FALSE]
    /\ files' = [files EXCEPT ![attempt] = NoFiles]

\* download: what follows a failure.
NextAttempt(class) ==
    IF IsMediaDataForbidden(class) /\ attempt < 3
    THEN pc' = "reserve" /\ attempt' = attempt + 1 /\ UNCHANGED result
    ELSE pc' = "done" /\ result' = [class |-> class] /\ UNCHANGED attempt

AttemptFails(class) ==
    /\ DropDirectory /\ NextAttempt(class)
    /\ proc' = "none" /\ stderr' = {} /\ looked' = 0
    /\ UNCHANGED <<family, dest, guard>>

\* map_process_failure: the first that matches.
MapProcessFailure ==
    IF family = "youtube" /\ "media_403" \in stderr THEN "media_forbidden"
    ELSE IF "auth" \in stderr THEN "auth_required"
    ELSE IF "unavailable" \in stderr THEN "content_unavailable"
    ELSE IF "surface" \in stderr THEN "unsupported_surface"
    ELSE IF "transient" \in stderr THEN "upstream" ELSE "process"

-----------------------------------------------------------------------------
(* download_with_format.                                                   *)

Reserve ==
    /\ pc = "reserve"
    /\ \/ /\ dir' = [dir EXCEPT ![attempt] = TRUE] /\ pc' = "spawn"
          /\ UNCHANGED <<family, attempt, files, proc, stderr, looked, dest, result, guard>>
       \/ AttemptFails("destination_io")

Spawn ==
    /\ pc = "spawn"
    /\ \/ /\ proc' = "run" /\ pc' = "watch" /\ looked' = 0
          /\ UNCHANGED <<family, attempt, dir, files, stderr, dest, result, guard>>
       \/ AttemptFails("command")

\* monitor_output_limit; a look may fail.
MonitorOutputLimit ==
    /\ pc = "watch" /\ ~HasExited
    /\ \/ /\ Size(attempt) <= AttemptMaxBytes
          /\ looked' = Size(attempt) /\ UNCHANGED pc
       \/ /\ Size(attempt) > AttemptMaxBytes
          /\ pc' = "too_large" /\ UNCHANGED looked
       \/ pc' = "command" /\ UNCHANGED looked
    /\ UNCHANGED <<family, attempt, dir, files, proc, stderr, dest, result, guard>>

TimesOut ==
    /\ pc = "watch" /\ proc = "run"
    /\ pc' = "timeout"
    /\ UNCHANGED <<family, attempt, dir, files, proc, stderr, looked, dest, result, guard>>

\* TERM, KILL and wait; yt-dlp may write until it is dead.
Terminated ==
    /\ pc \in {"too_large", "command", "timeout"}
    /\ AttemptFails(pc)

\* The process has ended: the last look at the directory, its output, its
\* status.
RunSequence ==
    /\ pc = "watch" /\ HasExited
    /\ \/ AttemptFails("command")
       \/ Size(attempt) > AttemptMaxBytes /\ AttemptFails("too_large")
       \/ /\ Size(attempt) <= AttemptMaxBytes /\ proc = "noisy"
          /\ AttemptFails("output_limit")
       \/ /\ Size(attempt) <= AttemptMaxBytes /\ proc = "fail"
          /\ AttemptFails(MapProcessFailure)
       \/ /\ Size(attempt) <= AttemptMaxBytes /\ proc = "ok"
          /\ pc' = "publish"
          /\ UNCHANGED <<family, attempt, dir, files, proc, stderr, looked, dest, result, guard>>

\* Mutant: any file of the run will do.
SomeRegularFile == DOMAIN files[attempt]

\* The files that can be the result: the only one there is.
SingleRegularFile == IF Cardinality(DOMAIN files[attempt]) = 1 THEN DOMAIN files[attempt] ELSE {}

\* A look at the file or the link may fail.
Publish ==
    /\ pc = "publish"
    /\ \/ SingleRegularFile = {} /\ AttemptFails("destination_io")
       \/ \E n \in SingleRegularFile :
            \/ files[attempt][n] > MaxBytes /\ AttemptFails("too_large")
            \/ /\ files[attempt][n] <= MaxBytes
               /\ dest' = [run |-> attempt, parts |-> Cardinality(DOMAIN files[attempt]), bytes |-> files[attempt][n]]
               /\ pc' = "linked"
               /\ UNCHANGED <<family, attempt, dir, files, proc, stderr, looked, result, guard>>
            \/ AttemptFails("destination_io")

Return ==
    /\ pc = "linked"
    /\ DropDirectory
    /\ pc' = "done" /\ proc' = "none" /\ stderr' = {} /\ looked' = 0
    /\ result' = [class |-> "ok", format |-> Format(attempt), bytes |-> dest.bytes]
    /\ UNCHANGED <<family, attempt, dest, guard>>

-----------------------------------------------------------------------------
(* The call is dropped: the runner's locals first, which kills the process *)
(* group, then the guard, which removes the directory before the process   *)
(* is known to be dead.  A create_dir in progress goes on in its thread    *)
(* and no guard is there yet; a link in progress is the caller's to remove  *)
(* (SourceDownload).                                                       *)

Drop ==
    /\ pc # "done"
    /\ pc' = "done" /\ result' = [class |-> "dropped"]
    /\ IF pc = "reserve" THEN guard' \in {"creating", "none"} ELSE guard' = "unlink"
    /\ proc' = (IF proc = "run" THEN "dying" ELSE "none") /\ stderr' = {}
    /\ UNCHANGED <<family, attempt, dir, files, looked, dest>>

CreateDirGoesOn ==
    /\ guard = "creating"
    /\ dir' = [dir EXCEPT ![attempt] = TRUE] /\ guard' = "none"
    /\ UNCHANGED <<family, pc, attempt, files, proc, stderr, looked, dest, result>>

\* remove_dir_all: the files, then the directory, which must be empty.
Unlink ==
    /\ guard = "unlink"
    /\ files' = [files EXCEPT ![attempt] = NoFiles] /\ guard' = "rmdir"
    /\ UNCHANGED <<family, pc, attempt, dir, proc, stderr, looked, dest, result>>

RemoveDir ==
    /\ guard = "rmdir"
    /\ dir' = [dir EXCEPT ![attempt] = @ /\ files[attempt] # NoFiles] /\ guard' = "none"
    /\ UNCHANGED <<family, pc, attempt, files, proc, stderr, looked, dest, result>>

Call == Reserve \/ Spawn \/ MonitorOutputLimit \/ Terminated \/ RunSequence \/ Publish \/ Return
Removal == CreateDirGoesOn \/ Unlink \/ RemoveDir

Next == YtDlpWrites \/ YtDlpExits \/ YtDlpDies \/ Call \/ TimesOut \/ Drop \/ Removal

Spec == Init /\ [][Next]_vars

-----------------------------------------------------------------------------
(* The destination is the only file of a run that succeeded and within the *)
(* byte limit, and the format and size that the call reports are those of  *)
(* that run, whichever of the three it was (download_with_format).         *)
ReportsWhatItPublished ==
    /\ dest # None => dest.parts = 1 /\ dest.bytes <= MaxBytes
    /\ result # None /\ result.class = "ok" =>
         dest # None /\ result = [class |-> "ok", format |-> Format(dest.run), bytes |-> dest.bytes]

(* The three runs of a call never need more room than one: at every moment *)
(* the files of all runs, the destination included, stay within the        *)
(* aggregate limit of one run and what is written between two looks, which *)
(* is what the admission of the download sets aside                        *)
(* (YTDLP_ATTEMPT_MAX_BYTES_MULTIPLIER).                                   *)
RoomForOneRun ==
    MapThenSumSet(LAMBDA k : Size(k), Tries) + (IF pc = "done" /\ dest # None THEN dest.bytes ELSE 0) <= AttemptMaxBytes + Burst

(* The call ends whatever yt-dlp does, and so do the processes it started: *)
(* each of at most three runs has a deadline.                              *)
DownloadEnds == <>(pc = "done" /\ proc = "none")

(* "Cleanup is synchronous in `Drop` so cancellation, shutdown, and every  *)
(* error path remove the complete attempt even when the async operation is *)
(* dropped between await points" (TempDirectory).                          *)
AttemptRemoved ==
    pc = "done" /\ proc = "none" /\ guard = "none" => \A k \in Tries : ~dir[k]
=============================================================================
