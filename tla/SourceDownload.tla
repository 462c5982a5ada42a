--------------------------- MODULE SourceDownload ---------------------------
(***************************************************************************)
(* The download of a source into the workspace of its ingest, over HTTP    *)
(* (crates/media/src/direct_http.rs) or from Telegram                      *)
(* (crates/telegram/src/client.rs).  An attempt writes a temporary file    *)
(* chunk by chunk, gives it the name of the attempt once it is complete,   *)
(* and links it to the name the next stage reads.  Attempts overlap: one   *)
(* that lost its lease goes on until it notices.  The server may answer    *)
(* every attempt with another body, and may close the connection early.    *)
(***************************************************************************)
EXTENDS Naturals, FiniteSets

CONSTANTS
    Vias,        \* the sources: "http", "telegram"
    Attempts,
    Bodies,      \* what the server may answer with
    Size,        \* the size of each body
    Limit,       \* the configured byte limit
    None

DownloadAssumption == Limit \in Nat \ {0} /\ Size \in [Bodies -> Nat]

VARIABLES
    via,        \* where this ingest comes from
    dir,        \* the source directory: the name of a file -> its contents
    att,        \* each attempt: its step, the body it gets, the reported size
    lease,      \* the attempt that holds the lease of the job
    recorded    \* the size committed with the download

vars == <<via, dir, att, lease, recorded>>

Source == <<"source", None>>     \* source.bin or telegram-input.bin
Inner(a) == <<"inner", a>>       \* .sooqa-http-*.tmp or .sooqa-download-*.tmp
Attempt(a) == <<"attempt", a>>   \* .sooqa-source-*.tmp or .sooqa-telegram-source-*.tmp

Init ==
    /\ via \in Vias
    /\ dir = [f \in {} |-> None]
    /\ att = [a \in Attempts |-> [pc |-> "new"]]
    /\ lease = None /\ recorded = None

Without(d, names) == [f \in DOMAIN d \ names |-> d[f]]
With(d, name, content) == [f \in DOMAIN d \cup {name} |-> IF f = name THEN content ELSE d[f]]

Goto(a, pc) == att' = [att EXCEPT ![a].pc = pc]

\* The guards of the attempt remove its files, on every way out.
Ends(a, outcome) ==
    /\ att' = [att EXCEPT ![a] = [pc |-> outcome]]
    /\ dir' = Without(dir, {Inner(a), Attempt(a)})
    /\ UNCHANGED <<via, lease, recorded>>

Fail(a) == Ends(a, "failed")

\* The job is claimed, again when the lease of an earlier attempt is lost.
Start(a) ==
    /\ att[a].pc = "new" /\ recorded = None
    /\ Goto(a, "fetch")
    /\ lease' = a
    /\ UNCHANGED <<via, dir, recorded>>

-----------------------------------------------------------------------------
(* The request.                                                            *)

\* DirectHttpDownloader::download: a declared length above the limit is refused.
Fetch(a) ==
    /\ via = "http" /\ att[a].pc = "fetch"
    /\ \/ Fail(a)
       \/ \E b \in Bodies, declared \in BOOLEAN :
            IF declared /\ Size[b] > Limit
            THEN Fail(a)
            ELSE /\ att' = [att EXCEPT ![a] = [pc |-> "open", body |-> b, local |-> FALSE,
                              expected |-> IF declared THEN Size[b] ELSE None]]
                 /\ UNCHANGED <<via, dir, lease, recorded>>

\* TeloxideApi::download_file: the size that Telegram reports, for a local
\* path also the size of the file there.
DownloadFile(a) ==
    /\ via = "telegram" /\ att[a].pc = "fetch"
    /\ \/ Fail(a)
       \/ \E b \in Bodies, local \in BOOLEAN :
            \E size \in IF local THEN {Size[x] : x \in Bodies} ELSE {Size[b]} :
            IF size > Limit \/ Size[b] # size
            THEN Fail(a)
            ELSE /\ att' = [att EXCEPT ![a] = [pc |-> "open", body |-> b, local |-> local, expected |-> size]]
                 /\ UNCHANGED <<via, dir, lease, recorded>>

\* The file at a local path is replaced after its size was read.
LocalFileReplaced(a) ==
    /\ att[a].pc = "open" /\ att[a].local
    /\ \E b \in Bodies \ {att[a].body} : att' = [att EXCEPT ![a].body = b]
    /\ UNCHANGED <<via, dir, lease, recorded>>

OpenTemporaryDownload(a) ==
    /\ att[a].pc = "open"
    /\ Goto(a, "stream")
    /\ dir' = With(dir, Inner(a), [body |-> att[a].body, expected |-> att[a].expected, bytes |-> 0])
    /\ UNCHANGED <<via, lease, recorded>>

-----------------------------------------------------------------------------
(* The body.                                                               *)

Room(bytes) == bytes + 1 <= Limit

\* One chunk, written only if it fits (stream_to_file, LimitedWriter).
Chunk(a) ==
    /\ att[a].pc = "stream" /\ dir[Inner(a)].bytes < Size[att[a].body]
    /\ IF Room(dir[Inner(a)].bytes)
       THEN /\ dir' = [dir EXCEPT ![Inner(a)].bytes = @ + 1]
            /\ UNCHANGED <<via, att, lease, recorded>>
       ELSE Fail(a)

\* The body is over.  One without a declared length, or one from Telegram, may
\* be cut short and look the same; the HTTP client reports a declared length
\* that was not reached, which is StreamBreaks.
StreamEnds(a) ==
    /\ att[a].pc = "stream"
    /\ \/ dir[Inner(a)].bytes = Size[att[a].body]
       \/ (via = "telegram" /\ ~att[a].local) \/ att[a].expected = None
    /\ Goto(a, "finish")
    /\ UNCHANGED <<via, dir, lease, recorded>>

StreamBreaks(a) == att[a].pc = "stream" /\ Fail(a)

ActualSizeFits(a) == dir[Inner(a)].bytes <= Limit /\ dir[Inner(a)].bytes = att[a].expected

\* finish_temporary_download: the size is checked, the file renamed.
FinishTemporaryDownload(a) ==
    /\ via = "telegram" /\ att[a].pc = "finish"
    /\ IF ActualSizeFits(a)
       THEN /\ dir' = Without(With(dir, Attempt(a), dir[Inner(a)]), {Inner(a)})
            /\ Goto(a, "validate")
            /\ UNCHANGED <<via, lease, recorded>>
       ELSE Fail(a)

\* The end of download: linked to the name of the attempt, which is fresh.
LinkAttempt(a) ==
    /\ via = "http" /\ att[a].pc = "finish"
    /\ att' = [att EXCEPT ![a] = [pc |-> "validate", bytes |-> dir[Inner(a)].bytes]]
    /\ dir' = Without(With(dir, Attempt(a), dir[Inner(a)]), {Inner(a)})
    /\ UNCHANGED <<via, lease, recorded>>

-----------------------------------------------------------------------------
(* The handler.                                                            *)

\* validate_downloaded_source, and for Telegram that the file is not empty.
ValidateDownloadedSource(a) ==
    /\ att[a].pc = "validate"
    /\ IF via = "telegram" /\ dir[Attempt(a)].bytes = 0
       THEN Fail(a)
       ELSE Goto(a, "publish") /\ UNCHANGED <<via, dir, lease, recorded>>

\* Mutant: the file is renamed over whatever is there.
PublishOver(a) == dir' = With(dir, Source, dir[Attempt(a)])

\* publish_or_reuse: a hard link, which never replaces a file.  A file that
\* is there is kept, whether its contents are the same or not.
PublishOrReuse(a) ==
    dir' = IF Source \in DOMAIN dir THEN dir ELSE With(dir, Source, dir[Attempt(a)])

\* After a link or a file with the same contents the sizes are compared once
\* more, and are the same; other contents are accepted as they are.
PublishArtifact(a) ==
    /\ att[a].pc = "publish"
    /\ PublishOrReuse(a)
    /\ att' = [att EXCEPT ![a] = [pc |-> "read"]]
    /\ UNCHANGED <<via, lease, recorded>>

\* read_source_artifact: the size of the file that will be used.
ReadSourceArtifact(a) == dir[Source].bytes

ReadSource(a) ==
    /\ att[a].pc = "read"
    /\ IF via = "telegram" /\ dir[Source].bytes = 0
       THEN Fail(a)
       ELSE /\ att' = [att EXCEPT ![a] = [pc |-> "complete", bytes |-> ReadSourceArtifact(a)]]
            /\ UNCHANGED <<via, dir, lease, recorded>>

\* The size is committed under the lease; an overtaken attempt fails here.
CompleteSourceDownload(a) ==
    /\ att[a].pc = "complete"
    /\ IF lease = a
       THEN /\ recorded' = att[a].bytes
            /\ lease' = None
            /\ att' = [att EXCEPT ![a] = [pc |-> "done"]]
            /\ dir' = Without(dir, {Inner(a), Attempt(a)})
            /\ UNCHANGED via
       ELSE Fail(a)

Running(a) == att[a].pc \notin {"new", "done", "failed", "crashed"}

\* The runner drops the handler; an operation of the file system that is in
\* flight still happens and can leave a file that nobody removes.
DropHandler(a) ==
    /\ Running(a)
    /\ \/ Ends(a, "failed")
       \/ /\ att[a].pc = "open"
          /\ dir' = With(dir, Inner(a), [body |-> att[a].body, expected |-> att[a].expected, bytes |-> 0])
          /\ att' = [att EXCEPT ![a] = [pc |-> "crashed"]]
          /\ UNCHANGED <<via, lease, recorded>>
       \/ /\ att[a].pc = "publish"
          /\ PublishOrReuse(a)
          /\ att' = [att EXCEPT ![a] = [pc |-> "crashed"]]
          /\ UNCHANGED <<via, lease, recorded>>

\* The process ends and leaves its files.
Crash(a) ==
    /\ Running(a)
    /\ att' = [att EXCEPT ![a] = [pc |-> "crashed"]]
    /\ UNCHANGED <<via, dir, lease, recorded>>

Next ==
    \E a \in Attempts :
        \/ Start(a) \/ Fetch(a) \/ DownloadFile(a) \/ LocalFileReplaced(a)
        \/ OpenTemporaryDownload(a) \/ Chunk(a) \/ StreamEnds(a) \/ StreamBreaks(a)
        \/ FinishTemporaryDownload(a) \/ LinkAttempt(a) \/ ValidateDownloadedSource(a)
        \/ PublishArtifact(a) \/ ReadSource(a) \/ CompleteSourceDownload(a)
        \/ DropHandler(a) \/ Crash(a)

Spec == Init /\ [][Next]_vars

-----------------------------------------------------------------------------

(* What the next stage reads was not cut short by a connection that was    *)
(* closed early, nor mixed up by a file that was replaced, as soon as the  *)
(* size was known beforehand, as it always is with Telegram                *)
(* (finish_temporary_download).                                            *)
SourceWhole ==
    Source \in DOMAIN dir /\ (via = "telegram" \/ dir[Source].expected # None) =>
        dir[Source].bytes = Size[dir[Source].body]

(* The size that was committed is the size of the file the next stage      *)
(* reads, for ever: an overtaken attempt that finishes later, with another *)
(* body, neither replaces the file nor commits its own size                *)
(* (publish_or_reuse, complete_source_download).                           *)
RecordedIsSource ==
    recorded # None => Source \in DOMAIN dir /\ dir[Source].bytes = recorded

=============================================================================
