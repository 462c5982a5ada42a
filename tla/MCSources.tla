------------------------------ MODULE MCSources -------------------------------
(***************************************************************************)
(* How a submitted source is fetched.  Each behaviour runs one component:  *)
(* the choice of a downloader with mirrors and redirects (SourceRouting),  *)
(* the attempts to write the source file (SourceDownload), the inspection  *)
(* of a page by yt-dlp (YtDlpInspection) or a download by yt-dlp           *)
(* (YtDlpDownload).  The variables of the others keep the value Off.       *)
(***************************************************************************)
EXTENDS Naturals, TLC

CONSTANTS None, Off, Attempts, Mirror1, Mirror2, Mirror3, Page, Other, Public, Private

VARIABLES
    part,
    source, config, run, inspection, attempts, restarts, tried, connected, ytdlp,
    via, dir, att, lease, recorded,
    page, pc, current, hops, described, asked, given, honest,
    family, call, attempt, dirs, files, proc, stderr, looked, dest, result, guard

(* A mirrored host, a page that yt-dlp may open, and another page. *)
Routing == INSTANCE SourceRouting WITH
    Sources <- {Mirror2, Page, Other},
    Hosts <- {Mirror1, Mirror2, Mirror3, Page, Other},
    Mirrors <- <<Mirror1, Mirror2, Mirror3>>,
    Addresses <- {Public, Private}, Blocked <- {Private},
    Configs <- {[enabled |-> TRUE, allowed |-> {Page, Other}],
                [enabled |-> TRUE, allowed |-> {Page}],
                [enabled |-> FALSE, allowed |-> {Page}]},
    MaxRedirects <- 2, MaxAttempts <- 3, MaxRestarts <- 1

(* Bodies that are empty, as long as the limit, and longer. *)
Download == INSTANCE SourceDownload WITH
    Vias <- {"http", "telegram"}, Bodies <- {0, 2, 3}, Size <- [b \in {0, 2, 3} |-> b],
    Limit <- 2

Inspection == INSTANCE YtDlpInspection WITH
    MaxRedirects <- 1, source <- page, inspection <- described

YtDlp == INSTANCE YtDlpDownload WITH
    MaxBytes <- 1, Multiplier <- 3, Burst <- 2, pc <- call, dir <- dirs

ASSUME Routing!RoutingAssumption
ASSUME Download!DownloadAssumption
ASSUME Inspection!YtDlpInspectionAssumption
ASSUME YtDlp!YtDlpDownloadAssumption

-----------------------------------------------------------------------------

routingVars == <<source, config, run, inspection, attempts, restarts, tried, connected,
                 ytdlp>>
downloadVars == <<via, dir, att, lease, recorded>>
inspectionVars == <<page, pc, current, hops, described, asked, given, honest>>
ytdlpVars == <<family, call, attempt, dirs, files, proc, stderr, looked, dest, result,
               guard>>
vars == <<part, routingVars, downloadVars, inspectionVars, ytdlpVars>>

RoutingOff ==
    /\ source = Off /\ config = Off /\ run = Off /\ inspection = Off /\ attempts = Off
    /\ restarts = Off /\ tried = Off /\ connected = Off /\ ytdlp = Off
DownloadOff == via = Off /\ dir = Off /\ att = Off /\ lease = Off /\ recorded = Off
InspectionOff ==
    /\ page = Off /\ pc = Off /\ current = Off /\ hops = Off /\ described = Off
    /\ asked = Off /\ given = Off /\ honest = Off
YtDlpOff ==
    /\ family = Off /\ call = Off /\ attempt = Off /\ dirs = Off /\ files = Off
    /\ proc = Off /\ stderr = Off /\ looked = Off /\ dest = Off /\ result = Off
    /\ guard = Off

Init ==
    /\ part \in {"routing", "download", "inspection", "ytdlp"}
    /\ \/ part = "routing" /\ Routing!Init
       \/ part # "routing" /\ RoutingOff
    /\ \/ part = "download" /\ Download!Init
       \/ part # "download" /\ DownloadOff
    /\ \/ part = "inspection" /\ Inspection!Init
       \/ part # "inspection" /\ InspectionOff
    /\ \/ part = "ytdlp" /\ YtDlp!Init
       \/ part # "ytdlp" /\ YtDlpOff

Next ==
    \/ /\ part = "routing" /\ Routing!Next
       /\ UNCHANGED <<part, downloadVars, inspectionVars, ytdlpVars>>
    \/ /\ part = "download" /\ Download!Next
       /\ UNCHANGED <<part, routingVars, inspectionVars, ytdlpVars>>
    \/ /\ part = "inspection" /\ Inspection!Next
       /\ UNCHANGED <<part, routingVars, downloadVars, ytdlpVars>>
    \/ /\ part = "ytdlp" /\ YtDlp!Next
       /\ UNCHANGED <<part, routingVars, downloadVars, inspectionVars>>

Spec == Init /\ [][Next]_vars

Alike == Permutations(Attempts)

-----------------------------------------------------------------------------

(* No connection goes to an address that the check forbids, not after a    *)
(* redirect and not when the host resolves differently a moment later      *)
(* (resolve_target, client_for); and a mirrored source is only given up    *)
(* before its attempts are used when some mirror gave an answer that a     *)
(* retry cannot change (all_failures_retryable).                           *)
RoutesWithinPolicy ==
    part = "routing" =>
        Routing!ConnectsToChecked /\ Routing!YtDlpWithinPolicy /\ Routing!GivesUpForAReason

(* What the next stage reads is whole when its size was known beforehand,  *)
(* and has the recorded size for ever: an overtaken attempt that finishes  *)
(* later neither replaces the file nor commits its own size                *)
(* (publish_or_reuse, complete_source_download).                           *)
RecordedIsSource ==
    part = "download" => Download!SourceWhole /\ Download!RecordedIsSource

(* yt-dlp opens for the download only a page of the submitted provider, X  *)
(* for a t.co link, that shows a single video and that the provider's own  *)
(* extractor reported, whatever yt-dlp printed at the inspection; and a    *)
(* page that it reports as what it is is accepted by both stages           *)
(* (validate_provider_metadata, validate_tco_redirect_target).             *)
DownloadsWhatWasSubmitted ==
    part = "inspection" =>
        /\ Inspection!DownloadsWhatWasSubmitted /\ Inspection!ShortLinkStaysOnX
        /\ Inspection!HonestIsAccepted

(* The destination of a yt-dlp call is the only file of a run that         *)
(* succeeded, within the byte limit; the reported format and size are      *)
(* those of that run; and three runs never need more room than one         *)
(* (download_with_format, YTDLP_ATTEMPT_MAX_BYTES_MULTIPLIER).             *)
ReportsWhatItPublished ==
    part = "ytdlp" => YtDlp!ReportsWhatItPublished /\ YtDlp!RoomForOneRun

=============================================================================
