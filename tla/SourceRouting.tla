---------------------------- MODULE SourceRouting ----------------------------
(***************************************************************************)
(* How the inspection of a URL selects an adapter, and how the download    *)
(* uses it (SourceDownloaderRouter, TwoChMirrorDownloader and the fetch of *)
(* DirectHttpDownloader).  A URL is its host; a host resolves to another   *)
(* set of addresses every time; a server answers with anything.  Between   *)
(* the two stages the worker may be restarted with another configuration.  *)
(***************************************************************************)
EXTENDS Naturals, Sequences, FiniteSets

CONSTANTS
    Sources,       \* hosts that are submitted
    Hosts,         \* all hosts, those of redirects included
    Mirrors,       \* TWO_CH_MIRROR_HOSTS
    Addresses, Blocked,
    Configs,       \* [enabled, allowed]: the yt-dlp part of a configuration
    MaxRedirects, MaxAttempts,
    MaxRestarts,   \* restarts of the worker
    None

RoutingAssumption ==
    /\ MaxRedirects \in Nat /\ MaxAttempts \in Nat \ {0} /\ MaxRestarts \in Nat
    /\ Sources \subseteq Hosts /\ Blocked \subseteq Addresses

VARIABLES
    source,       \* the submitted host
    config,
    run,          \* the stage in progress
    inspection,   \* as recorded with the ingest
    attempts, restarts,
    tried,        \* history: what the mirrors answered in this attempt
    connected,    \* history: the addresses connected to
    ytdlp         \* history: the last run of yt-dlp, and its configuration

vars == <<source, config, run, inspection, attempts, restarts, tried, connected, ytdlp>>
history == <<connected, ytdlp>>

IsMirror == \E i \in DOMAIN Mirrors : Mirrors[i] = source
Idle == [pc |-> "idle"]

Init ==
    /\ source \in Sources /\ config \in Configs
    /\ run = Idle /\ inspection = None
    /\ attempts = 0 /\ restarts = 0
    /\ tried = <<>> /\ connected = {} /\ ytdlp = None

\* A claim counts an attempt; the runner retries a retryable failure while
\* there are attempts.
Claim == attempts' = attempts + 1

Fail(retryable) == run' = [pc |-> IF retryable /\ attempts < MaxAttempts THEN "idle" ELSE "failed"]

-----------------------------------------------------------------------------
(* DirectHttpDownloader::fetch.                                            *)

\* What a fetch can end with: DownloadError::is_retryable and its class.
Outcomes == {"media", "unknown", "dns_resolution", "http_retryable", "http_terminal",
             "status_retryable", "status_terminal", "ssrf_blocked", "redirect_limit", "too_large"}
IsRetryable(outcome) == outcome \in {"dns_resolution", "http_retryable", "status_retryable"}

FetchEnds(outcome) == run' = [run EXCEPT !.pc = "fetched", !.outcome = outcome]

Fetch(stage, host, mirror) ==
    run' = [pc |-> "resolve", stage |-> stage, host |-> host, hops |-> 0, mirror |-> mirror, outcome |-> None]

\* Mutant: the client resolves the host again.
ConnectAfterNewLookup(checked) == Addresses

\* The client is pinned to what was checked.
ConnectIp(checked) == checked

ResolveTarget ==
    /\ run.pc = "resolve"
    /\ \E addresses \in SUBSET Addresses :
         \/ addresses = {} /\ FetchEnds("dns_resolution") /\ UNCHANGED connected
         \/ addresses \cap Blocked # {} /\ FetchEnds("ssrf_blocked") /\ UNCHANGED connected
         \/ /\ addresses # {} /\ addresses \cap Blocked = {}
            /\ \E ip \in ConnectIp(addresses) : connected' = connected \cup {ip}
            /\ run' = [run EXCEPT !.pc = "sent"]
    /\ UNCHANGED <<source, config, inspection, attempts, restarts, tried, ytdlp>>

FollowRedirect(host) == run' = [run EXCEPT !.pc = "resolve", !.host = host, !.hops = @ + 1]

Redirected ==
    /\ run.pc = "sent"
    /\ IF run.hops >= MaxRedirects
       THEN FetchEnds("redirect_limit")
       ELSE \E host \in Hosts : FollowRedirect(host)
    /\ UNCHANGED <<source, config, inspection, attempts, restarts, tried, history>>

\* classify_response and sniff_media_kind, or an error of the request.
Answered ==
    /\ run.pc = "sent"
    /\ \E outcome \in Outcomes \ {"dns_resolution", "ssrf_blocked", "redirect_limit"} : FetchEnds(outcome)
    /\ UNCHANGED <<source, config, inspection, attempts, restarts, tried, history>>

-----------------------------------------------------------------------------
(* The inspection.                                                         *)

InspectSource ==
    /\ run.pc = "idle" /\ inspection = None
    /\ IF IsMirror THEN Fetch("inspect", Mirrors[1], 1) ELSE Fetch("inspect", source, 0)
    /\ Claim /\ tried' = <<>>
    /\ UNCHANGED <<source, config, inspection, restarts, history>>

Record(adapter, resolved) ==
    /\ inspection' = [adapter |-> adapter, resolved |-> resolved]
    /\ run' = Idle /\ attempts' = 0

ShouldTryNextMirror(outcome) ==
    outcome \in {"dns_resolution", "status_retryable", "status_terminal", "http_retryable"}

AllFailuresRetryable(outcomes) == \A i \in DOMAIN outcomes : IsRetryable(outcomes[i])

\* TwoChMirrorDownloader::inspect, after the answer of one mirror.
InspectMirror ==
    /\ run.pc = "fetched" /\ run.stage = "inspect" /\ IsMirror
    /\ tried' = Append(tried, run.outcome)
    /\ \/ /\ run.outcome = "media"
          /\ Record("direct_http", run.host)
       \/ /\ run.outcome = "unknown"
          /\ Fail(FALSE) /\ UNCHANGED <<inspection, attempts>>
       \/ /\ ShouldTryNextMirror(run.outcome) /\ run.mirror < Len(Mirrors)
          /\ Fetch("inspect", Mirrors[run.mirror + 1], run.mirror + 1)
          /\ UNCHANGED <<inspection, attempts>>
       \/ /\ ShouldTryNextMirror(run.outcome) /\ run.mirror = Len(Mirrors)
          /\ Fail(AllFailuresRetryable(tried')) /\ UNCHANGED <<inspection, attempts>>
       \/ /\ run.outcome \notin {"media", "unknown"} /\ ~ShouldTryNextMirror(run.outcome)
          /\ Fail(IsRetryable(run.outcome)) /\ UNCHANGED <<inspection, attempts>>
    /\ UNCHANGED <<source, config, restarts, history>>

\* SourceDownloaderRouter::inspect, after direct HTTP.
ShouldTryYtDlp(outcome) == outcome = "status_terminal"

RouteInspection ==
    /\ run.pc = "fetched" /\ run.stage = "inspect" /\ ~IsMirror
    /\ \/ /\ run.outcome = "media"
          /\ Record("direct_http", run.host)
       \/ /\ run.outcome = "unknown" \/ ShouldTryYtDlp(run.outcome)
          /\ run' = [pc |-> "policy"] /\ UNCHANGED <<inspection, attempts>>
       \/ /\ run.outcome \notin {"media", "unknown"} /\ ~ShouldTryYtDlp(run.outcome)
          /\ Fail(IsRetryable(run.outcome)) /\ UNCHANGED <<inspection, attempts>>
    /\ UNCHANGED <<source, config, restarts, tried, history>>

IsAllowedYtDlpSource(host) == host \in config.allowed

ValidateYtDlpInspection(resolved) == IsAllowedYtDlpSource(source) /\ IsAllowedYtDlpSource(resolved)

RunYtDlp(resolved) == ytdlp' = [hosts |-> {source, resolved}, config |-> config]

\* inspect_with_ytdlp_policy: yt-dlp may resolve to another page.
InspectWithYtDlpPolicy ==
    /\ run.pc = "policy"
    /\ IF ~IsAllowedYtDlpSource(source) \/ ~config.enabled
       THEN Fail(FALSE) /\ UNCHANGED <<inspection, attempts, ytdlp>>
       ELSE /\ RunYtDlp(source)
            /\ \/ \E retryable \in BOOLEAN : Fail(retryable) /\ UNCHANGED <<inspection, attempts>>
               \/ \E resolved \in Hosts :
                    IF ValidateYtDlpInspection(resolved)
                    THEN Record("yt_dlp", resolved)
                    ELSE Fail(FALSE) /\ UNCHANGED <<inspection, attempts>>
    /\ UNCHANGED <<source, config, restarts, tried, connected>>

-----------------------------------------------------------------------------
(* The download.                                                           *)

\* SourceDownloaderRouter::download: the adapter that was recorded.
Download ==
    /\ run.pc = "idle" /\ inspection # None
    /\ IF inspection.adapter = "direct_http"
       THEN Fetch("download", inspection.resolved, 0)
       ELSE run' = [pc |-> "yt_dlp"]
    /\ Claim
    /\ UNCHANGED <<source, config, inspection, restarts, tried, history>>

DownloadWithYtDlp ==
    /\ run.pc = "yt_dlp"
    /\ IF config.enabled /\ ValidateYtDlpInspection(inspection.resolved)
       THEN /\ RunYtDlp(inspection.resolved)
            /\ run' = [pc |-> "done"] \/ \E retryable \in BOOLEAN : Fail(retryable)
       ELSE Fail(FALSE) /\ UNCHANGED ytdlp
    /\ UNCHANGED <<source, config, inspection, attempts, restarts, tried, connected>>

DownloadEnds ==
    /\ run.pc = "fetched" /\ run.stage = "download"
    /\ IF run.outcome \in {"media", "unknown"}
       THEN run' = [pc |-> "done"]
       ELSE Fail(IsRetryable(run.outcome))
    /\ UNCHANGED <<source, config, inspection, attempts, restarts, tried, history>>

\* The worker is restarted; the job is claimed again if it has attempts left.
RestartWorker(c) ==
    /\ restarts < MaxRestarts /\ run.pc \notin {"failed", "done"}
    /\ config' = c /\ restarts' = restarts + 1
    /\ run' = IF run.pc = "idle" \/ attempts < MaxAttempts THEN Idle ELSE [pc |-> "failed"]
    /\ UNCHANGED <<source, inspection, attempts, tried, history>>

Stage ==
    \/ ResolveTarget \/ Redirected \/ Answered
    \/ InspectSource \/ InspectMirror \/ RouteInspection \/ InspectWithYtDlpPolicy
    \/ Download \/ DownloadWithYtDlp \/ DownloadEnds

Next == Stage \/ \E c \in Configs : RestartWorker(c)

Spec == Init /\ [][Next]_vars /\ WF_vars(Stage)

-----------------------------------------------------------------------------

(* No connection goes to an address that the check forbids: not after a    *)
(* redirect, and not when the host resolves differently a moment later     *)
(* (resolve_target, client_for: every hop is resolved and pinned).         *)
ConnectsToChecked == connected \cap Blocked = {}

(* yt-dlp only runs on hosts that the configuration of the worker that     *)
(* runs it allows, although the inspection may have been recorded under    *)
(* another configuration or may have resolved to another host              *)
(* (validate_ytdlp_inspection in both stages).                             *)
YtDlpWithinPolicy ==
    ytdlp # None => ytdlp.config.enabled /\ ytdlp.hosts \subseteq ytdlp.config.allowed

(* A mirrored source is only given up before its attempts are used when    *)
(* some mirror gave an answer that a retry cannot change: a mirror that is *)
(* down for a moment is not enough, wherever it stands in the order        *)
(* (TwoChMirrorDownloader::inspect, all_failures_retryable).               *)
GivesUpForAReason ==
    IsMirror /\ run.pc = "failed" /\ inspection = None /\ attempts < MaxAttempts =>
        \E i \in DOMAIN tried : ~IsRetryable(tried[i])

=============================================================================
