--------------------------- MODULE YtDlpInspection ---------------------------
(***************************************************************************)
(* The inspection of a page with yt-dlp and its use by the download        *)
(* (crates/media/src/ytdlp.rs, with validate_ytdlp_inspection of lib.rs).  *)
(* yt-dlp reports anything: another page, another extractor, a playlist.   *)
(* A short link of t.co is resolved before yt-dlp starts.                  *)
(*                                                                         *)
(* A URL is the provider its host belongs to, whether its path is one of a *)
(* single video, and whether it is spelled the way url::Url writes it.     *)
(* The list of allowed hosts, the addresses and the retries are those of   *)
(* SourceRouting.                                                          *)
(***************************************************************************)
EXTENDS Naturals

CONSTANTS
    MaxRedirects,   \* min(inspection_limits.max_redirects, MAX_TCO_REDIRECTS)
    None

YtDlpInspectionAssumption == MaxRedirects \in Nat

VARIABLES
    source,       \* the submitted URL
    pc,
    current,      \* the URL that the preflight asks, or that yt-dlp is given
    hops,         \* the redirects followed by the preflight
    inspection,   \* as recorded with the ingest
    asked, given, \* history: the hosts asked by the preflight, the pages given to yt-dlp
    honest        \* history: yt-dlp reported a video of the page it was given

vars == <<source, pc, current, hops, inspection, asked, given, honest>>

Families == {"youtube", "tiktok", "instagram", "x"}
Hosts == Families \cup {"tco", "other", "refused"}
Urls == [host : Hosts, video : BOOLEAN, plain : BOOLEAN]
Kinds == {"video", "audio", "image", "unknown"}

\* validate_source_url refuses schemes, credentials, ports and addresses; what
\* it accepts it normalises.
IsValid(url) == url.host # "refused"
ValidateSourceUrl(url) == [url EXCEPT !.plain = TRUE]

ProviderFamilyForHost(url) == IF url.host \in Families THEN url.host ELSE None
IsTco(url) == url.host = "tco"

ValidatePublicVideoPath(family, url) == family = "youtube" \/ url.video

Init ==
    /\ source \in Urls
    /\ pc = "inspect" /\ current = source /\ hops = 0
    /\ inspection = None /\ asked = {} /\ given = {} /\ honest = FALSE

Fail(class) == pc' = class /\ UNCHANGED <<source, current, hops, inspection, asked, given, honest>>

-----------------------------------------------------------------------------
(* YtDlpDownloader::inspect.                                               *)

\* yt-dlp is started with an X page only when it is the page of a status.
MayExtract(url) ==
    "x" \in {ProviderFamilyForHost(source), ProviderFamilyForHost(url)} => ValidatePublicVideoPath("x", url)

Inspect ==
    /\ pc = "inspect"
    /\ IF ~IsValid(source) THEN Fail("invalid_source_url")
       ELSE IF IsTco(source)
       THEN /\ pc' = "preflight" /\ current' = ValidateSourceUrl(source)
            /\ UNCHANGED <<source, hops, inspection, asked, given, honest>>
       ELSE IF ~MayExtract(ValidateSourceUrl(source)) THEN Fail("unsupported_surface")
       ELSE /\ pc' = "extract" /\ current' = ValidateSourceUrl(source)
            /\ UNCHANGED <<source, hops, inspection, asked, given, honest>>

ValidateTcoRedirectTarget(location) == IsValid(location) /\ ProviderFamilyForHost(location) = "x"

NextTcoHop(location) == current' = ValidateSourceUrl(location) /\ hops' = hops + 1

\* One request of the preflight.  An unusable Location is a refused URL.
ResolveTcoTarget(answer, location) ==
    /\ pc = "preflight"
    /\ asked' = asked \cup {current.host}
    /\ \/ /\ answer = "error"
          /\ pc' = "tco_resolution" /\ UNCHANGED <<current, hops>>
       \/ /\ answer = "redirect" /\ hops >= MaxRedirects
          /\ pc' = "redirect_limit" /\ UNCHANGED <<current, hops>>
       \/ /\ answer = "redirect" /\ hops < MaxRedirects /\ ValidateTcoRedirectTarget(location)
          /\ NextTcoHop(location) /\ UNCHANGED pc
       \/ /\ answer = "redirect" /\ hops < MaxRedirects /\ ~ValidateTcoRedirectTarget(location)
          /\ pc' = "redirect_not_allowed" /\ UNCHANGED <<current, hops>>
       \/ /\ answer = "page"
          /\ pc' = CASE ProviderFamilyForHost(current) # "x" -> "redirect_not_allowed"
                     [] ProviderFamilyForHost(current) = "x" /\ current.video -> "extract"
                     [] OTHER -> "unsupported_surface"
          /\ UNCHANGED <<current, hops>>
    /\ UNCHANGED <<source, inspection, given, honest>>

\* What yt-dlp may print: one video, several (entries, playlist_count, n_entries
\* or _type say so), a live stream, or a text beyond its bound.  The canonical
\* URL and the extractor may be missing.
Reports ==
    [shape : {"single", "several", "live", "unbounded"}, too_large : BOOLEAN,
     webpage : Urls \cup {None}, original : Urls \cup {None},
     extractor : Families \cup {"generic", None}, kind : Kinds]

ParseMetadata(raw) == raw.shape = "single"

\* webpage_url.or(original_url).or_else(source_url)
WebpageUrl(raw) ==
    IF raw.webpage # None THEN raw.webpage
    ELSE IF raw.original # None THEN raw.original ELSE current

ExtractorMatchesProvider(family, extractor) == extractor = family

SameUrl(metadata, canonical) == ValidateSourceUrl(metadata) = ValidateSourceUrl(canonical)

\* Mutant: any supported provider will do.
AnyFamily(i) == ProviderFamilyForHost(i.resolved) # None

\* The provider of the submitted URL is that of the canonical one; t.co is X.
FamilyAgrees(i) ==
    LET submitted == ProviderFamilyForHost(i.source)
        canonical == ProviderFamilyForHost(i.resolved) IN
    \/ submitted # None /\ submitted = canonical
    \/ IsTco(i.source) /\ canonical = "x"

\* validate_provider_metadata, as inspect and validate_provider_inspection
\* call it: platform is None before the inspection sets it.
ValidateProviderMetadata(i) ==
    LET family == ProviderFamilyForHost(i.resolved) IN
    /\ FamilyAgrees(i)
    /\ family # "youtube" => i.kind = "video"
    /\ ValidatePublicVideoPath(family, i.resolved)
    /\ SameUrl(i.webpage, i.resolved)
    /\ i.extractor # None /\ ExtractorMatchesProvider(family, i.extractor)
    /\ i.platform \in {None, family}

\* Pages of hosts without a provider get past inspect itself, to be refused by
\* validate_ytdlp_inspection.
ConcernsProvider(i) ==
    \/ ProviderFamilyForHost(i.source) # None
    \/ IsTco(i.source)
    \/ ProviderFamilyForHost(i.resolved) # None

SourceInspection(raw) ==
    [source |-> source, resolved |-> ValidateSourceUrl(WebpageUrl(raw)), webpage |-> WebpageUrl(raw),
     extractor |-> raw.extractor, kind |-> raw.kind, platform |-> None]

Recorded(i) ==
    IF ConcernsProvider(i) THEN [i EXCEPT !.platform = ProviderFamilyForHost(i.resolved)] ELSE i

\* External: a single video of the page's own provider, in any spelling.
Honest(raw) ==
    /\ current.host \in Families
    /\ raw.shape = "single" /\ ~raw.too_large /\ raw.kind = "video" /\ raw.extractor = current.host
    /\ \A url \in {raw.webpage, raw.original} \ {None} : url.host = current.host /\ url.video
    /\ current.video

RunInspection(raw) ==
    LET i == SourceInspection(raw) IN
    /\ pc = "extract"
    /\ given' = given \cup {current} /\ honest' = Honest(raw)
    /\ \/ /\ ~ParseMetadata(raw)
          /\ pc' = "metadata_refused" /\ UNCHANGED inspection
       \/ /\ ParseMetadata(raw) /\ raw.too_large
          /\ pc' = "too_large" /\ UNCHANGED inspection
       \/ /\ ParseMetadata(raw) /\ ~raw.too_large
          /\ IF /\ IsValid(WebpageUrl(raw))
                /\ ConcernsProvider(i) => ValidateProviderMetadata(i)
                /\ ValidateProviderMetadata(Recorded(i))
             THEN inspection' = Recorded(i) /\ pc' = "inspected"
             ELSE pc' = "provider_refused" /\ UNCHANGED inspection
    /\ UNCHANGED <<source, current, hops, asked>>

InspectionFails ==
    /\ pc = "extract"
    /\ pc' = "process_failed" /\ given' = given \cup {current}
    /\ UNCHANGED <<source, current, hops, inspection, asked, honest>>

-----------------------------------------------------------------------------
(* The download, in another job and another process, from the record.      *)

\* validate_provider_inspection, then YtDlpDownloader::download.
Download ==
    /\ pc = "inspected"
    /\ IF ValidateProviderMetadata(inspection)
       THEN pc' = "downloading" /\ given' = given \cup {inspection.resolved}
       ELSE pc' = "download_refused" /\ UNCHANGED given
    /\ UNCHANGED <<source, current, hops, inspection, asked, honest>>

Preflight ==
    \E answer \in {"error", "redirect", "page"}, location \in Urls :
        ResolveTcoTarget(answer, location)

Next == Inspect \/ Preflight \/ (\E raw \in Reports : RunInspection(raw)) \/ InspectionFails \/ Download

Spec == Init /\ [][Next]_vars /\ WF_vars(Next)

-----------------------------------------------------------------------------
(* yt-dlp opens for the download only a page of the provider that was      *)
(* submitted, X for a t.co link, that shows a single video, and that the   *)
(* provider's own extractor reported as a video, whatever yt-dlp printed   *)
(* at the inspection (validate_provider_metadata).                         *)
DownloadsWhatWasSubmitted ==
    pc = "downloading" =>
        /\ inspection.resolved \in given
        /\ inspection.resolved.host = IF source.host = "tco" THEN "x" ELSE source.host
        /\ inspection.extractor = inspection.resolved.host
        /\ inspection.resolved.host # "youtube" => inspection.resolved.video /\ inspection.kind = "video"

(* A t.co link never leads the preflight or yt-dlp anywhere but to X, and  *)
(* yt-dlp never opens an X page that is not the page of a status           *)
(* (resolve_tco_target_with_resolver, validate_tco_redirect_target).       *)
ShortLinkStaysOnX ==
    /\ asked \subseteq {"tco", "x"}
    /\ source.host = "tco" => \A page \in given : page.host = "x"
    /\ \A page \in given : page.host = "x" => page.video

(* A page that yt-dlp reports as what it is, a video of the submitted      *)
(* provider, is accepted by the inspection and again by the download,      *)
(* however yt-dlp spells its URL and whichever of the fields name it: the  *)
(* record keeps that spelling beside the normalised one.                   *)
HonestIsAccepted == honest => pc \in {"inspected", "downloading"}

=============================================================================
