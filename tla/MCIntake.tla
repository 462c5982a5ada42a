------------------------------- MODULE MCIntake -------------------------------
(***************************************************************************)
(* How submissions come in: through the API and the companion              *)
(* (IngestSubmission with ChannelConfiguration) and as messages to the     *)
(* Telegram bot (TelegramPolling); and which slot a publication that they  *)
(* ask for gets (CadenceSlot).  Each behaviour is one of the three; the    *)
(* variables of the others keep the value Off.                             *)
(***************************************************************************)
EXTENDS Integers, Sequences, TLC

CONSTANTS None, Malformed, Off, Actions, Deliveries, Channels, Admins

VARIABLES
    part,
    channel, admin, lock, shares, payload, result, waits, queue, events, del, ingests,
    now, faults,
    log, confirmed, http, shutdown, phase, offset, batch, attempt, step, nextDelay,
    failures, wait, limiter, polled, answers, runs, lost, terminal,
    cadence, requested, occupied, candidate, tries, search

Plain == [via |-> "companion", key |-> "k1", url |-> "plain", tags |-> <<>>,
          action |-> "save", at |-> None, caption |-> None]

(* Two clients that may use one key, with one request or another: a save   *)
(* through the companion, one the companion refuses, and two requests that *)
(* need a channel, of which one names a time.                              *)
SomePayloads ==
    {[Plain EXCEPT !.url = "padded"],
     [Plain EXCEPT !.caption = "control"],
     [Plain EXCEPT !.via = "api", !.action = "queue"],
     [Plain EXCEPT !.via = "api", !.action = "queue", !.at = 1]}

Submission == INSTANCE IngestSubmission WITH
    Payloads <- SomePayloads, RateLimit <- 1, MaxTags <- 3, MaxVersion <- 1, MaxNow <- 1,
    MaxFaults <- 1

Empty == [kind |-> "message", sender |-> "admin", media |-> "none", mime |-> "none",
          ext |-> "none", large |-> FALSE, text |-> <<>>]

(* One message for every way through the handler. *)
Routes ==
    {[Empty EXCEPT !.text = <<"link">>],
     [Empty EXCEPT !.text = <<"/status">>],
     [Empty EXCEPT !.kind = "callback"],
     [Empty EXCEPT !.kind = "callback", !.sender = "stranger"],
     [Empty EXCEPT !.text = <<"/add", "link", "word">>],
     [Empty EXCEPT !.media = "video", !.large = TRUE],
     [Empty EXCEPT !.media = "document", !.mime = "octet", !.ext = "other"]}

Polling == INSTANCE TelegramPolling WITH
    Messages <- Routes, Refused <- {[Empty EXCEPT !.kind = "callback", !.sender = "stranger"]},
    MaxUpdates <- 2, MaxHandlerAttempts <- 2, InitialDelay <- 1, MaxDelay <- 4, RetryAfters <- {3}, MaxFaults <- 2,
    MaxTerminal <- 1, MaxCrashes <- 1, ingests <- polled, faults <- lost

(* A day of twelve units, and clocks that are set back, <<"fold", t>>, or  *)
(* forward, <<"gap", t>>, by two of them at an instant t.                  *)
ZoneOffset(zone, instant) ==
    IF (zone[1] = "fold") = (instant < zone[2]) THEN 2 ELSE 0

Cadence == INSTANCE CadenceSlot WITH
    DayLength <- 12, Offsets <- {0, 2}, Offset <- ZoneOffset, MaxDays <- 4,
    Channels <- {[zone |-> z, start |-> w[1], end |-> w[2], interval |-> i] :
                    z \in {<<"fold", t>> : t \in {16, 22}} \cup {<<"gap", t>> : t \in {15, 24}},
                    w \in {<<0, 12>>, <<2, 9>>, <<5, 8>>, <<1, 2>>}, i \in {1, 3, 20}},
    Requests <- 13 .. 25, Horizon <- 14 .. 26, MaxTaken <- 2, MaxTries <- 2,
    channel <- cadence, result <- search

ASSUME Cadence!SlotAssumption
ASSUME Submission!ChannelAssumption /\ Submission!SubmissionAssumption
ASSUME Polling!PollingAssumption

-----------------------------------------------------------------------------

SubmissionOff ==
    /\ channel = Off /\ admin = Off /\ lock = Off /\ shares = Off /\ payload = Off
    /\ result = Off /\ waits = Off /\ queue = Off /\ events = Off /\ del = Off
    /\ ingests = Off /\ now = Off /\ faults = Off

PollingOff ==
    /\ log = Off /\ confirmed = Off /\ http = Off /\ shutdown = Off /\ phase = Off
    /\ offset = Off /\ batch = Off /\ attempt = Off /\ step = Off /\ nextDelay = Off
    /\ failures = Off /\ wait = Off /\ limiter = Off /\ polled = Off /\ answers = Off
    /\ runs = Off /\ lost = Off /\ terminal = Off

CadenceOff ==
    /\ cadence = Off /\ requested = Off /\ occupied = Off /\ candidate = Off
    /\ tries = Off /\ search = Off

submissionVars == <<channel, admin, lock, shares, payload, result, waits, queue, events,
                    del, ingests, now, faults>>
pollingVars == <<log, confirmed, http, shutdown, phase, offset, batch, attempt, step,
                 nextDelay, failures, wait, limiter, polled, answers, runs, lost, terminal>>
cadenceVars == <<cadence, requested, occupied, candidate, tries, search>>
vars == <<part, submissionVars, pollingVars, cadenceVars>>

Init ==
    \/ part = "submission" /\ Submission!Init /\ PollingOff /\ CadenceOff
    \/ part = "polling" /\ Polling!Init /\ SubmissionOff /\ CadenceOff
    \/ part = "cadence" /\ Cadence!Init /\ SubmissionOff /\ PollingOff

Next ==
    \/ part = "submission" /\ Submission!Next /\ UNCHANGED <<part, pollingVars, cadenceVars>>
    \/ part = "polling" /\ Polling!Next /\ UNCHANGED <<part, submissionVars, cadenceVars>>
    \/ part = "cadence" /\ Cadence!Next /\ UNCHANGED <<part, submissionVars, pollingVars>>

Spec == Init /\ [][Next]_vars

Alike == Permutations(Deliveries) \cup Permutations(Channels) \cup Permutations(Actions)

-----------------------------------------------------------------------------

(* A client that was told its submission is accepted has an ingest with    *)
(* exactly what it submitted, whichever delivery of whichever client with  *)
(* its key created the row; and a repetition that reaches the server after *)
(* its ingest was committed is answered with that ingest, although the     *)
(* requested time has passed or the channel has been disabled              *)
(* (create_ingest_at, try_new_for_idempotency_lookup).                     *)
AcceptedIsMine ==
    part = "submission" => Submission!AcceptedIsMine /\ Submission!ReplaysAnswered

(* The slot that next_free_slot finds is the earliest instant, at or after *)
(* the request, whose wall clock is on the channel's grid and that no      *)
(* other post holds, on both sides of a fold and across a gap; and the     *)
(* search gives up only when all it may look at is taken.                  *)
EarliestFreeSlot ==
    part = "cadence" => Cadence!EarliestFreeSlot /\ Cadence!ExhaustedOnlyWhenFull

(* Telegram forgets a message only after its ingest is committed, through  *)
(* failing handlers, lost answers, dropped batches, shutdowns and crashes; *)
(* only submissions become ingests, none before an earlier one; an update  *)
(* is answered at most once in the life of a process, since a batch that   *)
(* is dropped half way is not taken up again from its start; and the n-th  *)
(* failure in a row waits the doubled delay within its maximum             *)
(* (handle_update_batch, the offset of the next poll, Backoff).            *)
NothingLost ==
    part = "polling" =>
        /\ Polling!NothingLost /\ Polling!InOrder
        /\ Polling!AnsweredOncePerRun /\ Polling!BackoffFollowsFailures

(* The channel an ingest captures is enabled when the ingest is committed: *)
(* a settings page that disables it waits for the share lock               *)
(* (select_enabled_channel_candidates, update_channel).                    *)
CapturedChannelEnabled ==
    [][part = "submission" =>
          \A k \in DOMAIN ingests :
             ingests[k] = None /\ ingests'[k] # None /\ ingests'[k].channel # None
                => Submission!Enabled(ingests'[k].channel)]_vars

=============================================================================
