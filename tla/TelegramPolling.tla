--------------------------- MODULE TelegramPolling ---------------------------
(***************************************************************************)
(* The server process and its Telegram control plane                       *)
(* (apps/server/src/main.rs, crates/telegram/src/polling.rs, service.rs):  *)
(* the preflight calls, the polling loop with its offset and backoff, the  *)
(* handler of one update with its bounded retries, and shutdown.  Telegram *)
(* keeps an update until a later getUpdates call names a greater offset,   *)
(* and delivers again what was not confirmed when the process restarts.    *)
(***************************************************************************)
EXTENDS Integers, Sequences, FiniteSets, FiniteSetsExt, SequencesExt

CONSTANTS
    Messages,            \* the updates that may arrive
    Refused,             \* callback queries that Telegram no longer lets us answer
    MaxUpdates,
    MaxHandlerAttempts,  \* 5
    InitialDelay, MaxDelay, RetryAfters,  \* backoff and the delays Telegram asks for
    MaxFaults,           \* calls and transactions that fail
    MaxTerminal,         \* calls refused for a wrong token or a missing permission
    MaxCrashes

PollingAssumption ==
    /\ MaxUpdates \in Nat /\ MaxHandlerAttempts \in Nat \ {0}
    /\ InitialDelay \in Nat \ {0} /\ MaxDelay \in Nat /\ InitialDelay <= MaxDelay
    /\ RetryAfters \subseteq Nat
    /\ MaxFaults \in Nat /\ MaxTerminal \in Nat /\ MaxCrashes \in Nat

VARIABLES
    log,        \* every update so far; its position is its id
    confirmed,  \* the last update that Telegram has forgotten
    http,       \* the HTTP server
    shutdown,   \* the watch channel of the polling task
    phase,      \* what the polling task is at
    offset, batch, attempt, step,
    nextDelay,  \* PollBackoff::next_delay
    failures, wait,
    limiter,    \* senders that were answered within the last second
    ingests,    \* updates that have an ingest row
    answers,    \* history: replies delivered for each update,
    runs,       \* and how often the process has been started
    faults, terminal

task == <<phase, offset, batch, attempt, step, nextDelay, failures, wait>>
effects == <<limiter, ingests, answers>>
bounds == <<runs, faults, terminal>>
vars == <<log, confirmed, http, shutdown, task, effects, bounds>>

NoWait == [then |-> "none", delay |-> 0, asked |-> 0]

Init ==
    /\ log = <<>> /\ confirmed = 0
    /\ http = "serving" /\ shutdown = FALSE
    /\ phase = "storage" /\ offset = 0 /\ batch = <<>> /\ attempt = 0 /\ step = "none"
    /\ nextDelay = InitialDelay /\ failures = 0 /\ wait = NoWait
    /\ limiter = {} /\ ingests = {} /\ answers = [u \in 1 .. MaxUpdates |-> 0]
    /\ runs = 1 /\ faults = 0 /\ terminal = 0

(* Which messages are submissions -----------------------------------------*)

ClassifyDocumentFilename(ext) ==
    CASE ext \in {"gif", "jpeg_png", "video", "audio"} -> "supported"
      [] ext \in {"avif_webp", "archive_office"} -> "unsupported"
      [] OTHER -> "probeable"

\* A MIME type that says nothing leaves the decision to the file name.
ClassifyDocument(mime, ext) ==
    CASE mime \in {"video", "gif", "jpeg_png", "audio"} -> "supported"
      [] mime \in {"other_image", "archive_text"} -> "unsupported"
      [] OTHER -> ClassifyDocumentFilename(ext)

MessageMedia(m) ==
    CASE m.media \in {"photo", "video", "animation"} -> "supported"
      [] m.media = "document" -> ClassifyDocument(m.mime, m.ext)
      [] OTHER -> "none"

Commands == {"/start", "/help", "/status", "/add"}

ParseSingleUrl(text) ==
    LET links == SelectSeq(text, LAMBDA token : token = "link") IN
    /\ Len(links) = 1
    /\ Head(text) \in Commands \cup {"/other"} => Head(text) = "/add"

ParseMessageAction(text) ==
    CASE text = <<>> -> "ignore"
      [] text # <<>> /\ Head(text) \in Commands \ {"/add"} -> "command"
      [] text # <<>> /\ Head(text) = "/add" -> IF ParseSingleUrl(text) THEN "submit" ELSE "command"
      [] text # <<>> /\ Head(text) = "/other" -> "ignore"
      [] OTHER -> IF ParseSingleUrl(text) THEN "submit" ELSE "ignore"

HandleMediaMessage(m) ==
    IF MessageMedia(m) = "unsupported" \/ m.large THEN "reject" ELSE "submit"

HandleMessage(m) ==
    CASE m.sender = "group" -> "ignore"
      [] m.sender = "stranger" -> "reject"
      [] m.sender = "admin" /\ MessageMedia(m) # "none" -> HandleMediaMessage(m)
      [] OTHER -> ParseMessageAction(m.text)

HandleUpdate(m) ==
    CASE m.kind = "message" -> HandleMessage(m)
      [] m.kind = "callback" -> "callback"
      [] OTHER -> "ignore"

(* The control calls ------------------------------------------------------*)

Fault == faults < MaxFaults /\ faults' = faults + 1
Steady == UNCHANGED <<faults, terminal>>

BackoffNext(asked) == Max({nextDelay, asked})

BackoffGrown == Min({2 * nextDelay, MaxDelay})

\* Wait before the phase is tried again.
RetryAfterWait(again, asked) ==
    /\ failures' = failures + 1
    /\ wait' = [then |-> again, delay |-> BackoffNext(asked), asked |-> asked]
    /\ nextDelay' = BackoffGrown
    /\ phase' = "wait"

BackoffReset == nextDelay' = InitialDelay

Succeeded(next) ==
    /\ phase' = next
    /\ BackoffReset
    /\ failures' = 0 /\ wait' = NoWait

\* A wrong token or a missing permission ends the task until somebody repairs it.
Misconfigured ==
    /\ terminal < MaxTerminal
    /\ terminal' = terminal + 1
    /\ phase' = "failed"
    /\ UNCHANGED <<nextDelay, failures, wait, faults>>

ControlCall(next, delays) ==
    /\ \/ Succeeded(next) /\ Steady
       \/ Misconfigured
       \/ /\ Fault /\ UNCHANGED terminal
          /\ \E asked \in delays \cup {0} : RetryAfterWait(phase, asked)
    /\ UNCHANGED <<log, confirmed, http, shutdown, offset, batch, attempt, step, effects, runs>>

\* retry_after does not look into a storage error: it asks for no delay.
VerifyStorageChat == phase = "storage" /\ ControlCall("webhook", {})

DeleteWebhook == phase = "webhook" /\ ControlCall("poll", RetryAfters)

(* Polling ----------------------------------------------------------------*)

Confirm == confirmed' = Max({confirmed, offset - 1})

Unconfirmed(from) ==
    LET ids == {u \in DOMAIN log : u >= from /\ u > confirmed} IN SetToSortSeq(ids, <)

GetUpdates ==
    /\ phase = "poll"
    /\ Confirm
    /\ batch' = Unconfirmed(offset)
    /\ Succeeded(IF batch' = <<>> THEN "poll" ELSE "handle")
    /\ attempt' = IF batch' = <<>> THEN 0 ELSE 1
    /\ step' = IF batch' = <<>> THEN "none" ELSE "start"
    /\ Steady
    /\ UNCHANGED <<log, http, shutdown, offset, effects, runs>>

\* The answer of a call that failed may have been lost on its way back.
GetUpdatesFails ==
    /\ phase = "poll"
    /\ Confirm \/ UNCHANGED confirmed
    /\ \/ Misconfigured
       \/ Fault /\ UNCHANGED terminal /\ \E asked \in RetryAfters \cup {0} : RetryAfterWait("poll", asked)
    /\ UNCHANGED <<log, http, shutdown, offset, batch, attempt, step, effects, runs>>

Update == Head(batch)
Message == log[Update]
Action == HandleUpdate(Message)

\* Handled: the offset moves past this update, and the next one is taken up.
Advance ==
    /\ offset' = Update + 1
    /\ batch' = Tail(batch)
    /\ phase' = IF Tail(batch) = <<>> THEN "poll" ELSE "handle"
    /\ attempt' = IF Tail(batch) = <<>> THEN 0 ELSE 1
    /\ step' = IF Tail(batch) = <<>> THEN "none" ELSE "start"
    /\ UNCHANGED <<nextDelay, failures, wait>>

\* Mutant: an update that keeps failing is left behind.
GiveUpSkips(asked) ==
    /\ RetryAfterWait("poll", asked)
    /\ offset' = Update + 1
    /\ batch' = <<>> /\ attempt' = 0 /\ step' = "none"

\* The rest of the batch is dropped; the retained offset brings it back.
GiveUp(asked) ==
    /\ RetryAfterWait("poll", asked)
    /\ batch' = <<>> /\ attempt' = 0 /\ step' = "none"
    /\ UNCHANGED offset

\* The update is tried again, or given up after the last attempt.
AttemptFails ==
    IF attempt < MaxHandlerAttempts
    THEN /\ attempt' = attempt + 1 /\ step' = "start"
         /\ UNCHANGED <<phase, offset, batch, nextDelay, failures, wait, terminal>>
    ELSE \/ (\E asked \in RetryAfters \cup {InitialDelay} : GiveUp(asked)) /\ UNCHANGED terminal
         \/ /\ terminal < MaxTerminal /\ terminal' = terminal + 1
            /\ phase' = "failed"
            /\ UNCHANGED <<offset, batch, attempt, step, nextDelay, failures, wait>>

Ignore ==
    /\ phase = "handle" /\ step = "start" /\ Action = "ignore"
    /\ Advance
    /\ Steady
    /\ UNCHANGED <<log, confirmed, http, shutdown, effects, runs>>

\* The idempotency key of the update makes a second call find the same ingest.
CreateIngest ==
    /\ phase = "handle" /\ step = "start" /\ Action = "submit"
    /\ \/ ingests' = ingests \cup {Update} /\ step' = "reply" /\ Steady
          /\ UNCHANGED <<phase, offset, batch, attempt, nextDelay, failures, wait, limiter>>
       \/ /\ Fault /\ AttemptFails
          /\ limiter' = limiter \ {Message.sender}
          /\ UNCHANGED ingests
    /\ UNCHANGED <<log, confirmed, http, shutdown, answers, runs>>

Replying ==
    /\ phase = "handle"
    /\ \/ step = "reply"
       \/ step = "start" /\ Action \in {"reject", "command"}

AllowResponse(sender) == sender \notin limiter

RateLimited ==
    /\ Replying /\ ~AllowResponse(Message.sender)
    /\ Advance
    /\ Steady
    /\ UNCHANGED <<log, confirmed, http, shutdown, effects, runs>>

SendResponse ==
    /\ Replying /\ AllowResponse(Message.sender)
    /\ \/ /\ Advance /\ Steady
          /\ limiter' = limiter \cup {Message.sender}
          /\ answers' = [answers EXCEPT ![Update] = @ + 1]
       \/ Fault /\ AttemptFails /\ UNCHANGED <<limiter, answers>>
    /\ UNCHANGED <<log, confirmed, http, shutdown, ingests, runs>>

AcknowledgeCallback ==
    /\ phase = "handle" /\ step = "start" /\ Action = "callback"
    /\ \/ Message \notin Refused /\ Advance /\ Steady
       \/ Message \notin Refused /\ Fault /\ AttemptFails
       \/ Message \in Refused /\ AttemptFails /\ UNCHANGED faults
    /\ UNCHANGED <<log, confirmed, http, shutdown, effects, runs>>

WaitOver ==
    /\ phase = "wait"
    /\ phase' = wait.then /\ wait' = NoWait
    /\ Steady
    /\ UNCHANGED <<log, confirmed, http, shutdown, offset, batch, attempt, step, nextDelay, failures, effects, runs>>

\* Only a control call and a wait are given up for a shutdown, a handler never.
Stop ==
    /\ shutdown /\ phase \in {"storage", "webhook", "poll", "wait"}
    /\ phase' = "ended" /\ wait' = NoWait
    /\ Steady
    /\ UNCHANGED <<log, confirmed, http, shutdown, offset, batch, attempt, step, nextDelay, failures, effects, runs>>

(* The process and its surroundings ---------------------------------------*)

Arrive(m) ==
    /\ Len(log) < MaxUpdates
    /\ log' = Append(log, m)
    /\ UNCHANGED <<confirmed, http, shutdown, task, effects, bounds>>

\* A second has passed since the sender was answered.
LimitExpires(s) ==
    /\ s \in limiter
    /\ limiter' = limiter \ {s}
    /\ UNCHANGED <<log, confirmed, http, shutdown, task, ingests, answers, bounds>>

Signal ==
    /\ http = "serving"
    /\ http' = "draining" /\ shutdown' = TRUE
    /\ UNCHANGED <<log, confirmed, task, effects, bounds>>

\* serve returns, drained or with an error; either way the task is told to stop.
ServeReturns ==
    /\ http \in {"serving", "draining"}
    /\ http = "serving" => faults < MaxFaults
    /\ faults' = faults + (IF http = "serving" THEN 1 ELSE 0)
    /\ http' = "returned" /\ shutdown' = TRUE
    /\ UNCHANGED <<log, confirmed, task, effects, runs, terminal>>

Join ==
    /\ http = "returned" /\ phase \in {"ended", "failed"}
    /\ http' = "exited"
    /\ UNCHANGED <<log, confirmed, shutdown, task, effects, bounds>>

\* The process ends at any point, or has exited, and is started again.
Restart ==
    /\ runs <= MaxCrashes
    /\ runs' = runs + 1
    /\ http' = "serving" /\ shutdown' = FALSE
    /\ phase' = "storage" /\ offset' = 0 /\ batch' = <<>> /\ attempt' = 0 /\ step' = "none"
    /\ nextDelay' = InitialDelay /\ failures' = 0 /\ wait' = NoWait
    /\ limiter' = {}
    /\ UNCHANGED <<log, confirmed, ingests, answers, faults, terminal>>

TaskStep ==
    \/ VerifyStorageChat \/ DeleteWebhook
    \/ GetUpdates \/ GetUpdatesFails
    \/ Ignore \/ CreateIngest \/ RateLimited \/ SendResponse \/ AcknowledgeCallback
    \/ WaitOver

Next ==
    \/ \E m \in Messages : Arrive(m)
    \/ TaskStep
    \/ Stop
    \/ \E s \in limiter : LimitExpires(s)
    \/ Signal \/ ServeReturns \/ Join
    \/ Restart

Spec == Init /\ [][Next]_vars

\* Every call is answered or times out and every wait ends; whenever the task comes to
\* a call or a wait, a shutdown that is already signalled is seen before it; open
\* requests are drained and main joins the task.
FairSpec ==
    /\ Spec
    /\ WF_vars(TaskStep)
    /\ SF_vars(Stop)
    /\ WF_vars(http = "draining" /\ ServeReturns)
    /\ WF_vars(Join)

(* Properties -------------------------------------------------------------*)

\* The variables have the values that the code can give them.
TypeOK ==
    /\ confirmed \in 0 .. Len(log) /\ offset \in 0 .. Len(log) + 1
    /\ phase \in {"storage", "webhook", "poll", "handle", "wait", "ended", "failed"}
    /\ (phase = "handle") => batch # <<>> /\ attempt \in 1 .. MaxHandlerAttempts
    /\ phase = "wait" => wait.then \in {"storage", "webhook", "poll"}
    /\ nextDelay \in InitialDelay .. MaxDelay

\* A message that asks for an ingest: a supported or unknown file within the limit, or
\* exactly one link and no command but /add, from the administrator.
Submission(m) ==
    /\ m.kind = "message" /\ m.sender = "admin"
    /\ IF m.media # "none"
       THEN ~m.large /\ MessageMedia(m) # "unsupported"
       ELSE /\ Cardinality({i \in DOMAIN m.text : m.text[i] = "link"}) = 1
            /\ \A i \in DOMAIN m.text : m.text[i] \in {"link", "word"} \/ (i = 1 /\ m.text[i] = "/add")

\* Polling names an offset, and Telegram forgets a message, only after its ingest is
\* committed; and nothing but a submission becomes an ingest.  Failing handlers, lost
\* answers, dropped batches, shutdowns and crashes lose no message.
NothingLost ==
    /\ \A u \in 1 .. confirmed : Submission(log[u]) => u \in ingests
    /\ \A u \in ingests : Submission(log[u])

\* An update is answered once in the life of a process: a batch that is dropped half way
\* is not taken up again from its start.
AnsweredOncePerRun == \A u \in DOMAIN log : answers[u] <= runs

Serving == http = "serving" /\ phase # "failed"

\* service.rs, superseded_commands_and_callbacks_are_harmless: a press on a button of a
\* superseded card does not keep a later submission from becoming an ingest.
CallbacksHarmless ==
    \A u \in 1 .. MaxUpdates :
        (u \in DOMAIN log /\ Submission(log[u])) ~> (u \in ingests \/ ~Serving)

\* Updates are taken up in the order of their ids: no ingest overtakes an earlier one.
InOrder == \A u \in ingests, v \in DOMAIN log : v < u /\ Submission(log[v]) => v \in ingests

\* The n-th failure in a row waits the initial delay doubled n - 1 times, within the
\* configured maximum, and never less than Telegram asked for.
BackoffFollowsFailures ==
    phase = "wait" =>
        wait.delay = Max({wait.asked, Min({MaxDelay, InitialDelay * 2^(failures - 1)})})

=============================================================================
