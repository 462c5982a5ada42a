-------------------------- MODULE IngestSubmission --------------------------
(***************************************************************************)
(* From a submission to an ingest row with its first job: the companion    *)
(* (apps/companion/src/lib.rs) or another HTTP client sends it, repeats it *)
(* when it has no answer, and the server (crates/api/src/lib.rs) runs one  *)
(* transaction for every delivery (InboxRepository::create_ingest_at).     *)
(* Deliveries of one submission may run side by side: a client that gives  *)
(* up waiting leaves its delivery running.                                 *)
(*                                                                         *)
(* A text is named by what the validation tells apart.  The request hash   *)
(* is the submission itself.                                               *)
(***************************************************************************)
EXTENDS ChannelConfiguration, Sequences, SequencesExt

CONSTANTS
    Actions,      \* deliberate submissions, each repeated under one key
    Payloads,     \* what an action may submit
    Deliveries,   \* requests the server works on at a time
    RateLimit,    \* RATE_LIMIT_REQUESTS of the companion: 60
    Malformed,    \* a time that does not parse
    MaxTags,      \* MAX_TAGS of the companion: 32
    MaxNow,       \* the clock
    MaxFaults     \* answers that are late and transactions that fail

SubmissionAssumption ==
    /\ None \notin Actions \cup Deliveries
    /\ RateLimit \in Nat \ {0} /\ MaxTags \in Nat /\ MaxNow \in Nat /\ MaxFaults \in Nat

VARIABLES
    payload,   \* what each action submits
    result,    \* what its client knows
    waits,     \* the delivery whose answer the client waits for
    queue,     \* actions that wait for the companion, which serves one at a time
    events,    \* requests the companion's limiter remembers
    del,       \* the deliveries
    ingests,   \* committed rows of ingests, by input_key
    now, faults

clientvars == <<payload, result, waits, queue, events>>
subvars == <<clientvars, del, ingests, now, faults>>
vars == <<chanvars, subvars>>

-----------------------------------------------------------------------------
(* Validation and normalisation.                                           *)

Urls == {"plain", "padded", "tracked", "ftp", "blank", "control"}
Trim(text) == IF text = "padded" THEN "plain" ELSE text
NormalizeUrl(url) == IF url = "control" THEN "plain" ELSE url
WithoutTracking(url) == IF url = "tracked" THEN "plain" ELSE url
UrlAllowed(url) == Trim(url) \notin {"ftp", "blank"}

NormalizeOptionalText(text) == IF text = "blank" THEN None ELSE text

LowerCase(tag) == IF tag = "T" THEN "t" ELSE tag
Deduplicated(tags) == FoldLeft(LAMBDA seen, tag : IF Contains(seen, tag) THEN seen ELSE Append(seen, tag), <<>>, tags)
LowerCaseAll(tags) == [i \in DOMAIN tags |-> LowerCase(tags[i])]

\* validate_requested_intent
IntentAllowed(p, fresh, time) ==
    /\ p.caption \notin {"long", "control"}
    /\ p.action = "save" => p.at = None /\ NormalizeOptionalText(p.caption) = None
    /\ p.action = "post_now" => p.at = None
    /\ fresh /\ p.action = "queue" /\ p.at # None => p.at > time

\* Mutant: the time is checked before it is known whether the request is a repetition.
TryNewFresh(p, time) ==
    UrlAllowed(p.url) /\ p.key # "blank" /\ ~Contains(p.tags, "blank") /\ IntentAllowed(p, TRUE, time)

TryNewForIdempotencyLookup(p, time) ==
    UrlAllowed(p.url) /\ p.key # "blank" /\ ~Contains(p.tags, "blank") /\ IntentAllowed(p, FALSE, time)

\* What request_hash digests of a submission.
RequestHash(p) ==
    [original |-> Trim(p.url), url |-> WithoutTracking(NormalizeUrl(Trim(p.url))),
     tags |-> Deduplicated(LowerCaseAll(p.tags)), action |-> p.action, at |-> p.at,
     caption |-> NormalizeOptionalText(p.caption), via |-> p.via, key |-> p.key]

\* Ingest::from_submission and the transition to queued.
FromSubmission(p, target, job) == [hash |-> RequestHash(p), channel |-> target, job |-> job]

\* validate_submission of the companion.
ValidateSubmission(p) ==
    /\ UrlAllowed(p.url) /\ p.url # "control" /\ p.key # "blank"
    /\ p.at # Malformed /\ p.caption \notin {"long", "control"}
    /\ p.action = "save" => p.at = None /\ NormalizeOptionalText(p.caption) = None
    /\ p.action = "post_now" => p.at = None
    /\ Len(p.tags) <= MaxTags /\ ~Contains(p.tags, "blank")

\* What the companion forwards: trimmed, the tags without repetitions, the key with its prefix.
BackendIngestRequest(p) ==
    [p EXCEPT !.url = Trim(@), !.caption = NormalizeOptionalText(@), !.tags = Deduplicated(@)]

Sent(a) == IF payload[a].via = "companion" THEN BackendIngestRequest(payload[a]) ELSE payload[a]
Key(a) == <<payload[a].via, payload[a].key>>

-----------------------------------------------------------------------------
(* The clients.                                                            *)

Free == [pc |-> "free", act |-> None, started |-> 0, found |-> {}, target |-> None, job |-> None,
         replay |-> FALSE, answer |-> None]

Init ==
    /\ ChannelInit
    /\ payload \in [Actions -> Payloads]
    /\ result = [a \in Actions |-> "new"]
    /\ waits = [a \in Actions |-> None]
    /\ queue = <<>> /\ events = 0
    /\ del = [d \in Deliveries |-> Free]
    /\ ingests = [k \in {Key(a) : a \in Actions} |-> None]
    /\ now = 0 /\ faults = 0

\* The browser script submits an action, again under the same ID after a failure.
Submit(a) ==
    /\ payload[a].via = "companion" /\ result[a] \in {"new", "failed"}
    /\ result' = [result EXCEPT ![a] = "queued"]
    /\ queue' = Append(queue, a)
    /\ UNCHANGED <<chanvars, payload, waits, events, del, ingests, now, faults>>

CompanionIdle == \A a \in Actions : payload[a].via = "companion" => waits[a] = None

\* RequestLimiter::allow
Allow == events < RateLimit

\* The submission has become an ingest.
Stored(a) == ingests[Key(a)] # None /\ ingests[Key(a)].hash = RequestHash(Sent(a))

\* Arrival of a delivery at the server.
Start(a, d) ==
    /\ del[d].pc = "free"
    /\ del' = [del EXCEPT ![d] = [Free EXCEPT !.pc = "received", !.act = a, !.replay = Stored(a)]]
    /\ waits' = [waits EXCEPT ![a] = d]
    /\ result' = [result EXCEPT ![a] = "sent"]

\* serve and handle_submit_request up to the forwarded request.
HandleSubmitRequest(d) ==
    /\ queue # <<>> /\ CompanionIdle
    /\ queue' = Tail(queue)
    /\ LET a == Head(queue)
       IN  \/ /\ ~Allow
              /\ result' = [result EXCEPT ![a] = "failed"]
              /\ UNCHANGED <<waits, del, events>>
           \/ /\ Allow /\ ~ValidateSubmission(payload[a])
              /\ events' = events + 1
              /\ result' = [result EXCEPT ![a] = "invalid"]
              /\ UNCHANGED <<waits, del>>
           \/ /\ Allow /\ ValidateSubmission(payload[a])
              /\ events' = events + 1
              /\ Start(a, d)
    /\ UNCHANGED <<chanvars, payload, ingests, now, faults>>

\* RATE_LIMIT_WINDOW has passed since the oldest request.
EventExpires ==
    /\ events > 0 /\ events' = events - 1
    /\ UNCHANGED <<chanvars, payload, result, waits, queue, del, ingests, now, faults>>

\* Another client sends its request, or repeats it.
Send(a, d) ==
    /\ payload[a].via # "companion" /\ result[a] \in {"new", "failed"}
    /\ Start(a, d)
    /\ UNCHANGED <<chanvars, payload, queue, events, ingests, now, faults>>

\* What the client makes of an answer: the companion says the same for every refusal.
Known(a, answer) ==
    CASE answer = "accepted" -> "accepted"
      [] answer = "invalid" /\ payload[a].via # "companion" -> "invalid"
      [] OTHER -> "failed"

\* The delivery ends; its answer reaches a client that still waits for it.
Answer(d, answer) ==
    /\ del' = [del EXCEPT ![d] = [Free EXCEPT !.act = del[d].act, !.replay = del[d].replay, !.answer = answer]]
    /\ LET a == del[d].act
       IN  IF waits[a] = d
           THEN /\ waits' = [waits EXCEPT ![a] = None]
                /\ result' = [result EXCEPT ![a] = Known(a, answer)]
           ELSE UNCHANGED <<waits, result>>
    /\ shares' = {s \in shares : s[1] # d}

\* The client gives up; the delivery goes on without it.
ForwardTimesOut(a) ==
    /\ waits[a] # None /\ faults < MaxFaults
    /\ waits' = [waits EXCEPT ![a] = None]
    /\ result' = [result EXCEPT ![a] = "failed"]
    /\ faults' = faults + 1
    /\ UNCHANGED <<chanvars, payload, queue, events, del, ingests, now>>

-----------------------------------------------------------------------------
(* One delivery.                                                           *)

Request(d) == Sent(del[d].act)
KeyOf(d) == Key(del[d].act)
Unchanged == UNCHANGED <<channel, admin, lock, payload, queue, events, now, faults>>
Step(d, pc) ==
    /\ del' = [del EXCEPT ![d].pc = pc]
    /\ UNCHANGED <<waits, result, shares>>

\* The handler parses and validates; the repository reads the clock.
CreateIngest(d) ==
    /\ del[d].pc = "received"
    /\ IF Request(d).at # Malformed /\ TryNewForIdempotencyLookup(Request(d), now)
       THEN /\ del' = [del EXCEPT ![d].pc = "lookup", ![d].started = now]
            /\ UNCHANGED <<waits, result, shares>>
       ELSE Answer(d, "invalid")
    /\ UNCHANGED ingests /\ Unchanged

\* Mutant: a row with the key answers the request.
ReplayOfAny(d) == Answer(d, "accepted")

\* The row with the key is the answer if it came from the same request.
ReplayOrConflict(d) ==
    Answer(d, IF ingests[KeyOf(d)].hash = RequestHash(Request(d)) THEN "accepted" ELSE "conflict")

\* create_ingest_at: the first look at input_key, and what is decided before the channel.
LookUpInput(d) ==
    /\ del[d].pc = "lookup"
    /\ LET p == Request(d)
       IN  CASE ingests[KeyOf(d)] # None -> ReplayOrConflict(d)
             [] ingests[KeyOf(d)] = None /\ p.action = "queue" /\ p.at # None /\ p.at <= del[d].started -> Answer(d, "elapsed")
             [] OTHER -> Step(d, IF p.action = "save" THEN "insert" ELSE "channels")
    /\ UNCHANGED ingests /\ Unchanged

\* select_enabled_channel_candidates: what the statement sees when it starts ...
ReadChannels(d) ==
    /\ del[d].pc = "channels"
    /\ del' = [del EXCEPT ![d].pc = "share", ![d].found = {c \in Channels : Enabled(c)}]
    /\ UNCHANGED <<waits, result, shares, ingests>> /\ Unchanged

\* Mutant: the candidates are read without a lock.
ShareNothing(d, c) == UNCHANGED shares

ShareLock(d, c) == shares' = shares \cup {<<d, c>>}

\* ... and the rows it locks, which wait for their writers and are looked at again.
LockChannels(d) ==
    /\ del[d].pc = "share"
    /\ \A c \in del[d].found : ~RowLocked(c)
    /\ LET left == {c \in del[d].found : Enabled(c)}
       IN  CASE left = {} -> Answer(d, "no_channel")
             [] Cardinality(left) > 1 -> Answer(d, "ambiguous")
             [] OTHER -> LET c == CHOOSE c \in left : TRUE
                         IN  /\ del' = [del EXCEPT ![d].pc = "insert", ![d].target = c]
                             /\ ShareLock(d, c)
                             /\ UNCHANGED <<waits, result>>
    /\ UNCHANGED ingests /\ Unchanged

Inserted(d) == del[d].pc \in {"job", "commit"}

\* INSERT ... ON CONFLICT waits for another transaction that has inserted the key.
InsertIngest(d) ==
    /\ del[d].pc = "insert"
    /\ \A e \in Deliveries \ {d} : Inserted(e) => KeyOf(e) # KeyOf(d)
    /\ IF ingests[KeyOf(d)] # None THEN ReplayOrConflict(d) ELSE Step(d, "job")
    /\ UNCHANGED ingests /\ Unchanged

FirstJob(p) == IF p.via = "telegram" THEN "probe_asset" ELSE "inspect_source"

InsertFirstJob(d) ==
    /\ del[d].pc = "job"
    /\ del' = [del EXCEPT ![d].pc = "commit", ![d].job = FirstJob(Request(d))]
    /\ UNCHANGED <<waits, result, shares, ingests>> /\ Unchanged

\* The row and its job become visible together.
CommitIngest(d) ==
    /\ del[d].pc = "commit"
    /\ ingests' = [ingests EXCEPT ![KeyOf(d)] = FromSubmission(Request(d), del[d].target, del[d].job)]
    /\ Answer(d, "accepted")
    /\ Unchanged

\* The connection or the server fails; an open transaction is rolled back.
DeliveryFails(d) ==
    /\ del[d].pc # "free" /\ faults < MaxFaults
    /\ Answer(d, "internal")
    /\ faults' = faults + 1
    /\ UNCHANGED <<channel, admin, lock, payload, queue, events, now, ingests>>

ServeDelivery(d) ==
    \/ CreateIngest(d) \/ LookUpInput(d) \/ ReadChannels(d) \/ LockChannels(d)
    \/ InsertIngest(d) \/ InsertFirstJob(d) \/ CommitIngest(d)

Tick ==
    /\ now < MaxNow /\ now' = now + 1
    /\ UNCHANGED <<chanvars, clientvars, del, ingests, faults>>

ConfigureChannels(p) == ChannelStep(p) /\ UNCHANGED subvars

Next ==
    \/ \E a \in Actions : Submit(a) \/ ForwardTimesOut(a) \/ \E d \in Deliveries : Send(a, d)
    \/ \E d \in Deliveries : HandleSubmitRequest(d) \/ ServeDelivery(d) \/ DeliveryFails(d)
    \/ \E p \in Admins : ConfigureChannels(p)
    \/ EventExpires \/ Tick

Spec == Init /\ [][Next]_vars

-----------------------------------------------------------------------------

TypeOK ==
    /\ result \in [Actions -> {"new", "queued", "sent", "failed", "invalid", "accepted"}]
    /\ waits \in [Actions -> Deliveries \cup {None}]
    /\ events \in 0 .. RateLimit
    /\ \A d \in Deliveries : del[d].pc \in {"free", "received", "lookup", "channels", "share", "insert", "job", "commit"}
    /\ \A k \in DOMAIN ingests : ingests[k] # None => ingests[k].job \in {"inspect_source", "probe_asset"}

(* A client that was told its submission is accepted has an ingest with    *)
(* exactly what it submitted, whichever of its deliveries, or of those of  *)
(* a client with the same key, created the row (create_ingest_at: the      *)
(* request hash is compared at both places a row is found).                *)
AcceptedIsMine ==
    \A a \in Actions : result[a] = "accepted" => Stored(a)

(* A repetition that reaches the server after its ingest was committed is  *)
(* answered with that ingest, although the requested time has passed or    *)
(* the channel has been disabled meanwhile (try_new_for_idempotency_lookup *)
(* leaves the time to create_ingest_at, which looks for the key first).    *)
ReplaysAnswered ==
    \A d \in Deliveries : del[d].replay => del[d].answer \in {None, "accepted", "internal"}

=============================================================================
