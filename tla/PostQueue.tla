------------------------------ MODULE PostQueue ------------------------------
(***************************************************************************)
(* The posts of a publisher and the requests that create and move them     *)
(* (crates/persistence/src/publisher.rs, crates/api/src/publisher.rs):     *)
(* publication intents, the materialisation of an ingest's intent, drafts, *)
(* scheduling, decisions on repeats, and cancelling.  A request carries an *)
(* idempotency key and may be delivered any number of times, also to two   *)
(* connections at once.                                                    *)
(*                                                                         *)
(* A command on a post locks the channel row before it reads anything and  *)
(* keeps it to its commit, so it is one step.  An intent takes the lock of *)
(* its key, the media row, the channel row FOR SHARE and then FOR UPDATE,  *)
(* and is modelled lock by lock.  What the worker does to one post is      *)
(* Publication's subject and coarse here.                                  *)
(***************************************************************************)
EXTENDS CadenceGrid

CONSTANTS
    Posts,         \* ids, in the order of their creation: 1 .. n
    Media,
    Channels,
    Cadence(_),    \* the window and interval of a channel
    Keys,          \* idempotency keys; each names one request
    Menu(_),       \* the requests that the client of a key may send
    Conns,         \* connections that serve intents
    RepeatWindow,  \* the 14 days
    MaxNow, MaxRevision, MaxSwitches

Actions == {"queue", "post_now"}

Times == Int \cup {None}

(* The bodies that the handlers deserialize *)
Requests ==
    [op : {"intent", "create"}, media : Media, action : Actions, at : Times]
    \cup [op : {"materialize"}, media : Media, action : Actions, at : Times, channel : Channels]
    \cup [op : {"schedule"}, post : Posts, at : Times, rev : Nat]
    \cup [op : {"exact"}, post : Posts, at : Int, rev : Nat]
    \cup [op : {"now", "cancel", "update"}, post : Posts, rev : Nat]
    \cup [op : {"decide"}, post : Posts, decision : STRING, rev : Nat]

(* The request, scheduling and decision keys of a post, each with the hash *)
(* of its body                                                             *)
RequestMark == Keys \X ({"intent", "materialize", "create"} \X Media \X Actions \X Times)
ScheduleMark == ({"schedule", "exact", "publish_now"} \X Keys) \X (Int \cup Keys)
DecisionMark == Keys \X (STRING \X Nat)

PostRow ==
    [state : {"draft", "queued", "sending", "published", "failed", "unknown", "cancelled"},
     media : Media, channel : Channels, action : Actions, at : Times, evidence : BOOLEAN,
     when : Int, slot : Times, rev : Nat,
     request : RequestMark, scheduled : ScheduleMark \cup {None},
     decided : DecisionMark \cup {None}, published : Times]

ASSUME PostQueueAssumption ==
    /\ IsFiniteSet(Posts) /\ Posts = 1 .. Cardinality(Posts)
    /\ \A c \in Channels : ValidChannel(Cadence(c))
    /\ \A k \in Keys : Menu(k) \subseteq Requests
    /\ None \notin Requests /\ None \notin PostRow
    /\ RepeatWindow \in Nat /\ MaxNow \in Nat /\ MaxRevision \in Nat /\ MaxSwitches \in Nat

VARIABLES
    now,
    ready,      \* media whose storage_state is ready
    enabled,    \* channels with is_enabled
    switches,   \* changes of a channel so far
    post,       \* the posts rows
    job,        \* the state of their publish_post jobs
    sent,       \* the request of each key
    conn,       \* what each connection is at: its key, its next lock and its channel
    applied,    \* history: how often each request took effect,
    conflicts,  \* the keys answered with RequestKeyConflict,
    explicit    \* and the posts that a command has put in the queue

queue == <<post, job>>
history == <<applied, conflicts, explicit>>
vars == <<now, ready, enabled, switches, queue, sent, conn, history>>

Idle == [pc |-> "idle", key |-> None, channel |-> None]

Init ==
    /\ now = 0
    /\ ready = {}
    /\ enabled \in {{c} : c \in Channels}
    /\ switches = 0
    /\ post = [p \in Posts |-> None]
    /\ job = [p \in Posts |-> "none"]
    /\ sent = [k \in Keys |-> None]
    /\ conn = [c \in Conns |-> Idle]
    /\ applied = [k \in Keys |-> 0]
    /\ conflicts = {}
    /\ explicit = {}

Present == {p \in Posts : post[p] # None}

Active(p) == post[p].state \in {"queued", "sending"}

(* PostState::is_queue_mutable *)
QueueMutable(p) == post[p].state \in {"draft", "queued", "failed"}

-----------------------------------------------------------------------------
(* The cadence slots of a channel *)

(* Faulty variant of Occupied: a post that is being sent has left the queue. *)
OccupiedByQueued(channel, p) ==
    {post[q].slot : q \in {q \in Present \ {p} :
                              post[q].channel = channel /\ post[q].state = "queued"}} \ {None}

Occupied(channel, p) ==
    {post[q].slot : q \in {q \in Present \ {p} : post[q].channel = channel /\ Active(q)}} \ {None}

(* next_free_slot, as CadenceSlot shows it to be; None is                  *)
(* CadenceSearchExhausted                                                  *)
NextFreeSlot(channel, p, requested) ==
    LET from == IF requested > now THEN requested ELSE now
        free == {u \in from .. from + (Cardinality(Posts) + 1) * DayLength :
                    OnGrid(Cadence(channel), u)} \ Occupied(channel, p)
    IN IF free = {} THEN None ELSE Min(free)

(* Faulty variant of RepeatConflicts: only what is published counts. *)
RepeatsPublished(media, at, p) ==
    {q \in Present \ {p} :
        /\ post[q].media = media
        /\ post[q].state = "published"
        /\ post[q].published > at - RepeatWindow /\ post[q].published < at}

(* find_repeat_conflicts *)
RepeatConflicts(media, at, p) ==
    {q \in Present \ {p} :
        /\ post[q].media = media
        /\ \/ Active(q)
           \/ /\ post[q].state = "published"
              /\ post[q].published > at - RepeatWindow /\ post[q].published < at}

-----------------------------------------------------------------------------
(* Answers *)

Apply(k) == applied' = [applied EXCEPT ![k] = IF @ < 2 THEN @ + 1 ELSE @]

(* An error: the transaction is rolled back *)
Refused == UNCHANGED <<queue, history>>

Conflicted(k) ==
    /\ conflicts' = conflicts \cup {k}
    /\ UNCHANGED <<queue, applied, explicit>>

(* The post as it is *)
Replayed == UNCHANGED <<queue, history>>

-----------------------------------------------------------------------------
(* The client sends a request, once per key *)
Send(k) ==
    /\ sent[k] = None
    /\ \E r \in Menu(k) :
          /\ r.op \notin {"intent", "materialize", "create"} => r.post \in Present
          /\ r.op \notin {"intent", "materialize", "create"} => r.rev <= post[r.post].rev
          /\ sent' = [sent EXCEPT ![k] = r]
    /\ UNCHANGED <<now, ready, enabled, switches, queue, conn, history>>

Hash(r) == <<r.op, r.media, r.action, r.at>>

Created(k) == {p \in Present : post[p].request[1] = k}

NewId == 1 + Cardinality(Present)

NewPost(k, r, channel, state, evidence, when, slot) ==
    [state |-> state, media |-> r.media, channel |-> channel, action |-> r.action,
     at |-> r.at, evidence |-> evidence, when |-> when, slot |-> slot, rev |-> 0,
     request |-> <<k, Hash(r)>>, scheduled |-> None, decided |-> None, published |-> None]

RequirePublishable(m) == m \in ready

(* validate_media_and_channel: the media exists, the channel is enabled *)
ValidateMediaAndChannel(channel) == channel \in enabled

(* The insert, and for a key that is taken the read *)
CreatePostIdempotent(k, channel) ==
    \/ /\ Created(k) = {}
       /\ NewId \in Posts
       /\ post' = [post EXCEPT ![NewId] =
                      NewPost(k, sent[k], channel, "draft", FALSE, now, None)]
       /\ Apply(k)
       /\ UNCHANGED <<job, conflicts, explicit>>
    \/ Created(k) # {} /\ Replayed

CreatePost(k, channel) ==
    /\ sent[k] # None
    /\ sent[k].op = "create"
    /\ IF RequirePublishable(sent[k].media) /\ ValidateMediaAndChannel(channel)
       THEN CreatePostIdempotent(k, channel)
       ELSE Refused
    /\ UNCHANGED <<now, ready, enabled, switches, sent, conn>>

-----------------------------------------------------------------------------
(* create_publication_intent and materialize_ingest, lock by lock *)

At(c, pc) == conn[c].pc = pc

Leave(c) == conn' = [conn EXCEPT ![c] = Idle]

(* lock_publication_request, or the ingest row *)
KeyLocked(k) == \E c \in Conns : conn[c].key = k

MediaLocked(m) ==
    \E c \in Conns : conn[c].pc \in {"share", "channel"} /\ sent[conn[c].key].media = m

Sharers(channel) == {c \in Conns : conn[c].channel = channel}

(* The request key, and the post that an earlier delivery made *)
Begin(c, k) ==
    /\ ~KeyLocked(k)
    /\ \/ /\ Created(k) # {}
          /\ Replayed
          /\ UNCHANGED conn
       \/ /\ Created(k) = {}
          /\ conn' = [conn EXCEPT ![c] = [pc |-> "media", key |-> k, channel |-> None]]
          /\ UNCHANGED <<queue, history>>

(* PublicationIntent::try_new *)
ValidIntent(r) == r.action = "post_now" => r.at = None

CreateMediaPublicationIntent(c, k) ==
    /\ At(c, "idle")
    /\ sent[k] # None
    /\ sent[k].op = "intent"
    /\ IF ValidIntent(sent[k]) /\ RequirePublishable(sent[k].media)
       THEN Begin(c, k)
       ELSE Refused /\ UNCHANGED conn
    /\ UNCHANGED <<now, ready, enabled, switches, sent>>

(* The ingest is completed when its media is stored *)
MaterializeIngest(c, k) ==
    /\ At(c, "idle")
    /\ sent[k] # None
    /\ sent[k].op = "materialize"
    /\ IF sent[k].media \in ready THEN Begin(c, k) ELSE Refused /\ UNCHANGED conn
    /\ UNCHANGED <<now, ready, enabled, switches, sent>>

(* lock_media_state *)
LockMedia(c) ==
    /\ At(c, "media")
    /\ LET r == sent[conn[c].key] IN
       /\ ~MediaLocked(r.media)
       /\ IF r.media \in ready
          THEN conn' = [conn EXCEPT ![c] =
                          [conn[c] EXCEPT !.pc = IF r.op = "intent" THEN "share" ELSE "channel"]]
          ELSE Leave(c)
    /\ UNCHANGED <<now, ready, enabled, switches, queue, sent, history>>

(* select_enabled_channel_candidates: at most two rows *)
EnabledCandidates == {s \in SUBSET enabled : Cardinality(s) = Min({2, Cardinality(enabled)})}

(* single_enabled_channel *)
ShareChannel(c) ==
    /\ At(c, "share")
    /\ \E candidates \in EnabledCandidates :
          \/ \E channel \in candidates :
                /\ candidates = {channel}
                /\ conn' = [conn EXCEPT ![c] =
                              [conn[c] EXCEPT !.pc = "channel", !.channel = channel]]
          \/ Cardinality(candidates) # 1 /\ Leave(c)
    /\ UNCHANGED <<now, ready, enabled, switches, queue, sent, history>>

(* insert_intended_post: a conflict makes a draft that needs a decision *)
InsertIntended(k, r, channel, at) ==
    LET p == NewId
        repeat == RepeatConflicts(r.media, at, p) # {}
        slot == IF ~repeat /\ r.action = "queue" /\ r.at = None THEN at ELSE None
    IN
    /\ post' = [post EXCEPT ![p] =
                   NewPost(k, r, channel, IF repeat THEN "draft" ELSE "queued", repeat, at, slot)]
    /\ job' = IF repeat THEN job ELSE [job EXCEPT ![p] = "queued"]
    /\ Apply(k)
    /\ UNCHANGED <<conflicts, explicit>>

(* lock_channel FOR UPDATE, insert_intended_post and the commit *)
LockChannel(c) ==
    LET k == conn[c].key
        r == sent[k]
        channel == IF r.op = "intent" THEN conn[c].channel ELSE r.channel
        slot == NextFreeSlot(channel, NewId, now)
    IN
    /\ At(c, "channel")
    /\ Sharers(channel) \subseteq {c}
    /\ NewId \in Posts
    /\ IF r.op = "materialize" /\ channel \notin enabled
       THEN Refused
       ELSE CASE r.action = "post_now" -> InsertIntended(k, r, channel, now)
              [] r.action = "queue" /\ r.at = None /\ slot # None ->
                     InsertIntended(k, r, channel, slot)
              [] r.action = "queue" /\ r.at # None /\ r.at > now ->
                     InsertIntended(k, r, channel, r.at)
              [] OTHER -> Refused
    /\ Leave(c)
    /\ UNCHANGED <<now, ready, enabled, switches, sent>>

(* Two intents that share the channel row wait for one another *)
Deadlocked(c) == At(c, "channel") /\ \E d \in Conns \ {c} :
    conn[c].channel # None /\ conn[d].channel = conn[c].channel

(* ... until PostgreSQL ends one of them *)
AbortDeadlock(c) ==
    /\ Deadlocked(c)
    /\ Leave(c)
    /\ UNCHANGED <<now, ready, enabled, switches, queue, sent, history>>

-----------------------------------------------------------------------------
(* Commands on a post: the channel row is locked first *)

Command(k, op, p) ==
    /\ sent[k] # None
    /\ sent[k].op = op
    /\ p = sent[k].post
    /\ Sharers(post[p].channel) = {}
    /\ UNCHANGED <<now, ready, enabled, switches, sent, conn>>

(* Faulty variant of Fresh: the revision is not compared. *)
FreshAny(p, r) == QueueMutable(p) /\ post[p].rev < MaxRevision

(* is_queue_mutable, check_expected_revision *)
Fresh(p, r) ==
    /\ QueueMutable(p)
    /\ r.rev = post[p].rev
    /\ post[p].rev < MaxRevision

(* ensure_repeat_decision_resolved, ensure_channel_enabled,                *)
(* ensure_media_ready                                                      *)
MayQueue(p) ==
    /\ ~post[p].evidence
    /\ post[p].channel \in enabled
    /\ post[p].media \in ready

(* insert_publish_job, update_publish_job *)
MayRequeueJob(p) == job[p] \in {"none", "queued", "failed"}

Requeued(p) == job' = [job EXCEPT ![p] = "queued"]

(* The key that a post carries from its last command *)
Seen(mark, id) == mark # None /\ mark[1] = id

(* ... is answered with the post, another body under it refused *)
Again(k, mark, hash) == IF mark[2] = hash THEN Replayed ELSE Conflicted(k)

Scheduling(k, p, tag, hash, allowed, new) ==
    \/ Seen(post[p].scheduled, <<tag, k>>) /\ Again(k, post[p].scheduled, hash)
    \/ /\ ~Seen(post[p].scheduled, <<tag, k>>)
       /\ IF allowed /\ Fresh(p, sent[k]) /\ MayQueue(p) /\ MayRequeueJob(p)
          THEN /\ post' = [post EXCEPT ![p] =
                              [new EXCEPT !.state = "queued", !.rev = @ + 1,
                                          !.scheduled = <<<<tag, k>>, hash>>]]
               /\ Requeued(p)
               /\ Apply(k)
               /\ explicit' = explicit \cup {p}
               /\ UNCHANGED conflicts
          ELSE Refused

(* A request without publish_at asks for the time at which it is served *)
RequestedAt(r) == IF r.at = None THEN now ELSE r.at

TakeSlot(k, p, at) ==
    LET slot == NextFreeSlot(post[p].channel, p, at)
    IN Scheduling(k, p, "schedule", at, slot # None,
                  [post[p] EXCEPT !.when = slot, !.slot = slot])

SchedulePost(k, p) ==
    /\ Command(k, "schedule", p)
    /\ TakeSlot(k, p, RequestedAt(sent[k]))

(* apply_exact_schedule *)
AtExactly(p, at) ==
    [post[p] EXCEPT !.when = at, !.slot = None, !.action = "queue", !.at = at, !.evidence = FALSE]

TakeExactTime(k, p, at) == Scheduling(k, p, "exact", at, at > now, AtExactly(p, at))

SchedulePostExact(k, p) ==
    /\ Command(k, "exact", p)
    /\ TakeExactTime(k, p, sent[k].at)

SendNow(k, p) ==
    Scheduling(k, p, "publish_now", k, TRUE, [post[p] EXCEPT !.when = now, !.slot = None])

PublishNow(k, p) ==
    /\ Command(k, "now", p)
    /\ SendNow(k, p)

(* parse_decision *)
PublicationDecisions == {"post_now_anyway", "queue_anyway", "keep_exact_time", "cancel"}

(* decision_allowed *)
DecisionAllowed(p, decision) ==
    IF post[p].action = "post_now"
    THEN decision \in {"post_now_anyway", "queue_anyway", "cancel"}
    ELSE decision \in {"queue_anyway", "cancel"}
             \cup (IF post[p].at # None THEN {"keep_exact_time"} ELSE {})

Decided(k, p, new) ==
    post' = [post EXCEPT ![p] = [new EXCEPT !.evidence = FALSE, !.rev = @ + 1,
                                            !.decided = <<k, <<sent[k].decision, sent[k].rev>>>>]]

Decide(k, p) ==
    LET decision == sent[k].decision
        slot == NextFreeSlot(post[p].channel, p, now)
        queued == [post[p] EXCEPT !.state = "queued"]
    IN
    \/ Seen(post[p].decided, k) /\ Again(k, post[p].decided, <<decision, sent[k].rev>>)
    \/ /\ ~Seen(post[p].decided, k)
       /\ IF /\ post[p].state = "draft" /\ post[p].evidence
             /\ Fresh(p, sent[k])
             /\ DecisionAllowed(p, decision)
             /\ decision # "cancel" => post[p].channel \in enabled /\ post[p].media \in ready
             /\ decision = "keep_exact_time" => post[p].at > now
             /\ decision = "queue_anyway" => slot # None
             /\ MayRequeueJob(p)
          THEN /\ Decided(k, p,
                     CASE decision = "cancel" ->
                              [post[p] EXCEPT !.state = "cancelled", !.slot = None]
                       [] decision = "post_now_anyway" ->
                              [queued EXCEPT !.when = now, !.slot = None]
                       [] decision = "queue_anyway" ->
                              [queued EXCEPT !.when = slot, !.slot = slot]
                       [] decision = "keep_exact_time" ->
                              [queued EXCEPT !.when = post[p].at, !.slot = None])
               /\ IF decision = "cancel" THEN UNCHANGED job ELSE Requeued(p)
               /\ Apply(k)
               /\ explicit' = explicit \cup {p}
               /\ UNCHANGED conflicts
          ELSE Refused

DecidePost(k, p) ==
    /\ Command(k, "decide", p)
    /\ IF sent[k].decision \in PublicationDecisions THEN Decide(k, p) ELSE Refused

(* cancel_publish_job *)
MayCancelJob(p) == job[p] \in {"none", "queued", "failed"}

Cancel(k, p) ==
    IF Fresh(p, sent[k]) /\ (post[p].state = "draft" \/ MayCancelJob(p))
    THEN /\ post' = [post EXCEPT ![p] =
                        [post[p] EXCEPT !.state = "cancelled", !.slot = None, !.rev = @ + 1]]
         /\ job' = IF post[p].state = "draft" \/ job[p] = "none" THEN job
                   ELSE [job EXCEPT ![p] = "cancelled"]
         /\ Apply(k)
         /\ UNCHANGED <<conflicts, explicit>>
    ELSE Refused

CancelPost(k, p) ==
    /\ Command(k, "cancel", p)
    /\ Cancel(k, p)

(* update_failed_publish_job: a failed job stays one *)
MayKeepFailed(p) == job[p] \in {"none", "failed"}

Update(k, p) ==
    IF /\ Fresh(p, sent[k])
       /\ post[p].state = "queued" => MayRequeueJob(p)
       /\ post[p].state = "failed" => MayKeepFailed(p)
    THEN /\ post' = [post EXCEPT ![p] = [post[p] EXCEPT !.rev = @ + 1]]
         /\ job' = CASE post[p].state = "draft" -> job
                     [] post[p].state = "queued" -> [job EXCEPT ![p] = "queued"]
                     [] post[p].state = "failed" -> [job EXCEPT ![p] = "failed"]
         /\ Apply(k)
         /\ UNCHANGED <<conflicts, explicit>>
    ELSE Refused

UpdatePost(k, p) ==
    /\ Command(k, "update", p)
    /\ QueueMutable(p)
    /\ Update(k, p)

-----------------------------------------------------------------------------
(* The worker, coarsely; Publication has the details *)

Works(p) == p \in Present /\ UNCHANGED <<now, ready, enabled, switches, sent, conn, history>>

ClaimJob(p) ==
    /\ Works(p)
    /\ job[p] = "queued"
    /\ post[p].when <= now
    /\ job' = [job EXCEPT ![p] = "running"]
    /\ UNCHANGED post

(* claim_publish, or a job that fails without it *)
ClaimPublish(p) ==
    /\ Works(p)
    /\ Sharers(post[p].channel) = {}
    /\ post[p].state = "queued"
    /\ job[p] = "running"
    /\ post[p].rev < MaxRevision
    /\ \/ /\ post[p].channel \in enabled /\ post[p].media \in ready
          /\ post' = [post EXCEPT ![p] = [post[p] EXCEPT !.state = "sending", !.rev = @ + 1]]
          /\ UNCHANGED job
       \/ /\ post' = [post EXCEPT ![p] = [post[p] EXCEPT !.state = "failed", !.rev = @ + 1]]
          /\ job' = [job EXCEPT ![p] = "failed"]

(* complete_publish, fail_publish, retry_publish *)
FinishPublish(p) ==
    /\ Works(p)
    /\ Sharers(post[p].channel) = {}
    /\ post[p].state = "sending"
    /\ post[p].rev < MaxRevision
    /\ \E end \in {<<"published", "done">>, <<"unknown", "done">>,
                   <<"failed", "failed">>, <<"queued", "queued">>} :
          /\ post' = [post EXCEPT ![p] =
                         [post[p] EXCEPT !.state = end[1], !.rev = @ + 1,
                                         !.published = IF end[1] = "published" THEN now ELSE @]]
          /\ job' = [job EXCEPT ![p] = end[2]]

-----------------------------------------------------------------------------
(* The rest of the world *)

Tick ==
    /\ now < MaxNow
    /\ now' = now + 1
    /\ UNCHANGED <<ready, enabled, switches, queue, sent, conn, history>>

StoreMedia(m) ==
    /\ m \notin ready
    /\ ready' = ready \cup {m}
    /\ UNCHANGED <<now, enabled, switches, queue, sent, conn, history>>

(* update_channel: at most one channel is enabled *)
UpdateChannel(channel) ==
    /\ switches < MaxSwitches
    /\ Sharers(channel) = {}
    /\ \/ channel \in enabled /\ enabled' = enabled \ {channel}
       \/ enabled \subseteq {channel} /\ enabled' = {channel}
    /\ switches' = switches + 1
    /\ UNCHANGED <<now, ready, queue, sent, conn, history>>

Step(c) == LockMedia(c) \/ ShareChannel(c) \/ LockChannel(c)

Next ==
    \/ \E k \in Keys : Send(k)
    \/ \E k \in Keys, channel \in Channels : CreatePost(k, channel)
    \/ \E c \in Conns, k \in Keys : CreateMediaPublicationIntent(c, k) \/ MaterializeIngest(c, k)
    \/ \E c \in Conns : Step(c) \/ AbortDeadlock(c)
    \/ \E k \in Keys, p \in Present :
          \/ SchedulePost(k, p) \/ SchedulePostExact(k, p) \/ PublishNow(k, p)
          \/ DecidePost(k, p) \/ CancelPost(k, p) \/ UpdatePost(k, p)
    \/ \E p \in Posts : ClaimJob(p) \/ ClaimPublish(p) \/ FinishPublish(p)
    \/ Tick
    \/ \E m \in Media : StoreMedia(m)
    \/ \E channel \in Channels : UpdateChannel(channel)

Spec == Init /\ [][Next]_vars

-----------------------------------------------------------------------------

(* Every row, job, request and connection has one of its states. *)
TypeOK ==
    /\ now \in Nat /\ switches \in Nat
    /\ ready \subseteq Media /\ enabled \subseteq Channels
    /\ post \in [Posts -> PostRow \cup {None}]
    /\ job \in [Posts -> {"none", "queued", "running", "failed", "done", "cancelled"}]
    /\ sent \in [Keys -> Requests \cup {None}]
    /\ conn \in [Conns -> [pc : {"idle", "media", "share", "channel"},
                           key : Keys \cup {None}, channel : Channels \cup {None}]]
    /\ applied \in [Keys -> 0 .. 2]
    /\ conflicts \subseteq Keys /\ explicit \subseteq Posts

(* Two posts that are queued or being sent never have the same cadence     *)
(* slot of a channel.  No constraint of the schema says so: it rests on    *)
(* the lock of the channel row and on what next_free_slot counts as taken. *)
SlotsDisjoint ==
    \A p, q \in Present :
        p # q /\ Active(p) /\ Active(q) /\ post[p].slot # None
            => post[p].slot # post[q].slot \/ post[p].channel # post[q].channel

(* A request takes effect at most once, however often it is delivered and  *)
(* whatever else happens to the post between two deliveries.               *)
OncePerKey == \A k \in Keys : applied[k] <= 1

(* The same media is not on its way to a channel twice unless somebody     *)
(* asked for it after the first post was there: of two such posts one has  *)
(* been scheduled or decided by hand (insert_intended_post).               *)
NoSilentRepeat ==
    \A p, q \in Present :
        p # q /\ Active(p) /\ Active(q) /\ post[p].media = post[q].media
            => p \in explicit \/ q \in explicit

(* Claim of docs/architecture.md: publish now "changes only the job due    *)
(* time and leaves the cadence slot intact".                               *)
PublishNowKeepsSlot ==
    [][\A p \in Posts :
          (\E k \in Keys : PublishNow(k, p)) => post'[p].slot = post[p].slot]_vars

(* Claim of docs/architecture.md: publication mutations lock "in a stable  *)
(* order", so that no two of them wait for one another.                    *)
NoLockCycle == \A c \in Conns : ~Deadlocked(c)

(* Claim of docs/product.md (idempotency remains required) and of the      *)
(* message of RequestKeyConflict: a request is refused for its key only if *)
(* the key was used with a different request.  Here every key names one    *)
(* request, so no delivery may be refused for it.                          *)
KeyConflictMeansOtherRequest == conflicts = {}
=============================================================================
