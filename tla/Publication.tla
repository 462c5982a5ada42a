---------------------------- MODULE Publication ----------------------------
(***************************************************************************)
(* The publication of one post: the posts row, its fixed-dedupe publish_post *)
(* row in queue.jobs, the worker processes that lease that job, the operator *)
(* commands that edit and schedule the post, stale-lease recovery, job       *)
(* retention, and the Telegram calls whose outcome may stay unknown.         *)
(*                                                                           *)
(* Every database transaction of the code is one action: the code takes row *)
(* locks (channel, post, job) before it reads what it decides on.  A         *)
(* Telegram call is three steps: the worker dispatches a request, Telegram   *)
(* delivers or refuses it, the worker learns the answer (or never does).     *)
(* Posts share only the channel row and the worker pool, so one post stands  *)
(* for any of them.                                                          *)
(***************************************************************************)
EXTENDS Integers

CONSTANTS
    Workers,        \* worker processes polling queue.jobs
    MaxAttempts,    \* queue.jobs.max_attempts of the publish_post job
    MaxRevision     \* bound: operator commands stop once the post has this revision

ASSUME WorkersAssumption == Workers # {}
ASSUME AttemptsAssumption == MaxAttempts \in Nat \ {0}
ASSUME RevisionAssumption == MaxRevision \in Nat

VARIABLES
    post,       \* the posts row; state "none" before it is inserted
    job,        \* the publish_post row of queue.jobs; state "absent" when there is none
    claims,     \* lease tokens issued so far: the next claim's token is fresh
    worker,     \* what each worker's runner and publish_post handler hold in memory
    requests,   \* Telegram requests dispatched and not yet decided by Telegram
    messages,   \* messages Telegram has put in the target channel
    channelEnabled,  \* channels.is_enabled of the post's channel
    mediaReady       \* media.storage_state = 'ready' of the post's media

vars == <<post, job, claims, worker, requests, messages, channelEnabled, mediaReady>>

dependencies == <<channelEnabled, mediaReady>>
telegram == <<requests, messages>>

-----------------------------------------------------------------------------
(* Types *)

PostStates == {"none", "draft", "queued", "sending", "published", "unknown",
               "failed", "cancelled"}

JobStates == {"absent", "queued", "running", "succeeded", "failed", "cancelled"}

TerminalJobStates == {"succeeded", "failed", "cancelled"}

(* A caption is named by the revision that wrote it.  send_token is drawn  *)
(* afresh with every send_generation and is set exactly while the post is  *)
(* sending, so the generation alone stands for the pair.                   *)
PostRow == [state : PostStates, revision : Nat, generation : Nat, caption : Nat,
            evidence : BOOLEAN]

(* revision is the payload's expected_revision; lease is lease_token, 0    *)
(* for NULL; live says that lease_expires_at lies in the future.           *)
JobRow == [state : JobStates, revision : Nat, attempt : Nat, lease : Nat,
           live : BOOLEAN]

(* Where a worker is: polling, or about to run the named step of           *)
(* publish_post, or (the last three) holding the handler's result for      *)
(* finish_job.                                                             *)
HandlerSteps == {"claim", "reconcile", "lookup", "copying", "filing",
                 "complete", "reject", "ambiguous", "requeue"}

Results == {"ok", "retry", "fail"}

Worker == [pc : {"idle"} \cup HandlerSteps \cup Results, lease : Nat,
           revision : Nat, generation : Nat, caption : Nat]

Idle == [pc |-> "idle", lease |-> 0, revision |-> 0, generation |-> 0, caption |-> 0]

Request == [kind : {"copy", "file"}, generation : Nat, caption : Nat]

NoPost == [state |-> "none", revision |-> 0, generation |-> 0, caption |-> 0,
           evidence |-> FALSE]

NoJob == [state |-> "absent", revision |-> 0, attempt |-> 0, lease |-> 0,
          live |-> FALSE]

TypeOK ==
    /\ post \in PostRow
    /\ job \in JobRow
    /\ claims \in Nat
    /\ worker \in [Workers -> Worker]
    /\ requests \in SUBSET Request
    /\ messages \in SUBSET Request
    /\ channelEnabled \in BOOLEAN
    /\ mediaReady \in BOOLEAN

Init ==
    /\ post = NoPost
    /\ job = NoJob
    /\ claims = 0
    /\ worker = [w \in Workers |-> Idle]
    /\ requests = {}
    /\ messages = {}
    /\ channelEnabled \in BOOLEAN
    /\ mediaReady \in BOOLEAN

-----------------------------------------------------------------------------
(* The post row and its job row *)

(* Every write to the row moves its revision. *)
NextRevision == post.revision + 1

PostIn(state) == [post EXCEPT !.state = state, !.revision = NextRevision]

(* PostState::is_queue_mutable *)
QueueMutable == post.state \in {"draft", "queued", "failed"}

(* insert_publish_job_row: a new row under the fixed dedupe key. *)
NewPublishJob(state, revision) ==
    [NoJob EXCEPT !.state = state, !.revision = revision]

(* update_publish_job refuses a running job, and one it cannot requeue. *)
Requeueable == job.state \in {"absent", "queued", "failed"}

(* update_publish_job: a missing row is inserted, a queued or failed one   *)
(* is pointed at the new revision; a failed one gets its attempts back.    *)
Requeued(revision) ==
    IF job.state = "absent"
    THEN NewPublishJob("queued", revision)
    ELSE [job EXCEPT !.state = "queued", !.revision = revision,
                     !.attempt = IF job.state = "failed" THEN 0 ELSE @]

(* update_failed_publish_job: the failed job, or a new one in its place,   *)
(* follows the revision without being queued.                              *)
FailedJobAt(revision) ==
    IF job.state = "absent"
    THEN NewPublishJob("failed", revision)
    ELSE [job EXCEPT !.revision = revision]

(* cancel_publish_job; a job that was pruned needs no cancelling. *)
CancelledJob ==
    IF job.state = "absent"
    THEN job
    ELSE [job EXCEPT !.state = "cancelled", !.lease = 0, !.live = FALSE]

-----------------------------------------------------------------------------
(* Operator commands.  Each names the revision it was decided on and is    *)
(* refused without effect when the row has moved on, so only the commands  *)
(* that name the current revision appear.                                  *)

(* create_post_idempotent inserts a draft in an enabled channel; the media *)
(* need only exist.                                                        *)
CreateDraft ==
    /\ post.state = "none"
    /\ channelEnabled
    /\ post' = [NoPost EXCEPT !.state = "draft"]
    /\ UNCHANGED <<job, claims, worker, telegram, dependencies>>

(* create_publication_intent and materialize_ingest, by way of             *)
(* insert_intended_post: a queued post with its job or, when the media was *)
(* or will be published near that time, a draft that carries the repeat    *)
(* evidence.                                                               *)
InsertIntendedPost ==
    /\ post.state = "none"
    /\ channelEnabled
    /\ mediaReady
    /\ \/ /\ post' = [NoPost EXCEPT !.state = "draft", !.evidence = TRUE]
          /\ UNCHANGED job
       \/ /\ post' = [NoPost EXCEPT !.state = "queued"]
          /\ job' = NewPublishJob("queued", 0)
    /\ UNCHANGED <<claims, worker, telegram, dependencies>>

(* update_post *)
UpdatePost ==
    /\ QueueMutable
    /\ post.revision < MaxRevision
    /\ \/ /\ post.state = "draft"
          /\ UNCHANGED job
       \/ /\ post.state = "queued"
          /\ Requeueable
          /\ job' = Requeued(NextRevision)
       \/ /\ post.state = "failed"
          /\ job.state \in {"absent", "failed"}
          /\ job' = FailedJobAt(NextRevision)
    /\ post' = [PostIn(post.state) EXCEPT !.caption = NextRevision]
    /\ UNCHANGED <<claims, worker, telegram, dependencies>>

(* schedule_post, schedule_post_exact and publish_now: the three differ in *)
(* the due time only.                                                      *)
SchedulePost ==
    /\ QueueMutable
    /\ post.revision < MaxRevision
    /\ ~post.evidence
    /\ channelEnabled
    /\ mediaReady
    /\ Requeueable
    /\ post' = PostIn("queued")
    /\ job' = Requeued(NextRevision)
    /\ UNCHANGED <<claims, worker, telegram, dependencies>>

(* decide_post resolves the repeat evidence of a draft. *)
DecidePost ==
    /\ post.state = "draft"
    /\ post.revision < MaxRevision
    /\ post.evidence
    /\ \/ /\ post' = [PostIn("cancelled") EXCEPT !.evidence = FALSE]
          /\ UNCHANGED job
       \/ /\ channelEnabled
          /\ mediaReady
          /\ Requeueable
          /\ post' = [PostIn("queued") EXCEPT !.evidence = FALSE]
          /\ job' = Requeued(NextRevision)
    /\ UNCHANGED <<claims, worker, telegram, dependencies>>

(* cancel_post *)
CancelPost ==
    /\ QueueMutable
    /\ post.revision < MaxRevision
    /\ \/ /\ post.state = "draft"
          /\ UNCHANGED job
       \/ /\ post.state # "draft"
          /\ Requeueable
          /\ job' = CancelledJob
    /\ post' = PostIn("cancelled")
    /\ UNCHANGED <<claims, worker, telegram, dependencies>>

-----------------------------------------------------------------------------
(* The lease and the send fence *)

(* lock_current_job_attempt, lock_running_job: the row still carries this  *)
(* worker's token and the lease has not run out.                           *)
HoldsLease(w) ==
    /\ job.state = "running"
    /\ job.lease = worker[w].lease
    /\ job.live

(* The post is still in the send that this worker's claim opened. *)
HoldsSend(w) ==
    /\ post.state = "sending"
    /\ post.generation = worker[w].generation

At(w, pc) == worker[w].pc = pc

Goto(w, pc) == [worker EXCEPT ![w].pc = pc]

(* What publish_post does next when the transaction (or the receipt read)  *)
(* of a step reports a database error: map_publisher_error makes the claim *)
(* and the reconciliation retryable; a failed receipt read goes to         *)
(* retry_publish; a failed complete_publish is fenced as unknown; any      *)
(* other failure ends the handler with a permanent error.                  *)
AfterDatabaseError(pc) ==
    CASE pc \in {"claim", "reconcile"} -> "retry"
      [] pc = "lookup" -> "requeue"
      [] pc = "complete" -> "ambiguous"
      [] pc \in {"reject", "ambiguous", "requeue"} -> "fail"

(* A transaction that commits answers next; or the answer is lost and the  *)
(* handler sees a database error although the commit took effect.          *)
Committed(w, next) ==
    worker' \in {Goto(w, next), Goto(w, AfterDatabaseError(worker[w].pc))}

(* The transaction fails and rolls back. *)
DatabaseError(w) ==
    /\ worker[w].pc \in HandlerSteps \ {"copying", "filing"}
    /\ worker' = Goto(w, AfterDatabaseError(worker[w].pc))
    /\ UNCHANGED <<post, job, claims, telegram, dependencies>>

-----------------------------------------------------------------------------
(* The runner: claiming, and losing, a lease *)

(* gen_random_uuid: a lease token nobody has seen. *)
FreshToken == claims + 1

NextAttempt == job.attempt + 1

(* claim_next *)
ClaimNext(w) ==
    /\ At(w, "idle")
    /\ job.state = "queued"
    /\ job.attempt < MaxAttempts
    /\ job' = [job EXCEPT !.state = "running", !.attempt = NextAttempt,
                          !.lease = FreshToken, !.live = TRUE]
    /\ claims' = FreshToken
    /\ worker' = [worker EXCEPT ![w] = [Idle EXCEPT !.pc = "claim", !.lease = FreshToken,
                                                    !.revision = job.revision]]
    /\ UNCHANGED <<post, telegram, dependencies>>

(* The lease runs out.  heartbeat_lease only extends a lease that has not  *)
(* run out, so a lease never comes back to life.                           *)
LeaseExpires ==
    /\ job.state = "running"
    /\ job.live
    /\ job' = [job EXCEPT !.live = FALSE]
    /\ UNCHANGED <<post, claims, worker, telegram, dependencies>>

(* The worker process dies, or stops because a heartbeat or a settlement   *)
(* failed, and comes back with nothing in memory.  A request it dispatched *)
(* stays on its way.                                                       *)
Crash(w) ==
    /\ ~At(w, "idle")
    /\ worker' = [worker EXCEPT ![w] = Idle]
    /\ UNCHANGED <<post, job, claims, telegram, dependencies>>

(* Shutdown drops the handler wherever it is (publish_post is not          *)
(* cancellable) and leaves a retry to settle.                              *)
Shutdown(w) ==
    /\ worker[w].pc \in HandlerSteps
    /\ worker' = Goto(w, "retry")
    /\ UNCHANGED <<post, job, claims, telegram, dependencies>>

-----------------------------------------------------------------------------
(* publish_post *)

NextGeneration == post.generation + 1

(* What claim_publish requires before it opens a send. *)
Claimable(w) ==
    /\ HoldsLease(w)
    /\ post.state = "queued"
    /\ post.revision = worker[w].revision
    /\ channelEnabled
    /\ mediaReady

(* claim_publish refuses: a lost lease, a post that is not queued and a    *)
(* stale revision end the handler with success; a sending post is to be    *)
(* reconciled; a disabled channel or media not ready is worth a retry.     *)
ClaimRefusal(w) ==
    IF ~HoldsLease(w) THEN "ok"
    ELSE IF post.state = "sending" THEN "reconcile"
    ELSE IF post.state = "queued" /\ post.revision = worker[w].revision THEN "retry"
    ELSE "ok"

(* The claim returns the post as it was claimed: a snapshot of the caption *)
(* and the generation that fences this send.                               *)
EnterSend(w) ==
    [worker EXCEPT ![w].pc = "lookup", ![w].generation = NextGeneration,
                   ![w].caption = post.caption]

(* claim_publish; when the answer of the commit is lost the handler sees a *)
(* database error and asks for a retry.                                    *)
ClaimPublish(w) ==
    /\ At(w, "claim")
    /\ IF Claimable(w)
       THEN /\ post' = [PostIn("sending") EXCEPT !.generation = NextGeneration]
            /\ worker' \in {EnterSend(w), Goto(w, "retry")}
       ELSE /\ worker' = Goto(w, ClaimRefusal(w))
            /\ UNCHANGED post
    /\ UNCHANGED <<job, claims, telegram, dependencies>>

(* Faulty variant of ReconcileInterruptedPublish: the interrupted post is  *)
(* left as it is.                                                          *)
ReconcileByIgnoring(w) ==
    /\ At(w, "reconcile")
    /\ worker' = Goto(w, "ok")
    /\ UNCHANGED <<post, job, claims, telegram, dependencies>>

(* reconcile_interrupted_publish: an earlier attempt left the post sending. *)
ReconcileInterruptedPublish(w) ==
    /\ At(w, "reconcile")
    /\ IF HoldsLease(w)
       THEN /\ post' = IF post.state = "sending" THEN PostIn("unknown") ELSE post
            /\ Committed(w, "ok")
       ELSE /\ worker' = Goto(w, "ok")
            /\ UNCHANGED post
    /\ UNCHANGED <<job, claims, telegram, dependencies>>

RequestOf(w, kind) ==
    [kind |-> kind, generation |-> worker[w].generation, caption |-> worker[w].caption]

(* find_storage_receipt, then copy_from_storage is dispatched.  Media that *)
(* is no longer ready has no receipt; a malformed receipt is rejected too. *)
LookupReceipt(w) ==
    /\ At(w, "lookup")
    /\ \/ /\ mediaReady
          /\ requests' = requests \cup {RequestOf(w, "copy")}
          /\ worker' = Goto(w, "copying")
       \/ /\ worker' = Goto(w, "reject")
          /\ UNCHANGED requests
    /\ UNCHANGED <<post, job, claims, messages, dependencies>>

(* Telegram acts on a request, whether or not anyone still waits for it. *)
Deliver(r) ==
    /\ r \in requests
    /\ requests' = requests \ {r}
    /\ messages' = messages \cup {r}
    /\ UNCHANGED <<post, job, claims, worker, dependencies>>

Refuse(r) ==
    /\ r \in requests
    /\ requests' = requests \ {r}
    /\ UNCHANGED <<post, job, claims, worker, messages, dependencies>>

(* An explicit answer says what happened to the request. *)
Accepted(r) == r \in messages
Refused(r) == r \notin requests \cup messages

(* Faulty variant of CallOutcome: an ambiguous answer counts as no effect. *)
CallOutcomeOptimistic(w, kind) ==
    \/ /\ Accepted(RequestOf(w, kind))
       /\ worker' = Goto(w, "complete")
    \/ worker' \in {Goto(w, "requeue"), Goto(w, "reject")}

(* The outcome of a Telegram call, as settle_publication_transport_error   *)
(* classifies it: flood control is a known no-effect retry, other explicit *)
(* API errors (the caption's among them) reject the post, and a network,   *)
(* I/O, malformed or unknown answer is ambiguous whatever happened.        *)
CallOutcome(w, kind) ==
    \/ /\ Accepted(RequestOf(w, kind))
       /\ worker' = Goto(w, "complete")
    \/ /\ Refused(RequestOf(w, kind))
       /\ worker' \in {Goto(w, "requeue"), Goto(w, "reject")}
    \/ worker' = Goto(w, "ambiguous")

(* copy_from_storage returns; only an explicit copy-unavailable answer     *)
(* dispatches send_storage_file, and without a file id it is a rejection.  *)
CopyReturns(w) ==
    /\ At(w, "copying")
    /\ \/ /\ CallOutcome(w, "copy")
          /\ UNCHANGED requests
       \/ /\ Refused(RequestOf(w, "copy"))
          /\ requests' = requests \cup {RequestOf(w, "file")}
          /\ worker' = Goto(w, "filing")
    /\ UNCHANGED <<post, job, claims, messages, dependencies>>

(* send_storage_file returns. *)
FileReturns(w) ==
    /\ At(w, "filing")
    /\ CallOutcome(w, "file")
    /\ UNCHANGED <<post, job, claims, telegram, dependencies>>

(* Faulty variants of CompletePublish: the lease is not checked, or the    *)
(* job's vocabulary is written into the post.                              *)
CompletePublishUnleased(w) ==
    /\ At(w, "complete")
    /\ IF HoldsSend(w)
       THEN post' = PostIn("published")
       ELSE UNCHANGED post
    /\ worker' = Goto(w, "ok")
    /\ UNCHANGED <<job, claims, telegram, dependencies>>

(* complete_publish; a lost lease, a lost send and an already published    *)
(* post all end the handler with success.                                  *)
CompletePublish(w) ==
    /\ At(w, "complete")
    /\ IF HoldsLease(w) /\ HoldsSend(w)
       THEN /\ post' = PostIn("published")
            /\ Committed(w, "ok")
       ELSE /\ worker' = Goto(w, "ok")
            /\ UNCHANGED post
    /\ UNCHANGED <<job, claims, telegram, dependencies>>

(* fail_publish, as failed after an explicit rejection and as unknown      *)
(* after an ambiguous outcome or a completion that was not recorded.       *)
FailPublish(w) ==
    /\ worker[w].pc \in {"reject", "ambiguous"}
    /\ IF HoldsLease(w) /\ HoldsSend(w)
       THEN /\ post' = PostIn(IF At(w, "reject") THEN "failed" ELSE "unknown")
            /\ Committed(w, "fail")
       ELSE /\ worker' = Goto(w, "ok")
            /\ UNCHANGED post
    /\ UNCHANGED <<job, claims, telegram, dependencies>>

(* Faulty variant of RetryPublish: the payload keeps the old revision. *)
RetryPublishStalePayload(w) ==
    /\ At(w, "requeue")
    /\ IF HoldsLease(w) /\ HoldsSend(w)
       THEN IF job.attempt >= MaxAttempts
            THEN /\ post' = PostIn("failed")
                 /\ Committed(w, "fail")
            ELSE /\ post' = PostIn("queued")
                 /\ Committed(w, "retry")
       ELSE /\ worker' = Goto(w, "ok")
            /\ UNCHANGED post
    /\ UNCHANGED <<job, claims, telegram, dependencies>>

(* retry_publish: back to queued with the payload moved to the new         *)
(* revision, or failed when this was the last attempt.                     *)
RetryPublish(w) ==
    /\ At(w, "requeue")
    /\ IF HoldsLease(w) /\ HoldsSend(w)
       THEN IF job.attempt >= MaxAttempts
            THEN /\ post' = PostIn("failed")
                 /\ Committed(w, "fail")
                 /\ UNCHANGED job
            ELSE /\ post' = PostIn("queued")
                 /\ job' = [job EXCEPT !.revision = NextRevision]
                 /\ Committed(w, "retry")
       ELSE /\ worker' = Goto(w, "ok")
            /\ UNCHANGED <<post, job>>
    /\ UNCHANGED <<claims, telegram, dependencies>>

-----------------------------------------------------------------------------
(* Settling the lease *)

(* settle_terminal_publication_post: a job that will not run again takes   *)
(* the post it still owns with it.                                         *)
PostAfterLastAttempt ==
    CASE post.state = "queued" /\ job.revision = post.revision -> PostIn("failed")
      [] post.state = "sending" -> PostIn("unknown")
      [] OTHER -> post

(* update_locked_job *)
JobReleased(state) == [job EXCEPT !.state = state, !.lease = 0, !.live = FALSE]

(* queue_parameters, then the post and the job in one transaction. *)
Settle(terminal) ==
    /\ post' = IF terminal THEN PostAfterLastAttempt ELSE post
    /\ job' = JobReleased(IF terminal THEN "failed" ELSE "queued")

(* complete_lease.  When it finds the lease lost the worker process stops, *)
(* and starts again with nothing in memory.                                *)
CompleteLease(w) ==
    /\ At(w, "ok")
    /\ job' = IF HoldsLease(w) THEN JobReleased("succeeded") ELSE job
    /\ worker' = [worker EXCEPT ![w] = Idle]
    /\ UNCHANGED <<post, claims, telegram, dependencies>>

(* settle_publish_job: a permanent failure is terminal, a retry is when    *)
(* the attempts are used up.                                               *)
SettleLease(w) ==
    /\ worker[w].pc \in {"retry", "fail"}
    /\ IF HoldsLease(w)
       THEN Settle(At(w, "fail") \/ job.attempt >= MaxAttempts)
       ELSE UNCHANGED <<post, job>>
    /\ worker' = [worker EXCEPT ![w] = Idle]
    /\ UNCHANGED <<claims, telegram, dependencies>>

(* recover_publish_job, run by every worker at start and periodically. *)
RecoverStaleLease ==
    /\ job.state = "running"
    /\ ~job.live
    /\ Settle(job.attempt >= MaxAttempts)
    /\ UNCHANGED <<claims, worker, telegram, dependencies>>

(* prune_terminal_jobs, past the retention horizon. *)
PruneJob ==
    /\ job.state \in TerminalJobStates
    /\ post.state \in {"published", "failed", "cancelled"}
    /\ job' = NoJob
    /\ UNCHANGED <<post, claims, worker, telegram, dependencies>>

-----------------------------------------------------------------------------
(* What other components do to the rows the publication depends on. *)

(* update_channel enables or disables the channel. *)
ChannelToggled ==
    /\ channelEnabled' = ~channelEnabled
    /\ UNCHANGED <<post, job, claims, worker, telegram, mediaReady>>

(* The storage workflow makes the media ready, or an operator marks its    *)
(* storage unknown.                                                        *)
MediaToggled ==
    /\ mediaReady' = ~mediaReady
    /\ UNCHANGED <<post, job, claims, worker, telegram, channelEnabled>>

-----------------------------------------------------------------------------

OperatorStep ==
    \/ CreateDraft
    \/ InsertIntendedPost
    \/ UpdatePost
    \/ SchedulePost
    \/ DecidePost
    \/ CancelPost

(* The steps a running worker takes by itself once it has a job. *)
HandlerStep(w) ==
    \/ ClaimPublish(w)
    \/ ReconcileInterruptedPublish(w)
    \/ LookupReceipt(w)
    \/ CopyReturns(w)
    \/ FileReturns(w)
    \/ CompletePublish(w)
    \/ FailPublish(w)
    \/ RetryPublish(w)
    \/ DatabaseError(w)
    \/ CompleteLease(w)
    \/ SettleLease(w)

Next ==
    \/ OperatorStep
    \/ \E w \in Workers : ClaimNext(w) \/ HandlerStep(w) \/ Crash(w) \/ Shutdown(w)
    \/ \E r \in requests : Deliver(r) \/ Refuse(r)
    \/ LeaseExpires
    \/ RecoverStaleLease
    \/ PruneJob
    \/ ChannelToggled
    \/ MediaToggled

Spec == Init /\ [][Next]_vars

(* A lease whose holder is gone gets no more heartbeats. *)
AbandonedLeaseExpires ==
    /\ \A w \in Workers : worker[w].lease # job.lease
    /\ LeaseExpires

(* Some worker keeps polling, a worker that has a job keeps running, time  *)
(* passes for an abandoned lease and the periodic recovery keeps running.  *)
(* Nothing obliges an operator, Telegram, a crash or a live lease's expiry.*)
Fairness ==
    /\ WF_vars(\E w \in Workers : ClaimNext(w))
    /\ \A w \in Workers : WF_vars(HandlerStep(w))
    /\ WF_vars(AbandonedLeaseExpires)
    /\ WF_vars(RecoverStaleLease)

FairSpec == Spec /\ Fairness

-----------------------------------------------------------------------------
(* Properties *)

(* Requests and messages: what this post has done, or may still do, to the *)
(* target channel.                                                         *)
Effects == requests \cup messages

(* The target channel never shows the post twice: not after a crash in the *)
(* middle of a send, a lost answer, a lease taken over by another worker,  *)
(* a retry, the file-id fallback, or an operator who schedules it again.   *)
AtMostOneMessage == \A a, b \in messages : a = b

(* Whenever the post may be sent again, or was withdrawn, no send of it is *)
(* in the channel or still on its way there: only a fenced state (sending, *)
(* unknown, published) admits an effect.                                   *)
EffectOnlyWhenFenced ==
    Effects # {} => post.state \in {"sending", "unknown", "published"}

(* A published post is in the channel, with exactly the caption the row    *)
(* holds: no edit slips in between the claim, the call and the completion. *)
PublishedAsRecorded ==
    post.state = "published" =>
        \E r \in messages : messages = {r} /\ r.caption = post.caption

(* A terminal job cannot leave a queued post behind, nor a sending one:    *)
(* while the post waits for a worker there is a job that will run, pointed *)
(* at the revision the post has.                                           *)
NoStrandedPost ==
    /\ post.state = "queued" => /\ job.state \in {"queued", "running"}
                                /\ job.revision = post.revision
    /\ post.state = "sending" => job.state \in {"queued", "running"}

(* A queued job can always be claimed: claim_next skips a job whose        *)
(* attempts are used up, so such a job would wait forever.                 *)
QueuedJobClaimable == job.state = "queued" => job.attempt < MaxAttempts

(* Two workers are never both able to send: whoever may still call         *)
(* Telegram holds the post's latest send generation, alone.                *)
OneSender ==
    \A v, w \in Workers :
        /\ {worker[v].pc, worker[w].pc} \subseteq {"lookup", "copying", "filing"}
        => v = w

(* Whoever lost the lease changes neither row: a worker that was taken     *)
(* over can neither complete nor fail nor requeue what is now another's.   *)
StaleWorkerChangesNothing ==
    [][\A w \in Workers :
          HandlerStep(w) /\ ~HoldsLease(w) => UNCHANGED <<post, job>>]_vars

(* published, unknown and cancelled are final: nothing in the program      *)
(* sends such a post again or rewrites its outcome.                        *)
OutcomeIsFinal ==
    [][post.state \in {"published", "unknown", "cancelled"} => post' = post]_vars

(* "Caption syntax errors become editable failed posts and their job is    *)
(* terminal": once the job of a failed post is settled, update_post,       *)
(* schedule_post and cancel_post accept the post.                          *)
FailedPostEditable ==
    post.state = "failed" /\ job.state \in TerminalJobStates => Requeueable

-----------------------------------------------------------------------------
(* The abstract specification this one implements *)

OutcomeOf(state) ==
    IF state \in {"sending", "published", "unknown", "cancelled"} THEN state ELSE "open"

Outcome == INSTANCE PublicationOutcome
    WITH outcome <- OutcomeOf(post.state), caption <- post.caption, chat <- messages

(* Rows, leases, retries and recovery together keep the promise that       *)
(* PublicationOutcome states.                                              *)
ImplementsOutcome == Outcome!Spec

(* The same with the promise that a send is always resolved. *)
ImplementsFairOutcome == Outcome!FairSpec

-----------------------------------------------------------------------------
(* The inductive invariant behind the safety properties *)

(* The worker has claimed the post and has not yet said how the send went. *)
InSend(w) == worker[w].pc \in {"lookup", "copying", "filing", "complete", "reject",
                               "ambiguous", "requeue"}

(* Lease tokens are fresh: no two workers share one, and a token that is   *)
(* not the job's will never be again.                                      *)
LeaseInv ==
    /\ \A w \in Workers : /\ worker[w].lease <= claims
                          /\ worker[w].pc # "idle" => worker[w].lease # 0
    /\ \A v, w \in Workers : worker[v].lease = worker[w].lease /\ v # w
                                => worker[v].lease = 0
    /\ job.lease <= claims
    /\ job.state = "running" => job.lease # 0 /\ job.attempt <= MaxAttempts
    /\ job.state = "queued" => job.attempt < MaxAttempts

(* Which job a post has. *)
JobInv ==
    /\ post.state \in {"none", "draft"} => job.state = "absent"
    /\ post.state = "queued" => job.state \in {"queued", "running"} /\ job.revision = post.revision
    /\ post.state = "sending" => job.state \in {"queued", "running"}
    /\ post.state = "cancelled" => job.state \in {"absent", "cancelled"}

(* The handler under the current lease: it claims with the revision of the *)
(* payload, and it reports success only for a post that needs no worker.   *)
HandlerInv ==
    \A w \in Workers : HoldsLease(w) =>
        /\ worker[w].pc = "claim" => worker[w].revision = job.revision
        /\ worker[w].pc = "reconcile" => post.state # "queued"
        /\ worker[w].pc = "ok" => post.state \notin {"queued", "sending"}

(* One worker at most is in a send; the post cannot leave that send for a  *)
(* state that permits another one behind its back.                         *)
SendInv ==
    /\ \A v, w \in Workers : InSend(v) /\ InSend(w) => v = w
    /\ \A w \in Workers : InSend(w) =>
        /\ post.generation = worker[w].generation
        /\ post.caption = worker[w].caption
        /\ post.state \in {"sending", "unknown", "published"}
        /\ HoldsLease(w) /\ worker[w].pc # "ambiguous" => post.state = "sending"

(* What the channel has seen or may still see of the post, in each phase. *)
EffectInv ==
    /\ \A a, b \in Effects : a = b
    /\ \A r \in Effects : r.caption = post.caption
    /\ Effects # {} => post.state \in {"sending", "unknown", "published"}
    /\ post.state = "published" => messages # {}
    /\ \A w \in Workers :
        /\ worker[w].pc \in {"lookup", "reject", "requeue"} => Effects = {}
        /\ worker[w].pc = "copying" => Effects \subseteq {RequestOf(w, "copy")}
        /\ worker[w].pc = "filing" => Effects \subseteq {RequestOf(w, "file")}
        /\ worker[w].pc = "complete" => messages # {}

(* Leases, jobs, handlers, sends and effects agree with one another. *)
PublicationInv == TypeOK /\ LeaseInv /\ JobInv /\ HandlerInv /\ SendInv /\ EffectInv
=============================================================================
