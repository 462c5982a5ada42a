------------------------- MODULE PublicationProofs -------------------------
(***************************************************************************)
(* Proofs that Publication keeps its safety properties for every number of *)
(* workers, attempts and operator commands.                                *)
(***************************************************************************)
EXTENDS Publication, TLAPS

(* The arithmetic of revisions, generations, attempts and tokens. *)
LEMMA CountersType ==
    ASSUME TypeOK
    PROVE  /\ NextRevision \in Nat
           /\ NextGeneration \in Nat
           /\ NextAttempt \in Nat
           /\ FreshToken \in Nat
BY DEF TypeOK, PostRow, JobRow, NextRevision, NextGeneration, NextAttempt, FreshToken

(* The values the post row takes. *)
LEMMA PostType ==
    ASSUME TypeOK
    PROVE  /\ NoPost \in PostRow
           /\ \A s \in PostStates : PostIn(s) \in PostRow
           /\ PostAfterLastAttempt \in PostRow
<1>1. NoPost \in PostRow
  BY Zenon DEF NoPost, PostRow, PostStates
<1>2. ASSUME NEW s \in PostStates PROVE PostIn(s) \in PostRow
  BY CountersType, ZenonT(60) DEF PostIn, PostRow, TypeOK
<1>3. PostAfterLastAttempt \in PostRow
  BY Zenon, <1>2 DEF PostAfterLastAttempt, PostStates, TypeOK
<1>4. QED
  BY Zenon, <1>1, <1>2, <1>3

(* The values the job row takes. *)
LEMMA JobType ==
    ASSUME TypeOK
    PROVE  /\ NoJob \in JobRow
           /\ \A s \in JobStates, r \in Nat : NewPublishJob(s, r) \in JobRow
           /\ \A r \in Nat : Requeued(r) \in JobRow
           /\ \A s \in JobStates : JobReleased(s) \in JobRow
<1>1. NoJob \in JobRow
  BY Zenon DEF NoJob, JobRow, JobStates
<1>2. ASSUME NEW s \in JobStates, NEW r \in Nat PROVE NewPublishJob(s, r) \in JobRow
  BY <1>1, ZenonT(60) DEF NewPublishJob, JobRow
<1>3. ASSUME NEW r \in Nat PROVE Requeued(r) \in JobRow
  BY <1>2, ZenonT(60) DEF Requeued, JobRow, JobStates, TypeOK
<1>4. ASSUME NEW s \in JobStates PROVE JobReleased(s) \in JobRow
  BY ZenonT(60) DEF JobReleased, JobRow, TypeOK
<1>5. QED
  BY Zenon, <1>1, <1>2, <1>3, <1>4

Pcs == {"idle"} \cup HandlerSteps \cup Results

(* The values a worker record takes. *)
LEMMA WorkerType ==
    ASSUME TypeOK, NEW w \in Workers
    PROVE  /\ Idle \in Worker
           /\ \A pc \in Pcs : Goto(w, pc) \in [Workers -> Worker]
           /\ worker[w].pc \in HandlerSteps \ {"copying", "filing"} =>
                AfterDatabaseError(worker[w].pc) \in Pcs
<1>1. Idle \in Worker
  BY Zenon DEF Idle, Worker
<1>2. ASSUME NEW pc \in Pcs PROVE Goto(w, pc) \in [Workers -> Worker]
  BY Zenon DEF Pcs, Goto, Worker, TypeOK
<1>3. ASSUME worker[w].pc \in HandlerSteps \ {"copying", "filing"}
      PROVE  AfterDatabaseError(worker[w].pc) \in Pcs
  BY Zenon, <1>3 DEF AfterDatabaseError, Pcs, HandlerSteps, Results
<1>4. QED
  BY Zenon, <1>1, <1>2, <1>3

(* The types of all rows and worker records survive every step. *)
LEMMA TypeStep ==
    ASSUME TypeOK, [Next]_vars
    PROVE  TypeOK'
<1> USE CountersType, PostType, JobType
<1> USE DEF TypeOK, telegram, dependencies
<1>1. ASSUME OperatorStep PROVE TypeOK'
  <2>1. CASE CreateDraft \/ InsertIntendedPost
    <3>1. /\ [NoPost EXCEPT !.state = "draft"] \in PostRow
          /\ [NoPost EXCEPT !.state = "queued"] \in PostRow
          /\ [NoPost EXCEPT !.state = "draft", !.evidence = TRUE] \in PostRow
      BY ZenonT(60) DEF PostRow, PostStates
    <3>2. QED
      BY Zenon, <2>1, <3>1 DEF CreateDraft, InsertIntendedPost, JobStates
  <2>2. CASE UpdatePost
    <3>1. post.state \in PostStates
      BY Zenon DEF PostRow
    <3>2. [PostIn(post.state) EXCEPT !.caption = NextRevision] \in PostRow
      BY Zenon, <3>1 DEF PostRow
    <3>3. [job EXCEPT !.revision = NextRevision] \in JobRow
      BY Zenon DEF JobRow
    <3>4. QED
      BY Zenon, <2>2, <3>2, <3>3 DEF UpdatePost, FailedJobAt, JobStates
  <2>3. CASE SchedulePost
    BY Zenon, <2>3 DEF SchedulePost, PostStates
  <2>4. CASE DecidePost
    <3>1. \A s \in PostStates : [PostIn(s) EXCEPT !.evidence = FALSE] \in PostRow
      BY ZenonT(60) DEF PostRow
    <3>2. QED
      BY <2>4, <3>1, ZenonT(60) DEF DecidePost, PostStates
  <2>5. CASE CancelPost
    <3>1. [job EXCEPT !.state = "cancelled", !.lease = 0, !.live = FALSE] \in JobRow
      BY ZenonT(60) DEF JobRow, JobStates
    <3>2. QED
      BY Zenon, <2>5, <3>1 DEF CancelPost, CancelledJob, PostStates
  <2>6. QED
    BY Zenon, <1>1, <2>1, <2>2, <2>3, <2>4, <2>5 DEF OperatorStep
<1>2. ASSUME NEW w \in Workers, ClaimNext(w) \/ HandlerStep(w) \/ Crash(w) \/ Shutdown(w)
      PROVE  TypeOK'
  <2> USE WorkerType
  <2>1. CASE ClaimNext(w)
    <3>1. [job EXCEPT !.state = "running", !.attempt = NextAttempt,
                      !.lease = FreshToken, !.live = TRUE] \in JobRow
      BY ZenonT(60) DEF JobRow, JobStates
    <3>2. [Idle EXCEPT !.pc = "claim", !.lease = FreshToken, !.revision = job.revision] \in Worker
      BY ZenonT(60) DEF Idle, Worker, JobRow, HandlerSteps
    <3>3. QED
      BY Zenon, <2>1, <3>1, <3>2 DEF ClaimNext
  <2>2. CASE Crash(w)
    BY Zenon, <2>2 DEF Crash
  <2>3. CASE Shutdown(w)
    BY Zenon, <2>3 DEF Shutdown, Pcs, Results
  <2>4. CASE ClaimPublish(w)
    <3>1. [PostIn("sending") EXCEPT !.generation = NextGeneration] \in PostRow
      BY Zenon DEF PostRow, PostStates
    <3>2. EnterSend(w) \in [Workers -> Worker]
      BY ZenonT(60) DEF EnterSend, Worker, PostRow, HandlerSteps
    <3>3. {"retry", ClaimRefusal(w)} \subseteq Pcs
      BY Zenon DEF ClaimRefusal, Pcs, Results, HandlerSteps
    <3>4. QED
      BY <2>4, <3>1, <3>2, <3>3, ZenonT(60) DEF ClaimPublish
  <2>5. CASE ReconcileInterruptedPublish(w)
    BY <2>5, ZenonT(60) DEF ReconcileInterruptedPublish, Committed, At, Pcs, Results,
       HandlerSteps, PostStates
  <2>6. CASE LookupReceipt(w)
    BY <2>6 DEF LookupReceipt, RequestOf, Request, Worker, Pcs, HandlerSteps
  <2>7. CASE CopyReturns(w)
    BY <2>7 DEF CopyReturns, CallOutcome, RequestOf, Request, Worker, Pcs, HandlerSteps
  <2>8. CASE FileReturns(w)
    BY Zenon, <2>8 DEF FileReturns, CallOutcome, Pcs, HandlerSteps
  <2>9. CASE CompletePublish(w)
    BY <2>9, ZenonT(60) DEF CompletePublish, Committed, At, Pcs, Results, HandlerSteps, PostStates
  <2>10. CASE FailPublish(w)
    BY <2>10, ZenonT(60) DEF FailPublish, Committed, At, Pcs, Results, HandlerSteps, PostStates
  <2>11. CASE RetryPublish(w)
    <3>1. [job EXCEPT !.revision = NextRevision] \in JobRow
      BY Zenon DEF JobRow
    <3>2. QED
      BY <2>11, <3>1, ZenonT(60) DEF RetryPublish, Committed, At, Pcs, Results, HandlerSteps,
         PostStates
  <2>12. CASE DatabaseError(w)
    BY Zenon, <2>12 DEF DatabaseError
  <2>13. CASE CompleteLease(w)
    BY Zenon, <2>13 DEF CompleteLease, JobStates
  <2>14. CASE SettleLease(w)
    BY Zenon, <2>14 DEF SettleLease, Settle, JobStates
  <2>15. QED
    BY Zenon, <1>2, <2>1, <2>2, <2>3, <2>4, <2>5, <2>6, <2>7, <2>8, <2>9, <2>10, <2>11, <2>12,
       <2>13, <2>14 DEF HandlerStep
<1>3. ASSUME NEW r \in requests, Deliver(r) \/ Refuse(r) PROVE TypeOK'
  BY Zenon, <1>3 DEF Deliver, Refuse
<1>4. CASE LeaseExpires
  <2>1. [job EXCEPT !.live = FALSE] \in JobRow
    BY ZenonT(60) DEF JobRow
  <2>2. QED
    BY Zenon, <1>4, <2>1 DEF LeaseExpires
<1>5. CASE RecoverStaleLease
  BY Zenon, <1>5 DEF RecoverStaleLease, Settle, JobStates
<1>6. CASE PruneJob
  BY Zenon, <1>6 DEF PruneJob
<1>7. CASE ChannelToggled \/ MediaToggled
  BY <1>7, ZenonT(60) DEF ChannelToggled, MediaToggled
<1>8. CASE UNCHANGED vars
  BY Zenon, <1>8 DEF vars
<1>9. QED
  BY Zenon, <1>1, <1>2, <1>3, <1>4, <1>5, <1>6, <1>7, <1>8 DEF Next

-----------------------------------------------------------------------------
(* How a step reads in terms of fields *)

(* What moving to another step changes: only that worker's place. *)
LEMMA GotoFields ==
    ASSUME TypeOK, NEW w \in Workers, NEW pc \in Pcs, worker' = Goto(w, pc)
    PROVE  /\ worker'[w].pc = pc
           /\ worker'[w].lease = worker[w].lease
           /\ worker'[w].revision = worker[w].revision
           /\ worker'[w].generation = worker[w].generation
           /\ worker'[w].caption = worker[w].caption
           /\ \A v \in Workers \ {w} : worker'[v] = worker[v]
BY Zenon DEF TypeOK, Goto, Worker

(* What a granted claim changes: the worker carries the snapshot it sends. *)
LEMMA EnterSendFields ==
    ASSUME TypeOK, NEW w \in Workers, worker' = EnterSend(w)
    PROVE  /\ worker'[w].pc = "lookup"
           /\ worker'[w].lease = worker[w].lease
           /\ worker'[w].revision = worker[w].revision
           /\ worker'[w].generation = NextGeneration
           /\ worker'[w].caption = post.caption
           /\ \A v \in Workers \ {w} : worker'[v] = worker[v]
BY CountersType DEF TypeOK, EnterSend, Worker

(* What forgetting the job changes: only that worker's record. *)
LEMMA IdleFields ==
    ASSUME TypeOK, NEW w \in Workers, worker' = [worker EXCEPT ![w] = Idle]
    PROVE  /\ worker'[w].pc = "idle"
           /\ worker'[w].lease = 0
           /\ \A v \in Workers \ {w} : worker'[v] = worker[v]
BY Zenon DEF TypeOK, Idle

(* What a write to the post row changes. *)
LEMMA PostFields ==
    ASSUME TypeOK, NEW s \in PostStates
    PROVE  /\ PostIn(s).state = s
           /\ PostIn(s).revision = NextRevision
           /\ PostIn(s).generation = post.generation
           /\ PostIn(s).caption = post.caption
           /\ PostIn(s).evidence = post.evidence
BY Zenon DEF TypeOK, PostIn, PostRow

(* What a write to the job row changes. *)
LEMMA JobFields ==
    ASSUME TypeOK
    PROVE  /\ \A s \in JobStates :
                /\ JobReleased(s).state = s
                /\ JobReleased(s).revision = job.revision
                /\ JobReleased(s).attempt = job.attempt
                /\ JobReleased(s).lease = 0
                /\ JobReleased(s).live = FALSE
           /\ \A s \in JobStates, r \in Nat :
                /\ NewPublishJob(s, r).state = s
                /\ NewPublishJob(s, r).revision = r
                /\ NewPublishJob(s, r).attempt = 0
                /\ NewPublishJob(s, r).lease = 0
                /\ NewPublishJob(s, r).live = FALSE
           /\ \A r \in Nat :
                /\ Requeued(r).state = "queued"
                /\ Requeued(r).revision = r
                /\ Requeueable => \/ Requeued(r).attempt = 0
                                  \/ job.state = "queued" /\ Requeued(r).attempt = job.attempt
                /\ Requeued(r).lease \in {0, job.lease}
           /\ /\ NoJob.state = "absent"
              /\ NoJob.lease = 0
<1>1. \A s \in JobStates :
                /\ JobReleased(s).state = s
                /\ JobReleased(s).revision = job.revision
                /\ JobReleased(s).attempt = job.attempt
                /\ JobReleased(s).lease = 0
                /\ JobReleased(s).live = FALSE
  BY Zenon DEF TypeOK, JobReleased, JobRow
<1>2. \A s \in JobStates, r \in Nat :
                /\ NewPublishJob(s, r).state = s
                /\ NewPublishJob(s, r).revision = r
                /\ NewPublishJob(s, r).attempt = 0
                /\ NewPublishJob(s, r).lease = 0
                /\ NewPublishJob(s, r).live = FALSE
  BY Zenon DEF NewPublishJob, NoJob
<1>3. \A r \in Nat :
                /\ Requeued(r).state = "queued"
                /\ Requeued(r).revision = r
                /\ Requeueable => \/ Requeued(r).attempt = 0
                                  \/ job.state = "queued" /\ Requeued(r).attempt = job.attempt
                /\ Requeued(r).lease \in {0, job.lease}
  BY <1>2 DEF TypeOK, Requeued, Requeueable, JobRow, JobStates
<1>4. NoJob.state = "absent" /\ NoJob.lease = 0
  BY Zenon DEF NoJob
<1>5. QED
  BY Zenon, <1>1, <1>2, <1>3, <1>4

(* The steps inside the handler, and the shutdown that drops it. *)
InHandler(w) ==
    \/ ClaimPublish(w)
    \/ ReconcileInterruptedPublish(w)
    \/ LookupReceipt(w)
    \/ CopyReturns(w)
    \/ FileReturns(w)
    \/ CompletePublish(w)
    \/ FailPublish(w)
    \/ RetryPublish(w)
    \/ DatabaseError(w)
    \/ Shutdown(w)

(* The handler never touches the lease, its own or another's. *)
LEMMA HandlerKeepsLease ==
    ASSUME TypeOK, NEW w \in Workers, InHandler(w)
    PROVE  /\ claims' = claims
           /\ job'.state = job.state
           /\ job'.attempt = job.attempt
           /\ job'.lease = job.lease
           /\ job'.live = job.live
           /\ worker[w].pc \in HandlerSteps
           /\ worker'[w].pc \in HandlerSteps \cup Results
           /\ worker'[w].lease = worker[w].lease
           /\ \A v \in Workers \ {w} : worker'[v] = worker[v]
<1> USE GotoFields, WorkerType DEF Pcs, HandlerSteps, Results
<1>1. CASE ClaimPublish(w)
  <2>1. CASE worker' = EnterSend(w)
    BY <1>1, <2>1, ZenonT(60) DEF ClaimPublish, At, EnterSend, TypeOK, Worker
  <2>2. CASE worker' # EnterSend(w)
    BY <1>1, <2>2 DEF ClaimPublish, At, ClaimRefusal
  <2>3. QED
    BY <2>1, <2>2, Zenon
<1>2. CASE ReconcileInterruptedPublish(w)
  BY <1>2 DEF ReconcileInterruptedPublish, At, Committed, AfterDatabaseError
<1>3. CASE LookupReceipt(w)
  BY Zenon, <1>3 DEF LookupReceipt, At
<1>4. CASE CopyReturns(w)
  BY <1>4, SMTT(60) DEF CopyReturns, At, CallOutcome
<1>5. CASE FileReturns(w)
  BY <1>5 DEF FileReturns, At, CallOutcome
<1>6. CASE CompletePublish(w)
  BY Zenon, <1>6 DEF CompletePublish, At, Committed, AfterDatabaseError
<1>7. CASE FailPublish(w)
  BY SMTT(40), <1>7 DEF FailPublish, At, Committed, AfterDatabaseError
<1>8. CASE RetryPublish(w)
  BY <1>8, SMTT(60) DEF RetryPublish, At, Committed, AfterDatabaseError, TypeOK, JobRow
<1>9. CASE DatabaseError(w)
  BY <1>9, ZenonT(60) DEF DatabaseError, AfterDatabaseError
<1>10. CASE Shutdown(w)
  BY SMTT(40), <1>10 DEF Shutdown
<1>11. QED
  BY <1>1, <1>2, <1>3, <1>4, <1>5, <1>6, <1>7, <1>8, <1>9, <1>10, Zenon DEF InHandler

(* What each step of the handler does to the post and where it goes next:  *)
(* one disjunct per outcome.                                               *)
HandlerMove(w, pc, next) ==
    \/ /\ pc = "claim" /\ Claimable(w)
       /\ post'.state = "sending" /\ next \in {"lookup", "retry"}
       /\ next = "lookup" => worker'[w].generation = post'.generation
    \/ /\ pc = "claim" /\ ~Claimable(w)
       /\ post' = post /\ next = ClaimRefusal(w)
    \/ /\ pc = "reconcile" /\ HoldsLease(w) /\ post.state = "sending"
       /\ post'.state = "unknown" /\ next \in {"ok", "retry"}
    \/ /\ pc = "reconcile" /\ ~(HoldsLease(w) /\ post.state = "sending")
       /\ post' = post /\ next \in {"ok", "retry"}
    \/ /\ pc \in {"lookup", "copying", "filing"}
       /\ post' = post
       /\ next \in {"copying", "filing", "complete", "reject", "requeue", "ambiguous", "retry"}
    \/ /\ pc = "complete" /\ HoldsLease(w) /\ HoldsSend(w)
       /\ post'.state = "published" /\ next \in {"ok", "ambiguous"}
    \/ /\ pc \in {"reject", "ambiguous"} /\ HoldsLease(w) /\ HoldsSend(w)
       /\ post'.state = (IF pc = "reject" THEN "failed" ELSE "unknown") /\ next = "fail"
    \/ /\ pc = "requeue" /\ HoldsLease(w) /\ HoldsSend(w)
       /\ post'.state \in {"failed", "queued"} /\ next \in {"fail", "retry"}
       /\ post'.state = "queued" => job'.revision = post'.revision
    \/ /\ pc \in {"complete", "reject", "ambiguous", "requeue"}
       /\ ~(HoldsLease(w) /\ HoldsSend(w))
       /\ post' = post /\ next = "ok"
    \/ /\ pc = "complete" /\ post' = post /\ next = "ambiguous"
    \/ /\ pc \in HandlerSteps /\ post' = post /\ next \in {"fail", "retry"}

(* Every step of the handler is one of these moves; the caption is never   *)
(* touched, and the payload's revision only by a requeued post.            *)
LEMMA HandlerFields ==
    ASSUME TypeOK, NEW w \in Workers, InHandler(w)
    PROVE  /\ HandlerMove(w, worker[w].pc, worker'[w].pc)
           /\ post'.caption = post.caption
           /\ post' # post => HoldsLease(w)
           /\ post'.state # "sending" => post'.generation = post.generation
           /\ post' = post => job' = job
           /\ post'.state # "queued" => job' = job
           /\ worker'[w].revision = worker[w].revision
           /\ worker[w].pc # "claim" => worker'[w].generation = worker[w].generation
           /\ worker'[w].caption = IF worker[w].pc = "claim" /\ worker'[w].pc = "lookup"
                                   THEN post.caption ELSE worker[w].caption
<1> USE GotoFields, WorkerType, PostFields DEF Pcs, HandlerSteps, Results, PostStates
<1>1. CASE ClaimPublish(w)
  <2>1. /\ worker[w].pc = "claim"
        /\ job' = job
    BY Zenon, <1>1 DEF ClaimPublish, At
  <2>2. CASE Claimable(w)
    <3>1. /\ post'.state = "sending"
          /\ post'.generation = NextGeneration
          /\ post'.caption = post.caption
          /\ post # post'
      BY <1>1, <2>2, PostType, CountersType, SMTT(60) DEF ClaimPublish, Claimable, PostRow
    <3>2. CASE worker' = EnterSend(w)
      <4>1. /\ worker'[w].pc = "lookup"
            /\ worker'[w].generation = NextGeneration
            /\ worker'[w].caption = post.caption
            /\ worker'[w].revision = worker[w].revision
        BY <3>2, EnterSendFields, Zenon
      <4>2. QED
        BY <2>1, <2>2, <3>1, <4>1, Zenon DEF HandlerMove, Claimable
    <3>3. CASE worker' = Goto(w, "retry")
      BY <2>1, <2>2, <3>1, <3>3, SMTT(60) DEF HandlerMove, Claimable
    <3>4. QED
      BY <1>1, <2>2, <3>2, <3>3, Zenon DEF ClaimPublish
  <2>3. CASE ~Claimable(w)
    <3>1. post' = post /\ worker' = Goto(w, ClaimRefusal(w))
      BY <1>1, <2>3, Zenon DEF ClaimPublish
    <3>2. ClaimRefusal(w) \in {"ok", "reconcile", "retry"}
      BY Zenon DEF ClaimRefusal
    <3>3. QED
      BY <2>1, <2>3, <3>1, <3>2, SMTT(60) DEF HandlerMove
  <2>4. QED
    BY Zenon, <2>2, <2>3
<1>2. CASE ReconcileInterruptedPublish(w)
  BY <1>2, SMTT(60) DEF ReconcileInterruptedPublish, At, Committed, AfterDatabaseError, HandlerMove
<1>3. CASE LookupReceipt(w)
  BY <1>3, SMTT(60) DEF LookupReceipt, At, HandlerMove
<1>4. CASE CopyReturns(w)
  BY <1>4, SMTT(60) DEF CopyReturns, At, CallOutcome, HandlerMove
<1>5. CASE FileReturns(w)
  BY <1>5, SMTT(60) DEF FileReturns, At, CallOutcome, HandlerMove
<1>6. CASE CompletePublish(w)
  BY SMTT(40), <1>6 DEF CompletePublish, At, Committed, AfterDatabaseError, HandlerMove, HoldsSend
<1>7. CASE FailPublish(w)
  BY <1>7, SMTT(60) DEF FailPublish, At, Committed, AfterDatabaseError, HandlerMove, HoldsSend
<1>8. CASE RetryPublish(w)
  <2>1. worker[w].pc = "requeue"
    BY Zenon, <1>8 DEF RetryPublish, At
  <2>2. CASE ~(HoldsLease(w) /\ HoldsSend(w))
    BY <1>8, <2>1, <2>2, SMTT(60) DEF RetryPublish, HandlerMove
  <2>3. CASE HoldsLease(w) /\ HoldsSend(w)
    <3>1. \/ post'.state = "failed" /\ job' = job
          \/ post'.state = "queued" /\ job'.revision = NextRevision
      BY SMTT(40), <1>8, <2>3 DEF RetryPublish, TypeOK, JobRow
    <3>2. /\ post'.revision = NextRevision
          /\ post'.generation = post.generation
          /\ post'.caption = post.caption
      BY SMTT(40), <1>8, <2>3 DEF RetryPublish
    <3>3. worker' \in {Goto(w, "fail"), Goto(w, "retry")}
      BY <1>8, <2>1, <2>3, Zenon DEF RetryPublish, Committed, AfterDatabaseError
    <3>4. post' # post
      BY <2>3, <3>1, Zenon DEF HoldsSend
    <3>5. QED
      BY SMTT(40), <2>1, <2>3, <3>1, <3>2, <3>3, <3>4 DEF HandlerMove
  <2>4. QED
    BY Zenon, <2>2, <2>3
<1>9. CASE DatabaseError(w)
  <2> DEFINE next == AfterDatabaseError(worker[w].pc)
  <2>1. worker[w].pc \in HandlerSteps \ {"copying", "filing"}
    BY <1>9, ZenonT(60) DEF DatabaseError
  <2>2. /\ next \in {"retry", "requeue", "ambiguous", "fail"}
        /\ next = "requeue" => worker[w].pc = "lookup"
        /\ next = "ambiguous" => worker[w].pc = "complete"
    BY <2>1, SMTT(60) DEF AfterDatabaseError
  <2> HIDE DEF next
  <2>3. worker' = Goto(w, next) /\ post' = post /\ job' = job
    BY <1>9, ZenonT(60) DEF DatabaseError, next
  <2>4. /\ worker'[w].pc = next
        /\ worker'[w].revision = worker[w].revision
        /\ worker'[w].generation = worker[w].generation
        /\ worker'[w].caption = worker[w].caption
    BY <2>2, <2>3, SMTT(60)
  <2>5. QED
    BY <2>1, <2>2, <2>3, <2>4, SMTT(60) DEF HandlerMove
<1>10. CASE Shutdown(w)
  BY <1>10, SMTT(60) DEF Shutdown, HandlerMove
<1>11. QED
  BY <1>1, <1>2, <1>3, <1>4, <1>5, <1>6, <1>7, <1>8, <1>9, <1>10, ZenonT(60) DEF InHandler

(* An operator command acts on a post nobody is sending; it leaves a       *)
(* queued post with a queued job at its revision and cancels both rows of  *)
(* a post together.                                                        *)
LEMMA OperatorFields ==
    ASSUME TypeOK, JobInv, OperatorStep
    PROVE  /\ UNCHANGED <<claims, worker, requests, messages>>
           /\ post.state \in {"none", "draft", "queued", "failed"}
           /\ post'.state \in {"draft", "queued", "failed", "cancelled"}
           /\ job.state \in {"absent", "queued", "failed"}
           /\ job'.state \in {"absent", "queued", "failed", "cancelled"}
           /\ job'.lease \in {0, job.lease}
           /\ post'.state = "draft" => post.state \in {"none", "draft"} /\ job' = job
           /\ post'.state = "queued" => job'.state = "queued" /\ job'.revision = post'.revision
           /\ post'.state = "cancelled" => post'.caption = post.caption
           /\ post'.state = "cancelled" => \/ post.state = "draft" /\ job' = job
                                           \/ job'.state \in {"absent", "cancelled"}
           /\ job'.state = "queued" => \/ job'.attempt = 0
                                       \/ job.state = "queued" /\ job'.attempt = job.attempt
<1> USE DEF JobStates, PostStates, telegram, dependencies
<1>1. CASE CreateDraft \/ InsertIntendedPost
  <2>1. /\ [NoPost EXCEPT !.state = "draft"].state = "draft"
        /\ [NoPost EXCEPT !.state = "draft", !.evidence = TRUE].state = "draft"
        /\ [NoPost EXCEPT !.state = "queued"].state = "queued"
        /\ [NoPost EXCEPT !.state = "queued"].revision = 0
    BY Zenon DEF NoPost
  <2>2. /\ NewPublishJob("queued", 0).state = "queued"
        /\ NewPublishJob("queued", 0).revision = 0
        /\ NewPublishJob("queued", 0).attempt = 0
        /\ NewPublishJob("queued", 0).lease = 0
    BY Zenon DEF NewPublishJob, NoJob
  <2>3. QED
    BY <1>1, <2>1, <2>2, ZenonT(60) DEF CreateDraft, InsertIntendedPost, JobInv
<1>2. CASE UpdatePost
  <2>1. /\ post'.state = post.state
        /\ post'.revision = NextRevision
    BY <1>2, PostType, PostFields, CountersType DEF UpdatePost, QueueMutable, PostRow
  <2>2. CASE post.state = "draft"
    BY Zenon, <1>2, <2>1, <2>2 DEF UpdatePost, JobInv
  <2>3. CASE post.state = "queued"
    BY <1>2, <2>1, <2>3, JobFields, CountersType DEF UpdatePost, Requeueable
  <2>4. CASE post.state = "failed" /\ job.state = "absent"
    <3>1. job' = NewPublishJob("failed", NextRevision) /\ UNCHANGED <<claims, worker, telegram>>
      BY Zenon, <1>2, <2>4 DEF UpdatePost, FailedJobAt
    <3>2. job'.state = "failed" /\ job'.lease = 0
      BY <3>1, JobFields, CountersType, ZenonT(60)
    <3>3. QED
      BY Zenon, <2>1, <2>4, <3>1, <3>2
  <2>5. CASE post.state = "failed" /\ job.state = "failed"
    BY Zenon, <1>2, <2>1, <2>5 DEF UpdatePost, FailedJobAt, TypeOK, JobRow
  <2>6. QED
    BY Zenon, <1>2, <2>2, <2>3, <2>4, <2>5 DEF UpdatePost, QueueMutable
<1>3. CASE SchedulePost
  BY SMTT(40), <1>3, JobFields, PostFields, CountersType DEF SchedulePost, QueueMutable, Requeueable
<1>4. CASE DecidePost
  <2>1. /\ post'.state \in {"cancelled", "queued"}
        /\ post'.revision = NextRevision
        /\ post'.state = "queued" => Requeueable /\ job' = Requeued(NextRevision)
        /\ post'.state = "cancelled" => job' = job
        /\ post'.caption = post.caption
    BY <1>4, PostType, PostFields, CountersType DEF DecidePost, PostRow
  <2>2. QED
    BY <1>4, <2>1, JobFields, CountersType DEF DecidePost, Requeueable, JobInv
<1>5. CASE CancelPost
  <2>1. /\ post'.state = "cancelled" /\ post.state \in {"draft", "queued", "failed"}
        /\ post'.caption = post.caption
    BY Zenon, <1>5, PostFields DEF CancelPost, QueueMutable
  <2>2. \/ job' = job /\ (post.state = "draft" \/ job.state = "absent")
        \/ /\ job.state \in {"queued", "failed"}
           /\ job'.state = "cancelled"
           /\ job'.lease = 0
    BY <1>5, ZenonT(60) DEF CancelPost, CancelledJob, Requeueable, TypeOK, JobRow
  <2>3. UNCHANGED <<claims, worker, telegram>>
    BY Zenon, <1>5 DEF CancelPost
  <2>4. QED
    BY Zenon, <2>1, <2>2, <2>3 DEF JobInv
<1>6. QED
  BY Zenon, <1>1, <1>2, <1>3, <1>4, <1>5 DEF OperatorStep

(* A settlement gives the lease up; a terminal one resolves the post that  *)
(* the job still owned.                                                    *)
LEMMA SettleFields ==
    ASSUME TypeOK, JobInv, job.state = "running", NEW terminal \in BOOLEAN, Settle(terminal)
    PROVE  /\ job'.state = IF terminal THEN "failed" ELSE "queued"
           /\ job'.revision = job.revision
           /\ post'.caption = post.caption
           /\ post'.generation = post.generation
           /\ ~terminal \/ post.state \notin {"queued", "sending"} => post' = post
           /\ terminal /\ post.state = "queued" => post'.state = "failed"
           /\ terminal /\ post.state = "sending" => post'.state = "unknown"
<1>1. job' = JobReleased(IF terminal THEN "failed" ELSE "queued")
  BY Zenon DEF Settle
<1>2. post' = IF terminal THEN PostAfterLastAttempt ELSE post
  BY Zenon DEF Settle
<1>3. /\ job'.state = IF terminal THEN "failed" ELSE "queued"
      /\ job'.revision = job.revision
  BY Zenon, <1>1, JobFields DEF JobStates
<1>4. CASE ~terminal
  BY Zenon, <1>2, <1>3, <1>4
<1>5. CASE terminal /\ post.state = "queued"
  <2>1. job.revision = post.revision
    BY Zenon, <1>5 DEF JobInv
  <2>2. post' = PostIn("failed")
    BY Zenon, <1>2, <1>5, <2>1 DEF PostAfterLastAttempt
  <2>3. QED
    BY Zenon, <1>3, <1>5, <2>2, PostFields DEF PostStates
<1>6. CASE terminal /\ post.state = "sending"
  <2>1. post' = PostIn("unknown")
    BY Zenon, <1>2, <1>6 DEF PostAfterLastAttempt
  <2>2. QED
    BY Zenon, <1>3, <1>6, <2>1, PostFields DEF PostStates
<1>7. CASE terminal /\ post.state \notin {"queued", "sending"}
  BY Zenon, <1>2, <1>3, <1>7 DEF PostAfterLastAttempt
<1>8. QED
  BY Zenon, <1>4, <1>5, <1>6, <1>7

(* Every way a job is released leaves it unleased, and moves the post only *)
(* from queued to failed or from sending to unknown.                       *)
LEMMA ReleaseFields ==
    ASSUME TypeOK, JobInv, NEW w \in Workers,
           SettleLease(w) \/ CompleteLease(w) \/ RecoverStaleLease
    PROVE  \/ UNCHANGED <<post, job>>
           \/ /\ job'.state # "running"
              /\ post'.caption = post.caption
              /\ post'.generation = post.generation
              /\ \/ post' = post
                 \/ post.state = "queued" /\ post'.state = "failed"
                 \/ post.state = "sending" /\ post'.state = "unknown"
<1>1. ASSUME NEW terminal \in BOOLEAN, Settle(terminal), job.state = "running"
      PROVE  /\ job'.state # "running"
             /\ post'.caption = post.caption
             /\ post'.generation = post.generation
             /\ \/ post' = post
                \/ post.state = "queued" /\ post'.state = "failed"
                \/ post.state = "sending" /\ post'.state = "unknown"
  BY Zenon, <1>1, SettleFields
<1>2. CASE SettleLease(w)
  BY <1>1, <1>2, ZenonT(60) DEF SettleLease, HoldsLease, At
<1>3. CASE CompleteLease(w)
  BY <1>3, JobFields DEF CompleteLease, JobStates
<1>4. CASE RecoverStaleLease
  <2>1. (job.attempt >= MaxAttempts) \in BOOLEAN
    OBVIOUS
  <2>2. Settle(job.attempt >= MaxAttempts) /\ job.state = "running"
    BY Zenon, <1>4 DEF RecoverStaleLease
  <2>3. QED
    BY <1>1, <2>1, <2>2, ZenonT(60)
<1>5. QED
  BY Zenon, <1>2, <1>3, <1>4

(* At most one worker holds the lease. *)
LEMMA OneHolder ==
    ASSUME LeaseInv, NEW v \in Workers, NEW w \in Workers, HoldsLease(v), HoldsLease(w)
    PROVE  v = w
BY ZenonT(60) DEF LeaseInv, HoldsLease

-----------------------------------------------------------------------------
(* Each part of the invariant survives every step *)

(* Leases stay unique and in the past of the token counter, and a queued   *)
(* job keeps an attempt to spend.                                          *)
LEMMA LeaseStep ==
    ASSUME PublicationInv, [Next]_vars
    PROVE  LeaseInv'
<1> USE AttemptsAssumption
<1>t. TypeOK /\ LeaseInv /\ JobInv
  BY Zenon DEF PublicationInv
<1>t2. TypeOK'
  BY Zenon, <1>t, TypeStep
<1>n. /\ claims \in Nat
      /\ job.lease \in Nat
      /\ job.attempt \in Nat
      /\ \A w \in Workers : worker[w].lease \in Nat
  BY Zenon, <1>t DEF TypeOK, JobRow, Worker
<1>1. CASE OperatorStep
  BY <1>1, <1>t, <1>n, OperatorFields DEF LeaseInv
<1>2. ASSUME NEW w \in Workers, ClaimNext(w) PROVE LeaseInv'
  <2>1. /\ job'.state = "running"
        /\ job'.lease = FreshToken
        /\ job'.attempt = NextAttempt
    BY Zenon, <1>2, <1>t DEF ClaimNext, TypeOK, JobRow
  <2>2. /\ worker'[w].lease = FreshToken
        /\ \A v \in Workers \ {w} : worker'[v] = worker[v]
    BY Zenon, <1>2, <1>t DEF ClaimNext, TypeOK, Idle
  <2>3. claims' = claims + 1 /\ FreshToken = claims + 1 /\ NextAttempt <= MaxAttempts
    BY <1>2, <1>t, <1>n DEF ClaimNext, LeaseInv, FreshToken, NextAttempt
  <2>4. QED
    BY <1>t, <1>n, <2>1, <2>2, <2>3 DEF LeaseInv
<1>3. ASSUME NEW w \in Workers, InHandler(w) PROVE LeaseInv'
  BY <1>3, <1>t, <1>n, HandlerKeepsLease DEF LeaseInv, HandlerSteps, Results
<1>4. ASSUME NEW w \in Workers, Crash(w) \/ CompleteLease(w) \/ SettleLease(w) PROVE LeaseInv'
  <2>1. /\ worker'[w].pc = "idle"
        /\ worker'[w].lease = 0
        /\ \A v \in Workers \ {w} : worker'[v] = worker[v]
        /\ claims' = claims
    BY Zenon, <1>4, <1>t, IdleFields DEF Crash, CompleteLease, SettleLease
  <2>2. \/ job' = job
        \/ /\ job'.lease = 0
           /\ job'.state \in {"queued", "failed", "succeeded"}
           /\ job'.state = "queued" => job'.attempt < MaxAttempts
    BY <1>4, <1>t, <1>n, JobFields, SMTT(60) DEF Crash, CompleteLease, SettleLease, Settle,
       JobStates
  <2>3. QED
    BY <1>t, <1>n, <2>1, <2>2 DEF LeaseInv
<1>5. CASE RecoverStaleLease
  BY <1>5, <1>t, <1>n, JobFields DEF RecoverStaleLease, Settle, JobStates, LeaseInv
<1>6. CASE LeaseExpires
  BY <1>6, <1>t, <1>n, Zenon DEF LeaseExpires, LeaseInv, TypeOK, JobRow
<1>7. CASE PruneJob
  BY <1>7, <1>t, <1>n, JobFields DEF PruneJob, LeaseInv
<1>8. CASE UNCHANGED <<job, claims, worker>>
  BY <1>8, <1>t, Zenon DEF LeaseInv
<1>9. QED
  BY Zenon, <1>1, <1>2, <1>3, <1>4, <1>5, <1>6, <1>7, <1>8 DEF Next, HandlerStep, InHandler, vars,
     Deliver, Refuse, ChannelToggled, MediaToggled

(* A post that waits for a worker, or is in a worker's hands, keeps a job. *)
LEMMA JobStep ==
    ASSUME PublicationInv, [Next]_vars
    PROVE  JobInv'
<1>t. TypeOK /\ LeaseInv /\ JobInv /\ HandlerInv
  BY Zenon DEF PublicationInv
<1>1. CASE OperatorStep
  BY Zenon, <1>1, <1>t, OperatorFields DEF JobInv
<1>2. ASSUME NEW w \in Workers, ClaimNext(w) PROVE JobInv'
  <2>1. job'.state = "running" /\ job'.revision = job.revision
    BY Zenon, <1>2, <1>t DEF ClaimNext, TypeOK, JobRow
  <2>2. post' = post /\ job.state = "queued"
    BY Zenon, <1>2 DEF ClaimNext
  <2>3. QED
    BY Zenon, <1>t, <2>1, <2>2 DEF JobInv
<1>3. ASSUME NEW w \in Workers, InHandler(w) PROVE JobInv'
  <2>1. CASE post' = post
    BY <1>3, <1>t, <2>1, HandlerFields, Zenon DEF JobInv
  <2>2. CASE post' # post
    <3>1. /\ HandlerMove(w, worker[w].pc, worker'[w].pc)
          /\ job'.state = "running"
      BY Zenon, <1>3, <1>t, <2>2, HandlerFields, HandlerKeepsLease DEF HoldsLease
    <3>2. QED
      BY <2>2, <3>1, Zenon DEF HandlerMove, JobInv
  <2>3. QED
    BY <2>1, <2>2, Zenon
<1>4. ASSUME NEW w \in Workers, CompleteLease(w) PROVE JobInv'
  <2>1. CASE HoldsLease(w)
    <3>1. job'.state = "succeeded" /\ post' = post
      BY Zenon, <1>4, <1>t, <2>1, JobFields DEF CompleteLease, JobStates
    <3>2. job.state = "running" /\ post.state \notin {"queued", "sending"}
      BY Zenon, <1>4, <1>t, <2>1 DEF CompleteLease, HandlerInv, HoldsLease, At
    <3>3. QED
      BY Zenon, <1>t, <3>1, <3>2 DEF JobInv
  <2>2. CASE ~HoldsLease(w)
    BY Zenon, <1>4, <1>t, <2>2 DEF CompleteLease, JobInv
  <2>3. QED
    BY Zenon, <2>1, <2>2
<1>5. ASSUME NEW terminal \in BOOLEAN, Settle(terminal), job.state = "running" PROVE JobInv'
  BY Zenon, <1>5, <1>t, SettleFields DEF JobInv
<1>6. ASSUME NEW w \in Workers, SettleLease(w) PROVE JobInv'
  <2>1. CASE HoldsLease(w)
    BY <1>5, <1>6, <2>1, ZenonT(60) DEF SettleLease, HoldsLease, At
  <2>2. CASE ~HoldsLease(w)
    BY Zenon, <1>6, <1>t, <2>2 DEF SettleLease, JobInv
  <2>3. QED
    BY Zenon, <2>1, <2>2
<1>7. CASE RecoverStaleLease
  <2>1. (job.attempt >= MaxAttempts) \in BOOLEAN
    OBVIOUS
  <2>2. Settle(job.attempt >= MaxAttempts) /\ job.state = "running"
    BY Zenon, <1>7 DEF RecoverStaleLease
  <2>3. QED
    BY <1>5, <2>1, <2>2, ZenonT(60)
<1>8. CASE LeaseExpires
  BY Zenon, <1>8, <1>t DEF LeaseExpires, JobInv, TypeOK, JobRow
<1>9. CASE PruneJob
  BY Zenon, <1>9, JobFields, <1>t DEF PruneJob, JobInv
<1>10. CASE UNCHANGED <<post, job>>
  BY Zenon, <1>10, <1>t DEF JobInv
<1>11. QED
  BY Zenon, <1>1, <1>2, <1>3, <1>4, <1>6, <1>7, <1>8, <1>9, <1>10 DEF Next, HandlerStep, InHandler,
     vars, Crash, Deliver, Refuse, ChannelToggled, MediaToggled

(* The handler that holds the lease knows which revision it may claim, and *)
(* reports success only for a post that needs no worker any more.          *)
LEMMA HandlerStepInv ==
    ASSUME PublicationInv, [Next]_vars
    PROVE  HandlerInv'
<1>t. TypeOK /\ LeaseInv /\ JobInv /\ HandlerInv /\ SendInv
  BY Zenon DEF PublicationInv
<1>1. CASE OperatorStep
  BY Zenon, <1>1, <1>t, OperatorFields DEF HandlerInv, HoldsLease
<1>2. ASSUME NEW w \in Workers, ClaimNext(w) PROVE HandlerInv'
  <2>1. job'.lease = FreshToken /\ job'.revision = job.revision
    BY Zenon, <1>2, <1>t DEF ClaimNext, TypeOK, JobRow
  <2>2. /\ worker'[w].pc = "claim"
        /\ worker'[w].revision = job.revision
        /\ \A v \in Workers \ {w} : worker'[v] = worker[v]
    BY Zenon, <1>2, <1>t DEF ClaimNext, TypeOK, Idle
  <2>3. \A v \in Workers \ {w} : worker[v].lease # FreshToken
    BY <1>t DEF LeaseInv, FreshToken, TypeOK, Worker
  <2>4. QED
    BY Zenon, <2>1, <2>2, <2>3 DEF HandlerInv, HoldsLease
<1>3. ASSUME NEW w \in Workers, InHandler(w) PROVE HandlerInv'
  <2>1. \A v \in Workers : HoldsLease(v)' <=> HoldsLease(v)
    BY Zenon, <1>3, <1>t, HandlerKeepsLease DEF HoldsLease
  <2>2. ASSUME NEW v \in Workers \ {w}, HoldsLease(v)
        PROVE  /\ worker'[v].pc = "claim" => worker'[v].revision = job'.revision
               /\ worker'[v].pc = "reconcile" => post'.state # "queued"
               /\ worker'[v].pc = "ok" => post'.state \notin {"queued", "sending"}
    <3>1. post' = post /\ job' = job
      BY Zenon, <1>3, <1>t, <2>2, OneHolder, HandlerFields
    <3>2. worker'[v] = worker[v]
      BY <1>3, <1>t, HandlerKeepsLease, Zenon
    <3>3. QED
      BY Zenon, <1>t, <2>2, <3>1, <3>2 DEF HandlerInv
  <2>3. ASSUME HoldsLease(w)
        PROVE  /\ worker'[w].pc = "claim" => worker'[w].revision = job'.revision
               /\ worker'[w].pc = "reconcile" => post'.state # "queued"
               /\ worker'[w].pc = "ok" => post'.state \notin {"queued", "sending"}
    <3>1. HandlerMove(w, worker[w].pc, worker'[w].pc)
      BY Zenon, <1>3, <1>t, HandlerFields
    <3>2. /\ worker[w].pc = "claim" => worker[w].revision = job.revision
          /\ worker[w].pc = "reconcile" => post.state # "queued"
          /\ post.state = "queued" => job.revision = post.revision
      BY Zenon, <1>t, <2>3 DEF HandlerInv, JobInv
    <3>3. /\ InSend(w) /\ worker[w].pc # "ambiguous" => HoldsSend(w)
          /\ InSend(w) /\ ~HoldsSend(w) => post.state \in {"unknown", "published"}
      BY Zenon, <1>t, <2>3 DEF SendInv, HoldsSend
    <3>4. worker[w].pc = "claim" /\ ~Claimable(w) =>
            /\ ClaimRefusal(w) \in {"ok", "reconcile", "retry"}
            /\ ClaimRefusal(w) = "reconcile" => post.state = "sending"
            /\ ClaimRefusal(w) = "ok" => post.state \notin {"queued", "sending"}
      BY Zenon, <2>3, <3>2 DEF ClaimRefusal
    <3>5. QED
      BY <2>3, <3>1, <3>2, <3>3, <3>4, SMTT(60) DEF HandlerMove, InSend, HandlerSteps
  <2>4. QED
    BY <2>1, <2>2, <2>3, Zenon DEF HandlerInv
<1>4. ASSUME NEW w \in Workers, Crash(w) \/ SettleLease(w) \/ CompleteLease(w)
      PROVE  HandlerInv'
  <2>1. /\ worker'[w].pc = "idle"
        /\ \A v \in Workers \ {w} : worker'[v] = worker[v]
    BY Zenon, <1>4, <1>t, IdleFields DEF Crash, SettleLease, CompleteLease
  <2>2. UNCHANGED <<post, job>> \/ job'.state # "running"
    BY Zenon, <1>4, <1>t, ReleaseFields DEF Crash
  <2>3. QED
    BY <1>t, <2>1, <2>2 DEF HandlerInv, HoldsLease
<1>5. CASE RecoverStaleLease
  <2>1. PICK w \in Workers : TRUE
    BY Zenon, WorkersAssumption
  <2>2. UNCHANGED <<post, job>> \/ job'.state # "running"
    BY Zenon, <1>5, <1>t, ReleaseFields
  <2>3. QED
    BY Zenon, <1>5, <1>t, <2>2 DEF RecoverStaleLease, HandlerInv, HoldsLease
<1>6. CASE LeaseExpires
  BY <1>6, <1>t, Zenon DEF LeaseExpires, HandlerInv, HoldsLease, TypeOK, JobRow
<1>7. CASE PruneJob
  BY Zenon, <1>7, JobFields, <1>t DEF PruneJob, HandlerInv, HoldsLease
<1>8. CASE UNCHANGED <<post, job, worker>>
  BY <1>8, <1>t, Zenon DEF HandlerInv, HoldsLease
<1>9. QED
  BY Zenon, <1>1, <1>2, <1>3, <1>4, <1>5, <1>6, <1>7, <1>8 DEF Next, HandlerStep, InHandler,
     vars, Deliver, Refuse, ChannelToggled, MediaToggled

(* One worker is in a send, and it is the send the post row records.       *)
LEMMA SendStep ==
    ASSUME PublicationInv, [Next]_vars
    PROVE  SendInv'
<1>t. TypeOK /\ LeaseInv /\ JobInv /\ HandlerInv /\ SendInv
  BY Zenon DEF PublicationInv
<1>1. CASE OperatorStep
  BY <1>1, <1>t, OperatorFields, Zenon DEF SendInv, InSend
<1>2. ASSUME NEW w \in Workers, ClaimNext(w) PROVE SendInv'
  <2>1. job'.lease = FreshToken
    BY Zenon, <1>2, <1>t DEF ClaimNext, TypeOK, JobRow
  <2>2. /\ worker'[w].pc = "claim"
        /\ \A v \in Workers \ {w} : worker'[v] = worker[v]
        /\ post' = post
    BY Zenon, <1>2, <1>t DEF ClaimNext, TypeOK, Idle
  <2>3. \A v \in Workers \ {w} : worker[v].lease # FreshToken
    BY <1>t DEF LeaseInv, FreshToken, TypeOK, Worker
  <2>4. QED
    BY <1>t, <2>1, <2>2, <2>3 DEF SendInv, InSend, HoldsLease
<1>3. ASSUME NEW w \in Workers, InHandler(w) PROVE SendInv'
  <2>1. \A v \in Workers : HoldsLease(v)' <=> HoldsLease(v)
    BY Zenon, <1>3, <1>t, HandlerKeepsLease DEF HoldsLease
  <2>2. /\ HandlerMove(w, worker[w].pc, worker'[w].pc)
        /\ post'.caption = post.caption
        /\ post'.state # "sending" => post'.generation = post.generation
        /\ post' # post => HoldsLease(w)
        /\ worker[w].pc # "claim" => worker'[w].generation = worker[w].generation
        /\ worker'[w].caption = IF worker[w].pc = "claim" /\ worker'[w].pc = "lookup"
                                THEN post.caption ELSE worker[w].caption
    BY Zenon, <1>3, <1>t, HandlerFields
  <2>3. \A v \in Workers \ {w} : worker'[v] = worker[v]
    BY <1>3, <1>t, HandlerKeepsLease, Zenon
  <2>4. CASE Claimable(w) /\ worker[w].pc = "claim"
    <3>1. \A v \in Workers : ~InSend(v)
      BY <1>t, <2>4, Zenon DEF Claimable, SendInv
    <3>2. /\ worker'[w].pc \in {"lookup", "retry", "fail"}
          /\ worker'[w].pc = "lookup" => /\ post'.state = "sending"
                                        /\ worker'[w].generation = post'.generation
      BY Zenon, <2>2, <2>4 DEF HandlerMove, HandlerSteps
    <3>3. QED
      BY <2>2, <2>3, <2>4, <3>1, <3>2 DEF SendInv, InSend
  <2>5. CASE ~Claimable(w) /\ worker[w].pc = "claim"
    <3>1. post' = post /\ worker'[w].pc \in {"ok", "reconcile", "retry", "fail"}
      BY <2>2, <2>5, Zenon DEF HandlerMove, HandlerSteps, ClaimRefusal
    <3>2. QED
      BY <1>t, <2>1, <2>3, <3>1, SMTT(60) DEF SendInv, InSend
  <2>6. CASE worker[w].pc = "reconcile"
    <3>1. /\ worker'[w].pc \in {"ok", "retry", "fail"}
          /\ \/ post' = post
             \/ post.state = "sending" /\ post'.state = "unknown" /\ HoldsLease(w)
      BY Zenon, <2>2, <2>6 DEF HandlerMove, HandlerSteps
    <3>2. \A v \in Workers \ {w} : HoldsLease(w) => ~HoldsLease(v)
      BY Zenon, <1>t, OneHolder
    <3>3. QED
      BY <1>t, <2>1, <2>2, <2>3, <3>1, <3>2, SMTT(60) DEF SendInv, InSend
  <2>7. CASE InSend(w)
    <3>1. \A v \in Workers \ {w} : ~InSend(v)
      BY Zenon, <1>t, <2>7 DEF SendInv
    <3>2. CASE ~InSend(w)'
      BY <2>3, <3>1, <3>2, Zenon DEF SendInv, InSend
    <3>3. CASE InSend(w)'
      <4>1. \/ post' = post /\ worker[w].pc # "ambiguous"
            \/ post'.state = "published" /\ worker'[w].pc = "ambiguous"
        BY Zenon, <2>2, <2>7, <3>3 DEF HandlerMove, InSend
      <4>2. /\ post.generation = worker[w].generation
            /\ post.caption = worker[w].caption
            /\ post.state \in {"sending", "unknown", "published"}
            /\ HoldsLease(w) /\ worker[w].pc # "ambiguous" => post.state = "sending"
            /\ worker[w].pc # "claim"
        BY Zenon, <1>t, <2>7 DEF SendInv, InSend
      <4>3. QED
        BY <2>1, <2>2, <2>3, <3>1, <4>1, <4>2, SMTT(60) DEF SendInv, InSend
    <3>4. QED
      BY <3>2, <3>3, Zenon
  <2>8. QED
    BY <1>3, <1>t, <2>4, <2>5, <2>6, <2>7, HandlerKeepsLease, Zenon DEF InSend, HandlerSteps
<1>4. ASSUME NEW w \in Workers, Crash(w) \/ SettleLease(w) \/ CompleteLease(w)
      PROVE  SendInv'
  <2>1. /\ worker'[w].pc = "idle"
        /\ \A v \in Workers \ {w} : worker'[v] = worker[v]
    BY Zenon, <1>4, <1>t, IdleFields DEF Crash, SettleLease, CompleteLease
  <2>2. \/ UNCHANGED <<post, job>>
        \/ /\ job'.state # "running"
           /\ post'.caption = post.caption
           /\ post'.generation = post.generation
           /\ \/ post' = post
              \/ post.state = "queued" /\ post'.state = "failed"
              \/ post.state = "sending" /\ post'.state = "unknown"
    BY Zenon, <1>4, <1>t, ReleaseFields DEF Crash
  <2>3. QED
    BY <1>t, <2>1, <2>2 DEF SendInv, InSend, HoldsLease
<1>5. CASE RecoverStaleLease
  <2>1. PICK w \in Workers : TRUE
    BY Zenon, WorkersAssumption
  <2>2. \/ UNCHANGED <<post, job>>
        \/ /\ job'.state # "running"
           /\ post'.caption = post.caption
           /\ post'.generation = post.generation
           /\ \/ post' = post
              \/ post.state = "queued" /\ post'.state = "failed"
              \/ post.state = "sending" /\ post'.state = "unknown"
    BY Zenon, <1>5, <1>t, ReleaseFields
  <2>3. worker' = worker
    BY Zenon, <1>5 DEF RecoverStaleLease
  <2>4. QED
    BY <1>t, <2>2, <2>3 DEF SendInv, InSend, HoldsLease
<1>6. CASE LeaseExpires
  BY <1>6, <1>t, Zenon DEF LeaseExpires, SendInv, InSend, HoldsLease, TypeOK, JobRow
<1>7. CASE PruneJob
  BY <1>7, JobFields, <1>t, Zenon DEF PruneJob, SendInv, InSend, HoldsLease
<1>8. CASE UNCHANGED <<post, job, worker>>
  BY <1>8, <1>t, Zenon DEF SendInv, InSend, HoldsLease
<1>9. QED
  BY Zenon, <1>1, <1>2, <1>3, <1>4, <1>5, <1>6, <1>7, <1>8 DEF Next, HandlerStep, InHandler,
     vars, Deliver, Refuse, ChannelToggled, MediaToggled

(* What each step of the handler does to Telegram: a request is dispatched *)
(* only where no send of the post can have an effect, and the handler      *)
(* trusts an answer only as far as the answer goes.                        *)
LEMMA HandlerEffects ==
    ASSUME TypeOK, EffectInv, NEW w \in Workers, InHandler(w)
    PROVE  LET pc == worker[w].pc
               next == worker'[w].pc
           IN  /\ messages' = messages
               /\ \/ requests' = requests
                  \/ /\ Effects = {}
                     /\ requests' = {RequestOf(w, "copy")}
                     /\ pc = "lookup" /\ next = "copying"
                  \/ /\ Effects = {}
                     /\ requests' = {RequestOf(w, "file")}
                     /\ pc = "copying" /\ next = "filing"
               /\ pc = "claim" => next \notin {"copying", "filing", "complete", "reject", "requeue"}
               /\ next \in {"reject", "requeue"} => Effects = {}
               /\ next = "complete" => messages # {}
               /\ next = "copying" => Effects = {} /\ requests' = {RequestOf(w, "copy")}
               /\ next = "filing" => Effects = {} /\ requests' = {RequestOf(w, "file")}
<1>g. \A s \in Pcs : worker' = Goto(w, s) => worker'[w].pc = s
  BY GotoFields, Zenon
<1>1. CASE ClaimPublish(w)
  <2>1. worker[w].pc = "claim" /\ messages' = messages /\ requests' = requests
    BY Zenon, <1>1 DEF ClaimPublish, At, telegram
  <2>2. \/ worker' = EnterSend(w)
        \/ worker' \in {Goto(w, "retry"), Goto(w, "ok"), Goto(w, "reconcile")}
    BY <1>1, Zenon DEF ClaimPublish, ClaimRefusal
  <2>3. worker'[w].pc \in {"lookup", "retry", "ok", "reconcile"}
    BY Zenon, <2>2, <1>g, EnterSendFields DEF Pcs, HandlerSteps, Results
  <2>4. QED
    BY <2>1, <2>3, ZenonT(60)
<1>2. CASE ReconcileInterruptedPublish(w)
  <2>1. worker[w].pc = "reconcile" /\ messages' = messages /\ requests' = requests
    BY Zenon, <1>2 DEF ReconcileInterruptedPublish, At, telegram
  <2>2. worker' \in {Goto(w, "ok"), Goto(w, "retry")}
    BY Zenon, <1>2, <2>1 DEF ReconcileInterruptedPublish, Committed, AfterDatabaseError
  <2>3. worker'[w].pc \in {"ok", "retry"}
    BY <2>2, <1>g, Zenon DEF Pcs, HandlerSteps, Results
  <2>4. QED
    BY Zenon, <2>1, <2>3
<1>3. CASE LookupReceipt(w)
  <2>1. worker[w].pc = "lookup" /\ messages' = messages
    BY <1>3, Zenon DEF LookupReceipt, At
  <2>2. Effects = {} /\ requests = {}
    BY <2>1, Zenon DEF EffectInv, Effects
  <2>3. CASE requests' = requests \cup {RequestOf(w, "copy")} /\ worker' = Goto(w, "copying")
    <3>1. worker'[w].pc = "copying"
      BY Zenon, <2>3, <1>g DEF Pcs, HandlerSteps
    <3>2. requests' = {RequestOf(w, "copy")}
      BY <2>3, <2>2, Zenon
    <3>3. QED
      BY Zenon, <2>1, <2>2, <3>1, <3>2
  <2>4. CASE requests' = requests /\ worker' = Goto(w, "reject")
    <3>1. worker'[w].pc = "reject"
      BY <2>4, <1>g, Zenon DEF Pcs, HandlerSteps
    <3>2. QED
      BY <2>1, <2>2, <2>4, <3>1, Zenon
  <2>5. QED
    BY Zenon, <1>3, <2>3, <2>4 DEF LookupReceipt
<1>4. CASE CopyReturns(w)
  <2>1. worker[w].pc = "copying" /\ messages' = messages
    BY <1>4, ZenonT(60) DEF CopyReturns, At
  <2>2. Effects \subseteq {RequestOf(w, "copy")}
    BY <2>1, Zenon DEF EffectInv
  <2>3. CASE requests' = requests /\ CallOutcome(w, "copy")
    <3>1. CASE worker' = Goto(w, "complete") /\ Accepted(RequestOf(w, "copy"))
      <4>1. worker'[w].pc = "complete"
        BY Zenon, <3>1, <1>g DEF Pcs, HandlerSteps
      <4>2. messages # {}
        BY <3>1, Zenon DEF Accepted
      <4>3. QED
        BY <2>1, <2>3, <4>1, <4>2, ZenonT(60)
    <3>2. CASE worker' \in {Goto(w, "requeue"), Goto(w, "reject")} /\ Refused(RequestOf(w, "copy"))
      <4>1. worker'[w].pc \in {"requeue", "reject"}
        BY Zenon, <3>2, <1>g DEF Pcs, HandlerSteps
      <4>2. Effects = {}
        BY Zenon, <2>2, <3>2 DEF Refused, Effects
      <4>3. QED
        BY Zenon, <2>1, <2>3, <4>1, <4>2
    <3>3. CASE worker' = Goto(w, "ambiguous")
      <4>1. worker'[w].pc = "ambiguous"
        BY <3>3, <1>g, Zenon DEF Pcs, HandlerSteps
      <4>2. QED
        BY Zenon, <2>1, <2>3, <4>1
    <3>4. QED
      BY <2>3, <3>1, <3>2, <3>3, ZenonT(60) DEF CallOutcome
  <2>4. CASE /\ requests' = requests \cup {RequestOf(w, "file")}
             /\ worker' = Goto(w, "filing") /\ Refused(RequestOf(w, "copy"))
    <3>1. worker'[w].pc = "filing"
      BY Zenon, <2>4, <1>g DEF Pcs, HandlerSteps
    <3>2. Effects = {} /\ requests = {}
      BY Zenon, <2>2, <2>4 DEF Refused, Effects
    <3>3. requests' = {RequestOf(w, "file")}
      BY <2>4, <3>2, Zenon
    <3>4. QED
      BY Zenon, <2>1, <3>1, <3>2, <3>3
  <2>5. QED
    BY <1>4, <2>3, <2>4, ZenonT(60) DEF CopyReturns
<1>5. CASE FileReturns(w)
  <2>1. worker[w].pc = "filing" /\ messages' = messages /\ requests' = requests
    BY <1>5, Zenon DEF FileReturns, At, telegram
  <2>2. Effects \subseteq {RequestOf(w, "file")}
    BY <2>1, Zenon DEF EffectInv
  <2>3. CASE worker' = Goto(w, "complete") /\ Accepted(RequestOf(w, "file"))
    <3>1. worker'[w].pc = "complete"
      BY Zenon, <2>3, <1>g DEF Pcs, HandlerSteps
    <3>2. messages # {}
      BY <2>3, Zenon DEF Accepted
    <3>3. QED
      BY Zenon, <2>1, <3>1, <3>2
  <2>4. CASE worker' \in {Goto(w, "requeue"), Goto(w, "reject")} /\ Refused(RequestOf(w, "file"))
    <3>1. worker'[w].pc \in {"requeue", "reject"}
      BY Zenon, <2>4, <1>g DEF Pcs, HandlerSteps
    <3>2. Effects = {}
      BY Zenon, <2>2, <2>4 DEF Refused, Effects
    <3>3. QED
      BY Zenon, <2>1, <3>1, <3>2
  <2>5. CASE worker' = Goto(w, "ambiguous")
    <3>1. worker'[w].pc = "ambiguous"
      BY Zenon, <2>5, <1>g DEF Pcs, HandlerSteps
    <3>2. QED
      BY Zenon, <2>1, <3>1
  <2>6. QED
    BY <1>5, <2>3, <2>4, <2>5, ZenonT(60) DEF FileReturns, CallOutcome
<1>6. CASE CompletePublish(w)
  <2>1. worker[w].pc = "complete" /\ messages' = messages /\ requests' = requests
    BY Zenon, <1>6 DEF CompletePublish, At, telegram
  <2>2. worker' \in {Goto(w, "ok"), Goto(w, "ambiguous")}
    BY Zenon, <1>6, <2>1 DEF CompletePublish, Committed, AfterDatabaseError
  <2>3. worker'[w].pc \in {"ok", "ambiguous"}
    BY <2>2, <1>g, Zenon DEF Pcs, HandlerSteps, Results
  <2>4. QED
    BY Zenon, <2>1, <2>3
<1>7. CASE FailPublish(w)
  <2>1. worker[w].pc \in {"reject", "ambiguous"} /\ messages' = messages /\ requests' = requests
    BY Zenon, <1>7 DEF FailPublish, telegram
  <2>2. worker' \in {Goto(w, "ok"), Goto(w, "fail")}
    BY Zenon, <1>7, <2>1 DEF FailPublish, Committed, AfterDatabaseError
  <2>3. worker'[w].pc \in {"ok", "fail"}
    BY <2>2, <1>g, Zenon DEF Pcs, HandlerSteps, Results
  <2>4. QED
    BY Zenon, <2>1, <2>3
<1>8. CASE RetryPublish(w)
  <2>1. worker[w].pc = "requeue" /\ messages' = messages /\ requests' = requests
    BY Zenon, <1>8 DEF RetryPublish, At, telegram
  <2>2. worker' \in {Goto(w, "ok"), Goto(w, "fail"), Goto(w, "retry")}
    BY Zenon, <1>8, <2>1 DEF RetryPublish, Committed, AfterDatabaseError
  <2>3. worker'[w].pc \in {"ok", "fail", "retry"}
    BY <2>2, <1>g, Zenon DEF Pcs, HandlerSteps, Results
  <2>4. QED
    BY Zenon, <2>1, <2>3
<1>9. CASE DatabaseError(w)
  <2>1. messages' = messages /\ requests' = requests
    BY <1>9, Zenon DEF DatabaseError, telegram
  <2>2. worker[w].pc = "lookup" => Effects = {}
    BY Zenon DEF EffectInv
  <2>3. \/ worker[w].pc \in {"claim", "reconcile"} /\ worker' = Goto(w, "retry")
        \/ worker[w].pc = "lookup" /\ worker' = Goto(w, "requeue")
        \/ worker[w].pc = "complete" /\ worker' = Goto(w, "ambiguous")
        \/ worker[w].pc \in {"reject", "ambiguous", "requeue"} /\ worker' = Goto(w, "fail")
    BY Zenon, <1>9 DEF DatabaseError, AfterDatabaseError, HandlerSteps
  <2>4. \/ worker[w].pc = "lookup" /\ worker'[w].pc = "requeue"
        \/ worker'[w].pc \in {"retry", "ambiguous", "fail"}
    BY <2>3, <1>g, Zenon DEF Pcs, HandlerSteps, Results
  <2>5. QED
    BY <2>1, <2>2, <2>4, Zenon
<1>10. CASE Shutdown(w)
  <2>1. worker'[w].pc = "retry"
    BY Zenon, <1>10, <1>g DEF Shutdown, Pcs, Results
  <2>2. QED
    BY Zenon, <1>10, <2>1 DEF Shutdown, telegram
<1>11. QED
  BY <1>1, <1>2, <1>3, <1>4, <1>5, <1>6, <1>7, <1>8, <1>9, <1>10, ZenonT(60) DEF InHandler

(* The channel holds, and will ever hold, at most one message of the post. *)
LEMMA EffectStep ==
    ASSUME PublicationInv, [Next]_vars
    PROVE  EffectInv'
<1>t. TypeOK /\ LeaseInv /\ JobInv /\ SendInv /\ EffectInv
  BY Zenon DEF PublicationInv
<1>1. CASE OperatorStep
  <2>1. /\ UNCHANGED <<worker, requests, messages>>
        /\ post.state \in {"none", "draft", "queued", "failed"}
        /\ post'.state \in {"draft", "queued", "failed", "cancelled"}
    BY Zenon, <1>1, <1>t, OperatorFields
  <2>2. Effects = {} /\ Effects' = {}
    BY <1>t, <2>1, Zenon DEF EffectInv, Effects
  <2>3. QED
    BY Zenon, <1>t, <2>1, <2>2 DEF EffectInv
<1>2. ASSUME NEW w \in Workers, ClaimNext(w) PROVE EffectInv'
  <2>1. /\ worker'[w].pc = "claim"
        /\ \A v \in Workers \ {w} : worker'[v] = worker[v]
        /\ UNCHANGED <<post, requests, messages>>
    BY Zenon, <1>2, <1>t DEF ClaimNext, TypeOK, Idle, telegram
  <2>2. QED
    BY <1>t, <2>1 DEF EffectInv, Effects, RequestOf
<1>3. ASSUME NEW w \in Workers, InHandler(w) PROVE EffectInv'
  <2>1. /\ HandlerMove(w, worker[w].pc, worker'[w].pc)
        /\ post'.caption = post.caption
        /\ worker[w].pc # "claim" => worker'[w].generation = worker[w].generation
        /\ worker'[w].caption = IF worker[w].pc = "claim" /\ worker'[w].pc = "lookup"
                                THEN post.caption ELSE worker[w].caption
    BY <1>3, <1>t, HandlerFields, Zenon
  <2>2. \A v \in Workers \ {w} : worker'[v] = worker[v]
    BY Zenon, <1>3, <1>t, HandlerKeepsLease
  <2>3. /\ messages' = messages
        /\ \/ requests' = requests
           \/ /\ Effects = {} /\ requests' = {RequestOf(w, "copy")}
              /\ worker[w].pc = "lookup" /\ worker'[w].pc = "copying"
           \/ /\ Effects = {} /\ requests' = {RequestOf(w, "file")}
              /\ worker[w].pc = "copying" /\ worker'[w].pc = "filing"
        /\ worker[w].pc = "claim" =>
             worker'[w].pc \notin {"copying", "filing", "complete", "reject", "requeue"}
        /\ worker'[w].pc \in {"reject", "requeue"} => Effects = {}
        /\ worker'[w].pc = "complete" => messages # {}
        /\ worker'[w].pc = "copying" => Effects = {} /\ requests' = {RequestOf(w, "copy")}
        /\ worker'[w].pc = "filing" => Effects = {} /\ requests' = {RequestOf(w, "file")}
    BY <1>3, <1>t, HandlerEffects, Zenon
  <2>4. CASE requests' # requests
    <3>1. /\ worker[w].pc \in {"lookup", "copying"}
          /\ worker'[w].pc \in {"copying", "filing"}
          /\ Effects = {}
          /\ requests' \in {{RequestOf(w, "copy")}, {RequestOf(w, "file")}}
          /\ worker'[w].pc = "copying" => requests' = {RequestOf(w, "copy")}
          /\ worker'[w].pc = "filing" => requests' = {RequestOf(w, "file")}
      BY <2>3, <2>4, Zenon
    <3>2. /\ post' = post
          /\ post.state \in {"sending", "unknown", "published"}
          /\ worker[w].caption = post.caption
          /\ \A v \in Workers \ {w} : ~InSend(v)
      BY <1>t, <2>1, <3>1, ZenonT(60) DEF SendInv, InSend, HandlerMove
    <3>3. /\ RequestOf(w, "copy")' = RequestOf(w, "copy")
          /\ RequestOf(w, "file")' = RequestOf(w, "file")
          /\ RequestOf(w, "copy").caption = post.caption
          /\ RequestOf(w, "file").caption = post.caption
      BY <2>1, <3>1, <3>2, Zenon DEF RequestOf
    <3>4. Effects' = requests' /\ messages' = {} /\ messages = {}
      BY <2>3, <3>1, Zenon DEF Effects
    <3>5. messages = {} => post.state # "published"
      BY <1>t, Zenon DEF EffectInv
    <3>6. QED
      BY <2>2, <3>1, <3>2, <3>3, <3>4, <3>5, SMTT(60) DEF EffectInv, InSend
  <2>5. CASE requests' = requests
    <3>1. Effects' = Effects
      BY Zenon, <2>3, <2>5 DEF Effects
    <3>2. /\ post.state = "queued" => Effects = {}
          /\ worker[w].pc \in {"lookup", "reject", "requeue"} => Effects = {}
          /\ worker[w].pc = "complete" => messages # {}
      BY <1>t, Zenon DEF EffectInv
    <3>3. /\ Effects # {} => post'.state \in {"sending", "unknown", "published"}
          /\ post'.state = "published" => messages # {}
      BY <1>t, <2>1, <3>2, ZenonT(60) DEF EffectInv, HandlerMove
    <3>4. worker'[w].pc = "lookup" => Effects = {}
      BY Zenon, <2>1, <3>2 DEF HandlerMove, Claimable, ClaimRefusal, HandlerSteps
    <3>5. /\ worker'[w].pc = "copying" => Effects \subseteq {RequestOf(w, "copy")}'
          /\ worker'[w].pc = "filing" => Effects \subseteq {RequestOf(w, "file")}'
      <4>1. /\ worker'[w].pc # "copying"
            /\ worker'[w].pc # "filing"
        BY <2>3, <2>5, Zenon DEF Effects
      <4>2. QED
        BY <4>1, Zenon
    <3>6. QED
      BY <1>t, <2>1, <2>2, <2>3, <3>1, <3>3, <3>4, <3>5, ZenonT(60) DEF EffectInv, RequestOf
  <2>6. QED
    BY <2>4, <2>5, Zenon
<1>4. ASSUME NEW w \in Workers, Crash(w) \/ SettleLease(w) \/ CompleteLease(w)
      PROVE  EffectInv'
  <2>1. /\ worker'[w].pc = "idle"
        /\ \A v \in Workers \ {w} : worker'[v] = worker[v]
        /\ UNCHANGED <<requests, messages>>
    BY Zenon, <1>4, <1>t, IdleFields DEF Crash, SettleLease, CompleteLease, telegram
  <2>2. \/ post' = post
        \/ /\ post'.caption = post.caption
           /\ \/ post.state = "queued" /\ post'.state = "failed"
              \/ post.state = "sending" /\ post'.state = "unknown"
    BY <1>4, <1>t, ReleaseFields, Zenon DEF Crash
  <2>3. QED
    BY SMTT(40), <1>t, <2>1, <2>2 DEF EffectInv, Effects, RequestOf
<1>5. CASE RecoverStaleLease
  <2>1. PICK w \in Workers : TRUE
    BY Zenon, WorkersAssumption
  <2>2. \/ post' = post
        \/ /\ post'.caption = post.caption
           /\ \/ post.state = "queued" /\ post'.state = "failed"
              \/ post.state = "sending" /\ post'.state = "unknown"
    BY Zenon, <1>5, <1>t, ReleaseFields
  <2>3. UNCHANGED <<worker, requests, messages>>
    BY <1>5, Zenon DEF RecoverStaleLease, telegram
  <2>4. QED
    BY Zenon, <1>t, <2>2, <2>3 DEF EffectInv, Effects, RequestOf
<1>6. ASSUME NEW r \in requests, Deliver(r) \/ Refuse(r) PROVE EffectInv'
  <2>1. /\ Effects' \subseteq Effects
        /\ messages \subseteq messages'
        /\ UNCHANGED <<post, worker>>
    BY <1>6, Zenon DEF Deliver, Refuse, Effects
  <2>2. QED
    BY Zenon, <1>t, <2>1 DEF EffectInv, RequestOf
<1>7. CASE UNCHANGED <<post, worker, requests, messages>>
  BY Zenon, <1>7, <1>t DEF EffectInv, Effects, RequestOf
<1>8. QED
  BY Zenon, <1>1, <1>2, <1>3, <1>4, <1>5, <1>6, <1>7 DEF Next, HandlerStep, InHandler,
     vars, telegram, LeaseExpires, PruneJob, ChannelToggled, MediaToggled

-----------------------------------------------------------------------------
(* The theorems *)

(* The invariant holds initially. *)
LEMMA InitInv == Init => PublicationInv
<1> SUFFICES ASSUME Init PROVE PublicationInv
  BY Zenon
<1>1. TypeOK
  BY Zenon DEF Init, TypeOK, NoPost, NoJob, Idle, PostRow, JobRow, Worker, PostStates, JobStates
<1>2. LeaseInv
  BY SMTT(60) DEF Init, LeaseInv, NoJob, Idle
<1>3. JobInv
  BY Zenon DEF Init, JobInv, NoPost, NoJob
<1>4. HandlerInv
  BY Zenon DEF Init, HandlerInv, Idle, HoldsLease
<1>5. SendInv
  BY Zenon DEF Init, SendInv, InSend, Idle
<1>6. EffectInv
  BY Zenon DEF Init, EffectInv, Effects, Idle, NoPost
<1>7. QED
  BY Zenon, <1>1, <1>2, <1>3, <1>4, <1>5, <1>6 DEF PublicationInv

(* The rows, leases and worker records always have their types. *)
THEOREM TypeCorrect == Spec => []TypeOK
<1>1. Init => TypeOK
  BY Zenon, InitInv DEF PublicationInv
<1>2. TypeOK /\ [Next]_vars => TypeOK'
  BY Zenon, TypeStep
<1>3. QED
  BY <1>1, <1>2, PTL DEF Spec

(* Leases, jobs, handlers, sends and effects agree with one another in     *)
(* every reachable state: the inductive invariant.                         *)
THEOREM InvariantHolds == Spec => []PublicationInv
<1>1. PublicationInv /\ [Next]_vars => PublicationInv'
  <2> SUFFICES ASSUME PublicationInv, [Next]_vars PROVE PublicationInv'
    BY Zenon
  <2>1. TypeOK'
    BY Zenon, TypeStep DEF PublicationInv
  <2>2. QED
    BY Zenon, <2>1, LeaseStep, JobStep, HandlerStepInv, SendStep, EffectStep DEF PublicationInv
<1>2. QED
  BY <1>1, InitInv, PTL DEF Spec

(* No post appears twice in its channel, whatever crashes, lost answers,   *)
(* takeovers, retries and operator commands happen.                        *)
THEOREM NeverTwice == Spec => []AtMostOneMessage
<1>1. PublicationInv => AtMostOneMessage
  BY Zenon DEF PublicationInv, EffectInv, Effects, AtMostOneMessage
<1>2. QED
  BY <1>1, InvariantHolds, PTL

(* A post that may be sent again, edited or withdrawn has had no effect    *)
(* and has none on its way.                                                *)
THEOREM RetryIsSafe == Spec => []EffectOnlyWhenFenced
<1>1. PublicationInv => EffectOnlyWhenFenced
  BY Zenon DEF PublicationInv, EffectInv, EffectOnlyWhenFenced
<1>2. QED
  BY <1>1, InvariantHolds, PTL

(* A published post is in the channel with the caption its row holds. *)
THEOREM PublishedFaithfully == Spec => []PublishedAsRecorded
<1>1. PublicationInv => PublishedAsRecorded
  <2> SUFFICES ASSUME PublicationInv, post.state = "published"
               PROVE  \E r \in messages : messages = {r} /\ r.caption = post.caption
    BY Zenon DEF PublishedAsRecorded
  <2>1. PICK r \in messages : TRUE
    BY Zenon DEF PublicationInv, EffectInv
  <2>2. messages = {r} /\ r.caption = post.caption
    BY <2>1 DEF PublicationInv, EffectInv, Effects
  <2>3. QED
    BY Zenon, <2>2
<1>2. QED
  BY <1>1, InvariantHolds, PTL

(* Settlement and recovery strand neither a queued nor a sending post. *)
THEOREM NothingStranded == Spec => []NoStrandedPost
<1>1. PublicationInv => NoStrandedPost
  BY Zenon DEF PublicationInv, JobInv, NoStrandedPost
<1>2. QED
  BY <1>1, InvariantHolds, PTL

(* No queued job is beyond its attempts. *)
THEOREM AlwaysClaimable == Spec => []QueuedJobClaimable
<1>1. PublicationInv => QueuedJobClaimable
  BY Zenon DEF PublicationInv, LeaseInv, QueuedJobClaimable
<1>2. QED
  BY <1>1, InvariantHolds, PTL

(* One worker at most can reach Telegram for the post. *)
THEOREM SingleSender == Spec => []OneSender
<1>1. PublicationInv => OneSender
  BY Zenon DEF PublicationInv, SendInv, InSend, OneSender
<1>2. QED
  BY <1>1, InvariantHolds, PTL

(* A worker that lost the lease writes to neither row. *)
THEOREM StaleWorkerHarmless == Spec => StaleWorkerChangesNothing
<1>1. TypeOK /\ [Next]_vars =>
        [\A w \in Workers : HandlerStep(w) /\ ~HoldsLease(w) => UNCHANGED <<post, job>>]_vars
  <2> SUFFICES ASSUME TypeOK, NEW w \in Workers, HandlerStep(w), ~HoldsLease(w)
               PROVE  UNCHANGED <<post, job>>
    BY Zenon
  <2>1. CASE InHandler(w)
    BY Zenon, <2>1, HandlerFields
  <2>2. CASE CompleteLease(w)
    BY Zenon, <2>2 DEF CompleteLease
  <2>3. CASE SettleLease(w)
    BY <2>3, Zenon DEF SettleLease
  <2>4. QED
    BY Zenon, <2>1, <2>2, <2>3 DEF HandlerStep, InHandler
<1>2. QED
  BY <1>1, TypeCorrect, PTL DEF Spec, StaleWorkerChangesNothing

(* The moves of the post row: what any step of the system may do to its    *)
(* state, and what it must know of the channel to do it.                   *)
LEMMA PostMoves ==
    ASSUME PublicationInv, [Next]_vars, post' # post
    PROVE  /\ messages' = messages
           /\ \/ /\ post.state \in {"none", "draft", "queued", "failed"}
                 /\ post'.state \in {"draft", "queued", "failed", "cancelled"}
                 /\ post'.state = "cancelled" => post'.caption = post.caption
              \/ /\ post.state = "queued" /\ post'.state = "sending"
                 /\ post'.caption = post.caption
              \/ /\ post.state = "sending"
                 /\ post'.state \in {"unknown", "published", "queued", "failed"}
                 /\ post'.state = "published" => messages # {}
                 /\ post'.state \in {"queued", "failed"} => messages = {}
                 /\ post'.caption = post.caption
<1>t. TypeOK /\ LeaseInv /\ JobInv /\ SendInv /\ EffectInv
  BY Zenon DEF PublicationInv
<1>1. CASE OperatorStep
  BY <1>1, <1>t, OperatorFields, Zenon
<1>2. ASSUME NEW w \in Workers, InHandler(w)
      PROVE  /\ messages' = messages
             /\ post'.caption = post.caption
             /\ \/ post.state = "queued" /\ post'.state = "sending"
                \/ /\ post.state = "sending"
                   /\ post'.state \in {"unknown", "published", "queued", "failed"}
                   /\ post'.state = "published" => messages # {}
                   /\ post'.state \in {"queued", "failed"} => messages = {}
  <2>1. /\ HandlerMove(w, worker[w].pc, worker'[w].pc)
        /\ post'.caption = post.caption
        /\ messages' = messages
    BY <1>2, <1>t, HandlerFields, HandlerEffects, ZenonT(60)
  <2>2. /\ worker[w].pc = "complete" => messages # {}
        /\ worker[w].pc \in {"reject", "requeue"} => messages = {}
    BY <1>t, Zenon DEF EffectInv, Effects
  <2>3. QED
    BY <2>1, <2>2, Zenon DEF HandlerMove, Claimable, HoldsSend
<1>3. ASSUME NEW w \in Workers, SettleLease(w) \/ CompleteLease(w) \/ RecoverStaleLease
      PROVE  /\ messages' = messages
             /\ \/ post.state = "queued" /\ post'.state = "failed"
                \/ /\ post.state = "sending" /\ post'.state = "unknown"
                   /\ post'.caption = post.caption
  BY Zenon, <1>3, <1>t, ReleaseFields DEF SettleLease, CompleteLease, RecoverStaleLease, telegram
<1>4. CASE RecoverStaleLease
  BY Zenon, <1>3, <1>4, WorkersAssumption
<1>5. CASE ~RecoverStaleLease /\ ~OperatorStep
  BY <1>2, <1>3, <1>5 DEF Next, HandlerStep, InHandler, vars, ClaimNext, Crash, Deliver, Refuse,
     LeaseExpires, PruneJob, ChannelToggled, MediaToggled
<1>6. QED
  BY Zenon, <1>1, <1>4, <1>5

(* Nothing rewrites a published, unknown or cancelled post. *)
THEOREM OutcomesStand == Spec => OutcomeIsFinal
<1>1. PublicationInv /\ [Next]_vars =>
        [post.state \in {"published", "unknown", "cancelled"} => post' = post]_vars
  BY Zenon, PostMoves
<1>2. QED
  BY <1>1, InvariantHolds, PTL DEF Spec, OutcomeIsFinal

(* Messages appear in the channel by Telegram's doing only. *)
LEMMA OnlyTelegramDelivers ==
    ASSUME PublicationInv, [Next]_vars, messages' # messages
    PROVE  \E r \in requests : Deliver(r)
<1>1. ASSUME NEW w \in Workers, InHandler(w) PROVE messages' = messages
  BY <1>1, HandlerEffects, Zenon DEF PublicationInv
<1>2. OperatorStep => messages' = messages
  BY Zenon, OperatorFields DEF PublicationInv
<1>3. QED
  BY <1>1, <1>2, Zenon DEF Next, HandlerStep, InHandler, vars, telegram, ClaimNext, Crash,
     Refuse,
     CompleteLease, SettleLease, RecoverStaleLease, LeaseExpires, PruneJob, ChannelToggled,
     MediaToggled

(* The rows, leases, retries and recovery implement PublicationOutcome. *)
THEOREM Refinement == Spec => ImplementsOutcome
<1> USE DEF OutcomeOf
<1>1. Init => Outcome!Init
  BY DEF Init, NoPost, Outcome!Init
<1>2. PublicationInv /\ PublicationInv' /\ [Next]_vars => [Outcome!Next]_(Outcome!vars)
  <2> SUFFICES ASSUME PublicationInv, PublicationInv', [Next]_vars
               PROVE  [Outcome!Next]_(Outcome!vars)
    BY Zenon
  <2> USE DEF Outcome!Next, Outcome!vars
  <2>1. CASE post' # post
    <3>1. post'.caption \in Nat
      BY Zenon DEF PublicationInv, TypeOK, PostRow
    <3>2. messages' = messages
      BY Zenon, <2>1, PostMoves
    <3>3. CASE /\ post.state \in {"none", "draft", "queued", "failed"}
               /\ post'.state \in {"draft", "queued", "failed", "cancelled"}
               /\ post'.state = "cancelled" => post'.caption = post.caption
      BY <3>1, <3>2, <3>3, Zenon DEF Outcome!Edit, Outcome!Withdraw
    <3>4. CASE /\ post.state = "queued" /\ post'.state = "sending"
               /\ post'.caption = post.caption
      BY <3>2, <3>4, Zenon DEF Outcome!Begin
    <3>5. CASE /\ post.state = "sending"
               /\ post'.state \in {"unknown", "published", "queued", "failed"}
               /\ post'.state = "published" => messages # {}
               /\ post'.state \in {"queued", "failed"} => messages = {}
               /\ post'.caption = post.caption
      BY <3>2, <3>5, Zenon DEF Outcome!Resolve, Outcome!Confirm, Outcome!Lose, Outcome!GiveUp
    <3>6. QED
      BY Zenon, <2>1, <3>3, <3>4, <3>5, PostMoves
  <2>2. CASE post' = post /\ messages' # messages
    <3>1. PICK r \in requests : Deliver(r)
      BY Zenon, <2>2, OnlyTelegramDelivers
    <3>2. /\ messages' = messages \cup {r}
          /\ r \in Effects
      BY <3>1, Zenon DEF Deliver, Effects
    <3>3. messages = {}
      BY <2>2, <3>2, Zenon DEF PublicationInv, EffectInv, Effects
    <3>4. /\ messages' = {r}
          /\ r.caption = post.caption
          /\ post.state \in {"sending", "unknown"}
      BY Zenon, <3>2, <3>3 DEF PublicationInv, EffectInv
    <3>5. QED
      BY Zenon, <2>2, <3>3, <3>4 DEF Outcome!Appear
  <2>3. CASE post' = post /\ messages' = messages
    BY Zenon, <2>3
  <2>4. QED
    BY Zenon, <2>1, <2>2, <2>3
<1>3. QED
  BY <1>1, <1>2, InvariantHolds, PTL DEF Spec, ImplementsOutcome, Outcome!Spec

=============================================================================
