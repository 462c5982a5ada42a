------------------------ MODULE StorageUploadProofs ------------------------
(***************************************************************************)
(* Proofs about StorageUpload for every number of workers, ingests,        *)
(* attempts and generations: first that a generation of the upload has at  *)
(* most one effect in Telegram; then that the ingests of a video say what  *)
(* its media row says, that a requested publication is not forgotten, that *)
(* pending storage has an upload job and that a queued one can be claimed. *)
(*                                                                         *)
(* OneUploadPerGeneration is not inductive: whether a dispatch may add an  *)
(* upload depends on who holds the reservation, on what workers of older   *)
(* generations are still doing, and on what a refusal tells its uploader.  *)
(* The inductive invariant relates the step of each worker, the            *)
(* reservation of the media row and the effects of each generation.        *)
(***************************************************************************)
EXTENDS StorageUpload, FiniteSetTheorems, TLAPS

Releasing == {"release_staging", "release_cancelled", "release_retry",
              "release_fail"}

\* The steps between the reservation of an upload and its outcome.
Acting == {"dispatch", "upload", "complete"} \cup Releasing

Unsent(w) ==
    \/ worker[w].pc \in {"dispatch"} \cup Releasing
    \/ worker[w].pc = "upload" /\ worker[w].answer = "refused"

Sent(w) ==
    \/ worker[w].pc = "complete"
    \/ worker[w].pc = "upload" /\ worker[w].answer = "accepted"

NoEffect(g) == messages[g] = 0 /\ inflight[g] = {}

\* A reservation is only there while the storage is pending.
TokenIsPending == media.token # NoOne => media.state = "pending"

\* Between reservation and outcome a worker whose token is still there works
\* on the current generation ...
ActingIsCurrent ==
    \A w \in Workers :
        worker[w].pc \in Acting /\ media.token = w
            => worker[w].generation = media.generation

\* ... and one that works on the current generation, still pending, has the
\* token ...
ActingOwnsToken ==
    \A w \in Workers :
        /\ worker[w].pc \in Acting
        /\ worker[w].generation = media.generation
        /\ media.state = "pending"
        => media.token = w

\* ... and in no generation do two work between reservation and outcome.
ActingAlone ==
    \A v, w \in Workers :
        /\ worker[v].pc \in Acting /\ worker[w].pc \in Acting
        /\ worker[v].generation = worker[w].generation
        => v = w

\* Who has not dispatched yet, or was refused, has had no effect, nor has
\* anybody else in that generation.
UnsentHasNoEffect == \A w \in Workers : Unsent(w) => NoEffect(worker[w].generation)

\* Who has its message has put one into the channel.
SentHasEffect == \A w \in Workers : Sent(w) => messages[worker[w].generation] > 0

\* Pending storage without a reservation is untouched, so it may be reserved.
UnreservedIsUntouched ==
    media.state = "pending" /\ media.token = NoOne => NoEffect(media.generation)

\* Generations yet to come have neither effects nor jobs.
FutureIsUntouched ==
    \A g \in Generations :
        g > media.generation => NoEffect(g) /\ jobs[g].state = "absent"

WorkersAreBehind == \A w \in Workers : worker[w].generation <= media.generation

\* At most one effect, without counting.
OneEffect ==
    \A g \in Generations :
        \/ messages[g] = 0 /\ \A u, v \in inflight[g] : u = v
        \/ messages[g] = 1 /\ inflight[g] = {}

IInv ==
    /\ TypeOK
    /\ TokenIsPending
    /\ ActingIsCurrent
    /\ ActingOwnsToken
    /\ ActingAlone
    /\ UnsentHasNoEffect
    /\ SentHasEffect
    /\ UnreservedIsUntouched
    /\ FutureIsUntouched
    /\ WorkersAreBehind
    /\ OneEffect
    /\ ReadyIsStored

-----------------------------------------------------------------------------
(* What the helpers of the model return *)

USE DEF StorageStates

\* A worker told to stop, and a job whose lease has run out, keep their types.
LEMMA WorkerCancelled ==
  \A row \in Worker : [row EXCEPT !.cancelled = TRUE] \in Worker
BY Zenon DEF Worker

LEMMA JobExpired ==
  \A row \in JobRow : [row EXCEPT !.live = FALSE] \in JobRow
BY Zenon DEF JobRow

\* Goto changes one worker, to the given step of the same generation with the
\* last answer forgotten.
LEMMA GotoFacts ==
    ASSUME worker \in [Workers -> Worker], NEW w \in Workers,
           NEW pc \in HandlerSteps \cup Results
    PROVE  /\ Goto(w, pc) \in [Workers -> Worker]
           /\ \A v \in Workers : v # w => Goto(w, pc)[v] = worker[v]
           /\ Goto(w, pc)[w].pc = pc
           /\ Goto(w, pc)[w].generation = worker[w].generation
           /\ Goto(w, pc)[w].answer = "none"
<1> DEFINE r == IF pc \in Results
                THEN [Idle EXCEPT !.pc = pc, !.generation = worker[w].generation]
                ELSE [worker[w] EXCEPT !.pc = pc, !.answer = "none", !.rows = {}]
<1>1. worker[w] \in Worker
  BY Zenon
<1>2. /\ r \in Worker
      /\ r.pc = pc /\ r.generation = worker[w].generation /\ r.answer = "none"
  <2>1. CASE pc \in Results
    BY Zenon, <2>1, <1>1 DEF Worker, Idle
  <2>2. CASE pc \notin Results
    BY Zenon, <2>2, <1>1 DEF Worker
  <2> QED BY Zenon, <2>1, <2>2
<1>3. Goto(w, pc) = [worker EXCEPT ![w] = r]
  BY Zenon DEF Goto
<1> HIDE DEF r
<1> QED BY Zenon, <1>2, <1>3

LEMMA MediaInFacts ==
    ASSUME media \in MediaRow, NEW s \in StorageStates
    PROVE  /\ MediaIn(s) \in MediaRow
           /\ MediaIn(s).state = s /\ MediaIn(s).token = NoOne
           /\ MediaIn(s).generation = media.generation
           /\ MediaIn(s).path = media.path
           /\ MediaIn(s).receipt = media.receipt
BY Zenon DEF MediaIn, MediaRow

LEMMA MediaReadyFacts ==
    ASSUME media \in MediaRow, NEW g \in Generations
    PROVE  /\ MediaReady(g) \in MediaRow
           /\ MediaReady(g).state = "ready" /\ MediaReady(g).token = NoOne
           /\ MediaReady(g).generation = media.generation
           /\ MediaReady(g).path = FALSE /\ MediaReady(g).receipt = g
<1>1. /\ MediaIn("ready") \in MediaRow
      /\ MediaIn("ready").state = "ready" /\ MediaIn("ready").token = NoOne
      /\ MediaIn("ready").generation = media.generation
  BY Zenon, MediaInFacts
<1> QED BY Zenon, <1>1 DEF MediaReady, MediaRow

LEMMA MovedType ==
    ASSUME ingests \in [Ingests -> IngestStates], NEW set, NEW s \in IngestStates
    PROVE  Moved(set, s) \in [Ingests -> IngestStates]
BY Zenon DEF Moved

\* The jobs that the queue operations write: typed, and absent where they were.
LEMMA JobReleasedFacts ==
    ASSUME jobs \in [Generations -> JobRow], NEW g \in Generations,
           NEW s \in {"queued", "succeeded", "failed"}, NEW a \in 0 .. MaxAttempts
    PROVE  /\ JobReleased(g, s, a) \in [Generations -> JobRow]
           /\ \A h \in Generations : h # g => JobReleased(g, s, a)[h] = jobs[h]
BY Zenon DEF JobReleased, JobRow

LEMMA QueuedUploadsFailedFacts ==
    ASSUME jobs \in [Generations -> JobRow]
    PROVE  /\ QueuedUploadsFailed \in [Generations -> JobRow]
           /\ \A h \in Generations : jobs[h].state = "absent"
                                        => QueuedUploadsFailed[h].state = "absent"
<1>1. \A h \in Generations : [jobs[h] EXCEPT !.state = "failed"] \in JobRow
  BY Zenon DEF JobRow
<1> QED BY Zenon, <1>1 DEF QueuedUploadsFailed

LEMMA NewUploadJobType == NewUploadJob \in JobRow
<1>1. NoJob \in JobRow
  BY StorageAttemptsAssumption DEF NoJob, JobRow
<1> QED BY Zenon, <1>1 DEF NewUploadJob, JobRow

LEMMA JobsWithUploadFacts ==
    ASSUME jobs \in [Generations -> JobRow], media \in MediaRow
    PROVE  /\ JobsWithUpload \in [Generations -> JobRow]
           /\ \A h \in Generations : h # media.generation
                                        => JobsWithUpload[h] = jobs[h]
<1>1. media.generation \in Generations
  BY Zenon DEF MediaRow
<1> QED BY Zenon, <1>1, NewUploadJobType DEF JobsWithUpload

LEMMA RefundedType ==
    ASSUME NEW a \in 0 .. MaxAttempts
    PROVE  Refunded(a) \in 0 .. MaxAttempts
BY StorageAttemptsAssumption DEF Refunded

-----------------------------------------------------------------------------
(* Type correctness *)

\* The steps a handler can be sent to, by what an action says of worker'.
LEMMA GotoTypes ==
    ASSUME worker \in [Workers -> Worker], NEW w \in Workers
    PROVE  /\ \A pc \in HandlerSteps \cup Results :
                 Goto(w, pc) \in [Workers -> Worker]
           /\ \A b \in BOOLEAN : FailStep(w, b) \in HandlerSteps
           /\ EndsWell(w) \subseteq [Workers -> Worker]
           /\ NotReserved(w) \subseteq [Workers -> Worker]
<1>1. \A pc \in HandlerSteps \cup Results : Goto(w, pc) \in [Workers -> Worker]
  BY Zenon, GotoFacts
<1>2. {"ok", "fail", "retry"} \subseteq Results
      /\ {"complete_ingests", "fail_terminal", "fail_retry"} \subseteq HandlerSteps
  BY Zenon DEF HandlerSteps, Results
<1>3. EndsWell(w) \subseteq [Workers -> Worker]
  BY Zenon, <1>1, <1>2 DEF EndsWell
<1>4. NotReserved(w) \subseteq [Workers -> Worker]
  BY Zenon, <1>1, <1>2, <1>3 DEF NotReserved
<1>5. \A b \in BOOLEAN : FailStep(w, b) \in HandlerSteps
  BY Zenon, <1>2 DEF FailStep
<1> QED BY Zenon, <1>1, <1>3, <1>4, <1>5

LEMMA AdvanceType ==
    ASSUME TypeOK, NEW i \in Ingests, NEW s, AdvanceAfterMediaProcessing(i, s)
    PROVE  /\ ingests' \in [Ingests -> IngestStates]
           /\ jobs' \in [Generations -> JobRow]
           /\ materialize' \subseteq Ingests
<1>1. JobsWithUpload \in [Generations -> JobRow]
  BY Zenon, JobsWithUploadFacts DEF TypeOK
<1> QED BY Zenon, <1>1 DEF TypeOK, AdvanceAfterMediaProcessing, IngestStates

LEMMA LinkType ==
    ASSUME TypeOK, NEW i \in Ingests, LinkStep(i)
    PROVE  TypeOK'
<1>1. CASE CompleteVideoIdentity(i)
  <2>1. AdvanceAfterMediaProcessing(i, media.state)
    BY Zenon, <1>1 DEF CompleteVideoIdentity
  <2> QED BY Zenon, <1>1, <2>1, AdvanceType DEF TypeOK, CompleteVideoIdentity, telegram
<1>2. CASE AcceptDuplicate(i)
  BY Zenon, <1>2 DEF TypeOK, AcceptDuplicate, telegram, IngestStates
<1>3. CASE ReadStorageState(i)
  <2>1. media.state \in StorageStates
    BY Zenon DEF TypeOK, MediaRow
  <2> QED BY Zenon, <1>3, <2>1 DEF TypeOK, ReadStorageState, telegram
<1>4. CASE FinalizeIngest(i)
  <2>1. AdvanceAfterMediaProcessing(i, seen[i])
    BY Zenon, <1>4 DEF FinalizeIngest
  <2> QED BY Zenon, <1>4, <2>1, AdvanceType DEF TypeOK, FinalizeIngest, telegram
<1> QED BY Zenon, <1>1, <1>2, <1>3, <1>4 DEF LinkStep

\* The operations on the linked ingests.
LEMMA IngestWrites ==
    ASSUME TypeOK
    PROVE  /\ CompleteIngests => /\ ingests' \in [Ingests -> IngestStates]
                                 /\ materialize' \subseteq Ingests
           /\ FailIngests => ingests' \in [Ingests -> IngestStates]
           /\ \A set : \A s \in IngestStates :
                 Write(set, s) => ingests' \in [Ingests -> IngestStates]
<1>1. \A set : \A s \in IngestStates :
         Write(set, s) => ingests' \in [Ingests -> IngestStates]
  BY MovedType DEF Write, TypeOK
<1>2. {"completed", "failed_terminal"} \subseteq IngestStates
  BY Zenon DEF IngestStates
<1>3. CompleteIngests => materialize' \subseteq Ingests
  BY Zenon DEF CompleteIngests, Waiting, WithState, TypeOK
<1> QED BY Zenon, <1>1, <1>2, <1>3 DEF CompleteIngests, FailIngests

LEMMA HandlerType ==
    ASSUME TypeOK, NEW w \in Workers, HandlerStep(w)
    PROVE  TypeOK'
<1> DEFINE Typed == [Workers -> Worker]
<1>1. /\ \A pc \in HandlerSteps \cup Results : Goto(w, pc) \in Typed
      /\ \A b \in BOOLEAN : FailStep(w, b) \in HandlerSteps
      /\ EndsWell(w) \subseteq Typed /\ NotReserved(w) \subseteq Typed
  BY Zenon, GotoTypes DEF TypeOK
<1>2. worker[w] \in Worker /\ worker[w].generation \in Generations
  BY Zenon DEF TypeOK, Worker
<1>3. \A s \in StorageStates : MediaIn(s) \in MediaRow
  BY Zenon, MediaInFacts DEF TypeOK
<1>4. \A g \in Generations : MediaReady(g) \in MediaRow
  BY Zenon, MediaReadyFacts DEF TypeOK
<1>5. CASE InspectMedia(w)
  <2>1. worker' \in Typed
    BY Zenon, <1>1, <1>5 DEF InspectMedia, HandlerSteps
  <2> QED BY Zenon, <2>1, <1>5 DEF InspectMedia, TypeOK, telegram
<1>6. CASE ReserveStorageUpload(w)
  <2>1. worker' \in Typed
    BY Zenon, <1>1, <1>6 DEF ReserveStorageUpload, HandlerSteps
  <2>2. media' \in MediaRow
    BY ZenonT(40), <1>6 DEF ReserveStorageUpload, TypeOK, MediaRow
  <2> QED BY Zenon, <2>1, <2>2, <1>6 DEF ReserveStorageUpload, TypeOK, telegram
<1>7. CASE DispatchUpload(w)
  <2>1. worker' \in Typed
    BY Zenon, <1>1, <1>7 DEF DispatchUpload, HandlerSteps
  <2>2. inflight' \in [Generations -> SUBSET Workers]
    BY <1>2, <1>7 DEF DispatchUpload, TypeOK
  <2> QED BY Zenon, <2>1, <2>2, <1>7 DEF DispatchUpload, TypeOK
<1>8. CASE ReleaseStorageUpload(w)
  <2>1. \A b \in BOOLEAN : AfterRelease(w, b) \in HandlerSteps \cup Results
    BY ZenonT(40), <1>1, <1>8 DEF ReleaseStorageUpload, AfterRelease, At, HandlerSteps, Results
  <2>2. worker' \in Typed
    BY Zenon, <1>1, <2>1, <1>8 DEF ReleaseStorageUpload
  <2>3. media' \in MediaRow
    BY Zenon, <1>3, <1>8 DEF ReleaseStorageUpload, TypeOK
  <2> QED BY Zenon, <2>2, <2>3, <1>8 DEF ReleaseStorageUpload, TypeOK, telegram
<1>9. CASE UploadReturns(w) \/ AbandonUpload(w)
  <2>1. worker' \in Typed
    BY Zenon, <1>1, <1>9 DEF UploadReturns, AbandonUpload, HandlerSteps
  <2> QED BY Zenon, <2>1, <1>9 DEF UploadReturns, AbandonUpload, TypeOK, telegram
<1>10. CASE CompleteStorageUpload(w)
  <2>1. worker' \in Typed
    BY Zenon, <1>1, <1>10 DEF CompleteStorageUpload, HandlerSteps
  <2>2. media' \in MediaRow
    BY Zenon, <1>2, <1>4, <1>10 DEF CompleteStorageUpload, TypeOK
  <2>3. ingests' \in [Ingests -> IngestStates] /\ materialize' \subseteq Ingests
    BY Zenon, IngestWrites, <1>10 DEF CompleteStorageUpload, TypeOK
  <2> QED BY Zenon, <2>1, <2>2, <2>3, <1>10 DEF CompleteStorageUpload, TypeOK, telegram
<1>11. CASE MarkStorageUploadUnknown(w)
  <2>1. worker' \in Typed
    BY Zenon, <1>1, <1>11 DEF MarkStorageUploadUnknown, Results
  <2>2. media' \in MediaRow
    BY Zenon, <1>3, <1>11 DEF MarkStorageUploadUnknown, TypeOK
  <2>3. ingests' \in [Ingests -> IngestStates]
    BY Zenon, IngestWrites, <1>11 DEF MarkStorageUploadUnknown, TypeOK
  <2>4. jobs' \in [Generations -> JobRow]
    BY Zenon, QueuedUploadsFailedFacts, <1>11 DEF MarkStorageUploadUnknown, TypeOK
  <2> QED BY Zenon, <2>1, <2>2, <2>3, <2>4, <1>11
          DEF MarkStorageUploadUnknown, TypeOK, telegram
<1>12. CASE CompleteStorageForMedia(w)
  <2>1. worker' \in Typed
    BY Zenon, <1>1, <1>12 DEF CompleteStorageForMedia, Results
  <2>2. media' \in MediaRow
    BY Zenon, <1>12 DEF CompleteStorageForMedia, TypeOK, MediaRow
  <2>3. ingests' \in [Ingests -> IngestStates] /\ materialize' \subseteq Ingests
    BY Zenon, IngestWrites, <1>12 DEF CompleteStorageForMedia, TypeOK
  <2> QED BY Zenon, <2>1, <2>2, <2>3, <1>12 DEF CompleteStorageForMedia, TypeOK, telegram
<1>13. CASE FailRetryable(w)
  <2>1. worker' \in Typed
    BY Zenon, <1>1, <1>13 DEF FailRetryable, Results
  <2>2. ingests' \in [Ingests -> IngestStates]
    BY Zenon, IngestWrites, <1>13 DEF FailRetryable, TypeOK, IngestStates
  <2> QED BY Zenon, <2>1, <2>2, <1>13 DEF FailRetryable, TypeOK, telegram
<1>14. CASE FailLinkedIngests(w)
  <2>1. StorageWaiting \subseteq Ingests
    BY Zenon DEF StorageWaiting, WithState
  <2>2. [worker[w] EXCEPT !.pc = "fail_media", !.rows = StorageWaiting] \in Worker
    BY Zenon, <1>2, <2>1 DEF Worker, HandlerSteps
  <2>3. worker' \in Typed
    BY ZenonT(40), <1>1, <2>2, <1>14 DEF FailLinkedIngests, Results, TypeOK
  <2> QED BY Zenon, <2>3, <1>14 DEF FailLinkedIngests, TypeOK, telegram
<1>15. CASE FailMedia(w)
  <2>1. worker' \in Typed
    BY Zenon, <1>1, <1>15 DEF FailMedia, Results
  <2>2. media' \in MediaRow
    BY Zenon, <1>3, <1>15 DEF FailMedia, StorageFailed, TypeOK
  <2>3. ingests' \in [Ingests -> IngestStates]
    BY MovedType, <1>15 DEF FailMedia, StorageFailed, TypeOK, IngestStates
  <2> QED BY Zenon, <2>1, <2>2, <2>3, <1>15 DEF FailMedia, TypeOK, telegram
<1>16. CASE FinishJob(w)
  <2>1. Idle \in Worker
    BY StorageGenerationAssumption DEF Idle, Worker, Generations
  <2>2. worker' \in Typed
    BY Zenon, <2>1, <1>16 DEF FinishJob, TypeOK
  <2>3. JobOf(w).attempt \in 0 .. MaxAttempts
    BY Zenon, <1>2 DEF JobOf, TypeOK, JobRow
  <2>4. jobs' \in [Generations -> JobRow]
    BY SMTT(40), <1>2, <2>3, JobReleasedFacts, RefundedType, <1>16 DEF FinishJob, TypeOK
  <2>5. ReconcileStorageTerminal => media' \in MediaRow
    BY Zenon, <1>3 DEF ReconcileStorageTerminal, TypeOK, MediaRow
  <2>6. ReconcileStorageTerminal => ingests' \in [Ingests -> IngestStates]
    BY Zenon, IngestWrites DEF ReconcileStorageTerminal, TypeOK, MediaRow, IngestStates
  <2> QED BY Zenon, <2>2, <2>4, <2>5, <2>6, <1>16 DEF FinishJob, TypeOK, telegram
<1> QED BY Zenon, <1>5, <1>6, <1>7, <1>8, <1>9, <1>10, <1>11, <1>12, <1>13, <1>14,
           <1>15, <1>16 DEF HandlerStep

LEMMA OtherType ==
    ASSUME TypeOK,
           \/ \E w \in Workers : RenewStorageUpload(w) \/ Cancel(w) \/ Crash(w)
           \/ \E w \in Workers, g \in Generations :
                 ClaimNext(w, g) \/ Deliver(w, g) \/ Refuse(w, g)
           \/ \E g \in Generations : LeaseExpires(g) \/ RecoverStorageJob(g)
           \/ ReservationAges
           \/ OperatorStep
           \/ BeginWorkspaceCleanup
    PROVE  TypeOK'
<1>1. Idle \in Worker
  BY StorageGenerationAssumption DEF Idle, Worker, Generations
<1>2. \A s \in StorageStates : MediaIn(s) \in MediaRow
  BY Zenon, MediaInFacts DEF TypeOK
<1>3. ASSUME NEW w \in Workers, RenewStorageUpload(w)
      PROVE  TypeOK'
  <2>1. Goto(w, "mark_leave") \in [Workers -> Worker]
    BY Zenon, GotoTypes DEF TypeOK, HandlerSteps
  <2>2. [media EXCEPT !.fresh = TRUE] \in MediaRow
    BY Zenon DEF TypeOK, MediaRow
  <2> QED BY Zenon, <2>1, <2>2, <1>3 DEF RenewStorageUpload, TypeOK, telegram
<1>4. ASSUME NEW w \in Workers, Cancel(w)
      PROVE  TypeOK'
  <2>1. [worker[w] EXCEPT !.cancelled = TRUE] \in Worker
    BY Zenon, WorkerCancelled DEF TypeOK
  <2> QED BY Zenon, <2>1, <1>4 DEF Cancel, TypeOK, telegram
<1>5. ASSUME NEW w \in Workers, Crash(w)
      PROVE  TypeOK'
  BY Zenon, <1>1, <1>5 DEF Crash, TypeOK, telegram
<1>6. ASSUME NEW w \in Workers, NEW g \in Generations, ClaimNext(w, g)
      PROVE  TypeOK'
  <2>0. jobs[g].attempt \in 0 .. MaxAttempts /\ jobs[g].attempt < MaxAttempts
    BY Zenon, <1>6 DEF ClaimNext, TypeOK, JobRow
  <2>1. jobs[g].attempt + 1 \in 0 .. MaxAttempts
    BY <2>0, StorageAttemptsAssumption
  <2>2. jobs' \in [Generations -> JobRow]
    BY Zenon, <2>1, <1>6 DEF ClaimNext, TypeOK, JobRow
  <2>3. (jobs[g].attempt + 1 >= MaxAttempts) \in BOOLEAN
    BY <2>1, StorageAttemptsAssumption
  <2> DEFINE last == jobs[g].attempt + 1 >= MaxAttempts
  <2> HIDE DEF last
  <2>4. [Idle EXCEPT !.pc = "inspect", !.generation = g, !.last = last] \in Worker
    BY Zenon, <1>1, <2>3 DEF Worker, HandlerSteps, last
  <2>5. worker' \in [Workers -> Worker]
    BY Zenon, <2>4, <1>6 DEF ClaimNext, TypeOK, last
  <2> QED BY Zenon, <2>2, <2>5, <1>6 DEF ClaimNext, TypeOK, telegram
<1>7. ASSUME NEW w \in Workers, NEW g \in Generations,
             Deliver(w, g) \/ Refuse(w, g)
      PROVE  TypeOK'
  <2>1. \A a \in {"accepted", "refused"} : [worker[w] EXCEPT !.answer = a] \in Worker
    BY DEF TypeOK, Worker
  <2>2. worker' \in [Workers -> Worker]
    BY Zenon, <2>1, <1>7 DEF Deliver, Refuse, Answered, TypeOK
  <2> QED BY <2>2, <1>7 DEF Deliver, Refuse, TypeOK
<1>8. ASSUME NEW g \in Generations, LeaseExpires(g)
      PROVE  TypeOK'
  <2>1. [jobs[g] EXCEPT !.live = FALSE] \in JobRow
    BY Zenon, JobExpired DEF TypeOK
  <2> QED BY Zenon, <2>1, <1>8 DEF LeaseExpires, TypeOK, telegram
<1>9. ASSUME NEW g \in Generations, RecoverStorageJob(g)
      PROVE  TypeOK'
  <2>1. jobs[g].attempt \in 0 .. MaxAttempts
    BY Zenon DEF TypeOK, JobRow
  <2>2. jobs' \in [Generations -> JobRow]
    BY <2>1, JobReleasedFacts, RefundedType, <1>9 DEF RecoverStorageJob, TypeOK
  <2>3. ingests' \in [Ingests -> IngestStates]
    BY Zenon, IngestWrites, <1>9 DEF RecoverStorageJob, TypeOK, IngestStates
  <2> QED BY Zenon, <1>2, <2>2, <2>3, <1>9 DEF RecoverStorageJob, TypeOK, telegram
<1>10. CASE ReservationAges
  BY Zenon, <1>10 DEF ReservationAges, TypeOK, MediaRow, telegram
<1>11. CASE OperatorMarkUnknown
  BY Zenon, <1>2, IngestWrites, QueuedUploadsFailedFacts, <1>11
  DEF OperatorMarkUnknown, TypeOK, telegram
<1>12. CASE ResetStorageUpload
  <2>1. MediaIn("pending") \in MediaRow
        /\ MediaIn("pending").generation = media.generation
    BY Zenon, MediaInFacts DEF TypeOK
  <2>2. media.generation + 1 \in Generations
    BY <1>12, StorageGenerationAssumption
    DEF ResetStorageUpload, TypeOK, MediaRow, Generations
  <2>3. media' \in MediaRow
    BY Zenon, <2>1, <2>2, <1>12 DEF ResetStorageUpload, MediaRow
  <2>4. ingests' \in [Ingests -> IngestStates]
    BY Zenon, IngestWrites, <1>12 DEF ResetStorageUpload, IngestStates
  <2> QED BY Zenon, <2>2, <2>3, <2>4, NewUploadJobType, <1>12
          DEF ResetStorageUpload, TypeOK, telegram
<1>13. ASSUME NEW g \in Generations, AttachStorageUpload(g)
       PROVE  TypeOK'
  BY Zenon, MediaReadyFacts, IngestWrites, <1>13 DEF AttachStorageUpload, TypeOK, telegram
<1>14. CASE BeginWorkspaceCleanup
  BY Zenon, <1>14 DEF BeginWorkspaceCleanup, TypeOK, MediaRow, telegram
<1> QED BY Zenon, <1>3, <1>4, <1>5, <1>6, <1>7, <1>8, <1>9, <1>10, <1>11, <1>12, <1>13,
           <1>14 DEF OperatorStep

LEMMA TypeStep == TypeOK /\ [Next]_vars => TypeOK'
<1> SUFFICES ASSUME TypeOK, [Next]_vars PROVE TypeOK'
  BY Zenon
<1>1. CASE UNCHANGED vars
  BY Zenon, <1>1 DEF TypeOK, vars
<1>2. CASE Next
  BY Zenon, <1>2, LinkType, HandlerType, OtherType DEF Next
<1> QED BY Zenon, <1>1, <1>2

LEMMA TypeInit == Init => TypeOK
<1> SUFFICES ASSUME Init PROVE TypeOK
  BY Zenon
<1>1. 0 \in Generations /\ NoJob \in JobRow /\ NewUploadJob \in JobRow
  BY NewUploadJobType, StorageGenerationAssumption, StorageAttemptsAssumption
  DEF Generations, NoJob, JobRow
<1>2. Idle \in Worker
  BY Zenon, <1>1 DEF Idle, Worker
<1>3. media \in MediaRow
  BY Zenon, <1>1 DEF Init, MediaRow
<1>4. ingests \in [Ingests -> IngestStates]
  BY Zenon DEF Init, IngestStates
<1>5. jobs \in [Generations -> JobRow]
  BY Zenon, <1>1 DEF Init
<1> QED BY Zenon, <1>2, <1>3, <1>4, <1>5 DEF Init, TypeOK

(* The rows of the upload have their types in every state: whatever a      *)
(* transaction of the queue, the handler or the operator commits, the      *)
(* attempt stays within max_attempts and every reservation, lease and      *)
(* receipt names a worker or a generation that exists.                     *)
THEOREM UploadTyped == Spec => []TypeOK
BY TypeInit, TypeStep, PTL DEF Spec

-----------------------------------------------------------------------------
(* Steps that neither reserve, release, dispatch nor decide an upload *)

\* The worker does not enter a step between reservation and outcome.
QuietWorker(w) ==
    \/ /\ worker'[w].pc = worker[w].pc
       /\ worker'[w].generation = worker[w].generation
       /\ worker'[w].answer = worker[w].answer
    \/ /\ worker'[w].pc \notin Acting
       /\ worker'[w].generation <= media.generation

\* The reservation stays as it is, or the storage is resolved.
QuietMedia ==
    /\ media'.generation = media.generation
    /\ \/ /\ media'.state = media.state
          /\ media'.token = media.token
          /\ media'.receipt = media.receipt
          /\ media'.path => media.path
       \/ /\ media'.state \in {"unknown", "missing"}
          /\ media'.token = NoOne
       \/ /\ media'.state = "ready"
          /\ media'.token = NoOne
          /\ media'.path = FALSE
          /\ media'.receipt \in Generations
          /\ messages[media'.receipt] > 0

\* No job of a generation to come appears.
QuietJobs ==
    \A g \in Generations : g > media.generation => jobs'[g].state = "absent"

LEMMA QuietStep ==
    ASSUME IInv, TypeOK', UNCHANGED telegram,
           \A w \in Workers : QuietWorker(w), QuietMedia, QuietJobs
    PROVE  IInv'
<1> USE DEF IInv, QuietWorker, QuietMedia, telegram
<1>1. media \in MediaRow /\ media' \in MediaRow
  BY Zenon DEF TypeOK
<1>2. TokenIsPending'
  BY Zenon DEF TokenIsPending
<1>3. ActingIsCurrent'
  BY Zenon, NoOneAssumption DEF ActingIsCurrent
<1>4. ActingOwnsToken'
  BY Zenon DEF ActingOwnsToken
<1>5. ActingAlone'
  BY Zenon DEF ActingAlone
<1>6. UnsentHasNoEffect'
  BY Zenon DEF UnsentHasNoEffect, Unsent, NoEffect, Acting, Releasing
<1>7. SentHasEffect'
  BY Zenon DEF SentHasEffect, Sent, Acting
<1>8. UnreservedIsUntouched'
  BY Zenon DEF UnreservedIsUntouched, NoEffect
<1>9. FutureIsUntouched'
  BY Zenon DEF FutureIsUntouched, NoEffect, QuietJobs
<1>10. WorkersAreBehind'
  BY Zenon DEF WorkersAreBehind
<1>11. OneEffect'
  BY DEF OneEffect
<1>12. ReadyIsStored'
  BY Zenon, <1>1 DEF ReadyIsStored, MediaRow
<1> QED BY Zenon, <1>2, <1>3, <1>4, <1>5, <1>6, <1>7, <1>8, <1>9, <1>10, <1>11, <1>12

\* What the parts of an action that leave the upload alone amount to.
LEMMA QuietFacts ==
    ASSUME IInv
    PROVE  /\ UNCHANGED worker => \A v \in Workers : QuietWorker(v)
           /\ \A w \in Workers : \A pc \in (HandlerSteps \cup Results) \ Acting :
                 worker' = Goto(w, pc) => \A v \in Workers : QuietWorker(v)
           /\ \A w \in Workers :
                 worker' = [worker EXCEPT ![w] = Idle]
                    => \A v \in Workers : QuietWorker(v)
           /\ UNCHANGED media => QuietMedia
           /\ \A s \in {"unknown", "missing"} : media' = MediaIn(s) => QuietMedia
           /\ UNCHANGED jobs => QuietJobs
           /\ jobs' = QueuedUploadsFailed => QuietJobs
           /\ \A g \in Generations :
              \A s \in {"queued", "succeeded", "failed"} :
              \A a \in 0 .. MaxAttempts :
                 jobs[g].state # "absent" /\ jobs' = JobReleased(g, s, a) => QuietJobs
<1>1. TypeOK /\ WorkersAreBehind /\ FutureIsUntouched
  BY Zenon DEF IInv
<1>2. UNCHANGED worker => \A v \in Workers : QuietWorker(v)
  BY Zenon DEF QuietWorker
<1>3. ASSUME NEW w \in Workers, NEW pc \in (HandlerSteps \cup Results) \ Acting,
             worker' = Goto(w, pc), NEW v \in Workers
      PROVE  QuietWorker(v)
  BY <1>1, <1>3, GotoFacts DEF QuietWorker, WorkersAreBehind, TypeOK
<1>4. ASSUME NEW w \in Workers, worker' = [worker EXCEPT ![w] = Idle],
             NEW v \in Workers
      PROVE  QuietWorker(v)
  <2>1. media.generation \in Nat
    BY <1>1, StorageGenerationAssumption DEF TypeOK, MediaRow, Generations
  <2>2. Idle.pc = "idle" /\ Idle.generation = 0
    BY Zenon DEF Idle
  <2>3. worker'[v] = IF v = w THEN Idle ELSE worker[v]
    BY Zenon, <1>1, <1>4 DEF TypeOK
  <2> QED BY <2>1, <2>2, <2>3 DEF QuietWorker, Acting, Releasing
<1>5. UNCHANGED media => QuietMedia
  BY Zenon DEF QuietMedia
<1>6. ASSUME NEW s \in {"unknown", "missing"}, media' = MediaIn(s)
      PROVE  QuietMedia
  BY Zenon, <1>1, <1>6, MediaInFacts DEF QuietMedia, TypeOK
<1>7. UNCHANGED jobs => QuietJobs
  BY Zenon, <1>1 DEF QuietJobs, FutureIsUntouched
<1>8. jobs' = QueuedUploadsFailed => QuietJobs
  BY Zenon, <1>1, QueuedUploadsFailedFacts DEF QuietJobs, FutureIsUntouched, TypeOK
<1>9. ASSUME NEW g \in Generations, NEW s \in {"queued", "succeeded", "failed"},
             NEW a \in 0 .. MaxAttempts, jobs[g].state # "absent",
             jobs' = JobReleased(g, s, a)
      PROVE  QuietJobs
  BY ZenonT(40), <1>1, <1>9, JobReleasedFacts DEF QuietJobs, FutureIsUntouched, TypeOK
<1> QED BY Zenon, <1>2, <1>3, <1>4, <1>5, <1>6, <1>7, <1>8, <1>9

\* The steps that are not between a reservation and its outcome.
QuietSteps == {"inspect", "reserve", "mark", "mark_leave", "complete_ingests",
               "fail_retry", "fail_terminal", "fail_media"} \cup Results

LEMMA QuietGoto ==
    ASSUME IInv, NEW w \in Workers
    PROVE  /\ \A pc \in QuietSteps :
                 worker' = Goto(w, pc) => \A v \in Workers : QuietWorker(v)
           /\ \A b : FailStep(w, b) \in QuietSteps
           /\ worker' \in EndsWell(w) => \A v \in Workers : QuietWorker(v)
           /\ worker' \in NotReserved(w) => \A v \in Workers : QuietWorker(v)
<1>1. \A pc \in QuietSteps : worker' = Goto(w, pc) => \A v \in Workers : QuietWorker(v)
  <2>1. QuietSteps \subseteq (HandlerSteps \cup Results) \ Acting
    BY Zenon DEF QuietSteps, HandlerSteps, Results, Acting, Releasing
  <2> QED BY Zenon, <2>1, QuietFacts
<1>2. \A b : FailStep(w, b) \in QuietSteps
  BY Zenon DEF FailStep, QuietSteps
<1>3. worker' \in EndsWell(w) => \A v \in Workers : QuietWorker(v)
  BY Zenon, <1>1 DEF EndsWell, QuietSteps, Results
<1>4. worker' \in NotReserved(w) => \A v \in Workers : QuietWorker(v)
  BY Zenon, <1>1, <1>3 DEF NotReserved, QuietSteps, Results
<1> QED BY Zenon, <1>1, <1>2, <1>3, <1>4

LEMMA LinkPreserves ==
    ASSUME IInv, TypeOK', NEW i \in Ingests, LinkStep(i)
    PROVE  IInv'
<1>1. UNCHANGED <<media, worker, telegram>>
  BY Zenon DEF LinkStep, CompleteVideoIdentity, AcceptDuplicate, ReadStorageState,
         FinalizeIngest
<1>2. jobs' = jobs \/ jobs' = JobsWithUpload
  BY Zenon DEF LinkStep, CompleteVideoIdentity, AcceptDuplicate, ReadStorageState,
         FinalizeIngest, AdvanceAfterMediaProcessing
<1>3. QuietJobs
  <2>1. TypeOK /\ FutureIsUntouched
    BY Zenon DEF IInv
  <2>2. media.generation \in Nat /\ Generations \subseteq Nat
    BY <2>1, StorageGenerationAssumption DEF TypeOK, MediaRow, Generations
  <2>3. \A g \in Generations : g > media.generation => g # media.generation
    BY <2>2
  <2>4. \A g \in Generations : g # media.generation => JobsWithUpload[g] = jobs[g]
    BY Zenon, <2>1, JobsWithUploadFacts DEF TypeOK
  <2> QED BY Zenon, <1>2, <2>1, <2>3, <2>4 DEF FutureIsUntouched, QuietJobs
<1> QED BY Zenon, <1>1, <1>3, QuietFacts, QuietStep

\* Every step of a handler but the reservation, the dispatch, the release and
\* the return of the upload.
LEMMA QuietHandlerPreserves ==
    ASSUME IInv, TypeOK', NEW w \in Workers,
           \/ InspectMedia(w) \/ AbandonUpload(w) \/ CompleteStorageUpload(w)
           \/ MarkStorageUploadUnknown(w) \/ CompleteStorageForMedia(w)
           \/ FailRetryable(w) \/ FailLinkedIngests(w) \/ FailMedia(w)
           \/ FinishJob(w) \/ RenewStorageUpload(w) \/ Cancel(w) \/ Crash(w)
    PROVE  IInv'
<1> DEFINE Quiet == \A v \in Workers : QuietWorker(v)
<1>1. TypeOK /\ worker[w] \in Worker /\ worker[w].generation \in Generations
  BY Zenon DEF IInv, TypeOK, Worker
<1>2. \A pc \in QuietSteps : worker' = Goto(w, pc) => Quiet
  BY Zenon, QuietGoto
<1>3. \A b : worker' = Goto(w, FailStep(w, b)) => Quiet
  BY Zenon, QuietGoto
<1>4. UNCHANGED media => QuietMedia
  BY Zenon, QuietFacts
<1>5. UNCHANGED jobs => QuietJobs
  BY Zenon, QuietFacts
<1> HIDE DEF Quiet
<1>6. CASE InspectMedia(w)
  <2>1. Quiet
    BY ZenonT(40), <1>2, <1>3, <1>6 DEF InspectMedia, QuietSteps
  <2> QED BY Zenon, <2>1, <1>4, <1>5, <1>6, QuietStep DEF InspectMedia, Quiet
<1>7. CASE AbandonUpload(w)
  <2>1. Quiet
    BY Zenon, <1>2, <1>7 DEF AbandonUpload, QuietSteps
  <2> QED BY Zenon, <2>1, <1>4, <1>5, <1>7, QuietStep DEF AbandonUpload, Quiet
<1>8. CASE CompleteStorageUpload(w)
  <2>1. Quiet
    BY Zenon, <1>2, <1>8 DEF CompleteStorageUpload, QuietSteps
  <2>2. messages[worker[w].generation] > 0
    BY Zenon, <1>8 DEF IInv, CompleteStorageUpload, SentHasEffect, Sent, At
  <2>3. media' = MediaReady(worker[w].generation) => QuietMedia
    <3> DEFINE ready == MediaReady(worker[w].generation)
    <3>1. /\ ready.state = "ready" /\ ready.token = NoOne
          /\ ready.generation = media.generation
          /\ ready.path = FALSE /\ ready.receipt = worker[w].generation
      BY ZenonT(40), <1>1, MediaReadyFacts DEF TypeOK
    <3> HIDE DEF ready
    <3>2. media' = ready => QuietMedia
      BY Zenon, <1>1, <2>2, <3>1 DEF QuietMedia
    <3> QED BY Zenon, <3>2 DEF ready
  <2>4. QuietMedia
    BY Zenon, <1>4, <2>3, <1>8 DEF CompleteStorageUpload
  <2> QED BY Zenon, <2>1, <2>4, <1>5, <1>8, QuietStep DEF CompleteStorageUpload, Quiet
<1>9. CASE MarkStorageUploadUnknown(w)
  <2>1. Quiet
    BY Zenon, <1>2, <1>9 DEF MarkStorageUploadUnknown, QuietSteps, Results
  <2>2. QuietMedia
    BY Zenon, <1>4, <1>9, QuietFacts DEF MarkStorageUploadUnknown
  <2>3. QuietJobs
    BY Zenon, <1>5, <1>9, QuietFacts DEF MarkStorageUploadUnknown
  <2> QED BY ZenonT(40), <2>1, <2>2, <2>3, <1>9, QuietStep DEF MarkStorageUploadUnknown, Quiet
<1>10. CASE CompleteStorageForMedia(w)
  <2>1. Quiet
    BY Zenon, <1>2, <1>10, QuietGoto
    DEF CompleteStorageForMedia, QuietSteps, Results, Quiet
  <2>2. media' = [media EXCEPT !.path = FALSE] => QuietMedia
    BY <1>1 DEF QuietMedia, TypeOK, MediaRow
  <2>3. QuietMedia
    BY Zenon, <1>4, <2>2, <1>10 DEF CompleteStorageForMedia
  <2> QED BY Zenon, <2>1, <2>3, <1>5, <1>10, QuietStep DEF CompleteStorageForMedia, Quiet
<1>11. CASE FailRetryable(w)
  <2>1. Quiet
    BY Zenon, <1>2, <1>11 DEF FailRetryable, QuietSteps, Results
  <2> QED BY Zenon, <2>1, <1>4, <1>5, <1>11, QuietStep DEF FailRetryable, Quiet
<1>12. CASE FailLinkedIngests(w)
  <2>1. worker' = [worker EXCEPT ![w].pc = "fail_media", ![w].rows = StorageWaiting]
           => Quiet
    BY SMTT(40), <1>1 DEF IInv, WorkersAreBehind, TypeOK, Worker, QuietWorker, Quiet, Acting,
                Releasing
  <2>2. Quiet
    BY Zenon, <1>2, <2>1, <1>12 DEF FailLinkedIngests, QuietSteps, Results
  <2> QED BY Zenon, <2>2, <1>4, <1>5, <1>12, QuietStep DEF FailLinkedIngests, Quiet
<1>13. CASE FailMedia(w)
  <2>1. Quiet
    BY Zenon, <1>2, <1>13 DEF FailMedia, QuietSteps, Results
  <2>2. QuietMedia
    BY Zenon, <1>4, <1>13, QuietFacts DEF FailMedia, StorageFailed
  <2> QED BY Zenon, <2>1, <2>2, <1>5, <1>13, QuietStep DEF FailMedia, Quiet
<1>14. CASE FinishJob(w)
  <2>1. Quiet
    BY Zenon, <1>14, QuietFacts DEF FinishJob, Quiet
  <2>2. ReconcileStorageTerminal => QuietMedia
    <3>1. ReconcileStorageTerminal => UNCHANGED media \/ media' = MediaIn("unknown")
      BY ZenonT(40), <1>1 DEF ReconcileStorageTerminal, TypeOK, MediaRow
    <3> QED BY Zenon, <3>1, <1>4, QuietFacts
  <2>3. QuietMedia
    BY Zenon, <1>4, <2>2, <1>14 DEF FinishJob
  <2>4. JobOf(w).attempt \in 0 .. MaxAttempts
    BY Zenon, <1>1 DEF JobOf, TypeOK, JobRow
  <2>5. IsHolder(w) => jobs[worker[w].generation].state # "absent"
    BY Zenon DEF IsHolder, JobOf
  <2>6. \A s \in {"queued", "succeeded", "failed"} : \A a \in 0 .. MaxAttempts :
           IsHolder(w) /\ jobs' = JobReleased(worker[w].generation, s, a) => QuietJobs
    BY Zenon, <1>1, <2>5, QuietFacts
  <2>7. QuietJobs
    BY Zenon, <1>5, <2>4, <2>6, <1>14, RefundedType DEF FinishJob, HoldsLease
  <2> QED BY Zenon, <2>1, <2>3, <2>7, <1>14, QuietStep DEF FinishJob, Quiet
<1>15. CASE RenewStorageUpload(w)
  <2>1. Quiet
    BY Zenon, <1>2, <1>15, QuietFacts DEF RenewStorageUpload, QuietSteps, Quiet
  <2>2. media' = [media EXCEPT !.fresh = TRUE] => QuietMedia
    BY <1>1 DEF QuietMedia, TypeOK, MediaRow
  <2>3. QuietMedia
    BY Zenon, <1>4, <2>2, <1>15 DEF RenewStorageUpload
  <2> QED BY Zenon, <2>1, <2>3, <1>5, <1>15, QuietStep DEF RenewStorageUpload, Quiet
<1>16. CASE Cancel(w)
  <2>1. Quiet
    BY <1>1, <1>16 DEF Cancel, TypeOK, Worker, QuietWorker, Quiet
  <2> QED BY Zenon, <2>1, <1>4, <1>5, <1>16, QuietStep DEF Cancel, Quiet
<1>17. CASE Crash(w)
  <2>1. Quiet
    BY Zenon, <1>17, QuietFacts DEF Crash, Quiet
  <2> QED BY Zenon, <2>1, <1>4, <1>5, <1>17, QuietStep DEF Crash, Quiet
<1> QED BY Zenon, <1>6, <1>7, <1>8, <1>9, <1>10, <1>11, <1>12, <1>13, <1>14, <1>15,
           <1>16, <1>17

-----------------------------------------------------------------------------
(* The steps that reserve, dispatch, release, decide or reset an upload *)

\* What Goto leaves of a worker, in the form the cases below use.
LEMMA GotoValues ==
    ASSUME TypeOK, NEW w \in Workers, NEW pc \in HandlerSteps \cup Results,
           worker' = Goto(w, pc)
    PROVE  \A v \in Workers :
              /\ worker'[v].generation = worker[v].generation
              /\ worker'[v].pc = IF v = w THEN pc ELSE worker[v].pc
              /\ worker'[v].answer = IF v = w THEN "none" ELSE worker[v].answer
BY SMTT(40), GotoFacts DEF TypeOK

LEMMA ReservePreserves ==
    ASSUME IInv, TypeOK', NEW w \in Workers, ReserveStorageUpload(w)
    PROVE  IInv'
<1>1. TypeOK /\ media \in MediaRow
  BY Zenon DEF IInv, TypeOK
<1>2. CASE ~Reservable(w) \/ UNCHANGED media
  <2>1. CASE UNCHANGED media /\ \A v \in Workers : QuietWorker(v)
    BY Zenon, <2>1, QuietFacts, QuietStep DEF ReserveStorageUpload
  <2>2. UNCHANGED media /\ \A v \in Workers : QuietWorker(v)
    <3>1. UNCHANGED media
      BY Zenon, <1>2 DEF ReserveStorageUpload
    <3>2. media' # [media EXCEPT !.token = w, !.fresh = TRUE] \/ ~Reservable(w)
      BY Zenon, <1>1, <3>1, NoOneAssumption DEF Reservable, MediaRow
    <3>3. worker' \in NotReserved(w) \/ worker' = Goto(w, FailStep(w, TRUE))
      BY Zenon, <3>2 DEF ReserveStorageUpload
    <3> QED BY Zenon, <3>1, <3>3, QuietGoto
  <2> QED BY Zenon, <2>1, <2>2
<1>3. CASE Reservable(w) /\ ~UNCHANGED media
  <2>1. /\ media.state = "pending" /\ media.token = NoOne
        /\ media.generation = worker[w].generation
    BY Zenon, <1>3 DEF Reservable
  <2>2. /\ media'.state = "pending" /\ media'.token = w
        /\ media'.generation = media.generation
    BY Zenon, <1>1, <1>3, <2>1 DEF ReserveStorageUpload, MediaRow
  <2>3. PICK pc \in {"dispatch", "fail_retry", "fail_terminal"} :
           worker' = Goto(w, pc)
    BY Zenon, <1>3 DEF ReserveStorageUpload, FailStep
  <2>4. \A v \in Workers :
           /\ worker'[v].generation = worker[v].generation
           /\ worker'[v].pc = IF v = w THEN pc ELSE worker[v].pc
           /\ worker'[v].answer = IF v = w THEN "none" ELSE worker[v].answer
    <3>1. pc \in HandlerSteps \cup Results
      BY Zenon DEF HandlerSteps
    <3> QED BY SMTT(40), <1>1, <2>3, <3>1, GotoValues
  <2>5. UNCHANGED <<jobs, inflight, messages>>
    BY Zenon DEF ReserveStorageUpload, telegram
  \* Nobody else works on the generation: it would hold the token.
  <2>6. \A v \in Workers : worker[v].pc \in Acting
                              => worker[v].generation # media.generation
    BY Zenon, <2>1, NoOneAssumption DEF IInv, ActingOwnsToken
  <2>7. NoEffect(media.generation)
    BY Zenon, <2>1 DEF IInv, UnreservedIsUntouched
  <2>8. TokenIsPending'
    BY Zenon, <2>2 DEF TokenIsPending
  <2>9. ActingIsCurrent' /\ ActingOwnsToken' /\ ActingAlone'
    BY SMTT(40), <2>1, <2>2, <2>4, <2>6 DEF IInv, ActingIsCurrent, ActingOwnsToken, ActingAlone
  <2>10. UnsentHasNoEffect'
    BY SMTT(40), <2>1, <2>4, <2>5, <2>7 DEF IInv, UnsentHasNoEffect, Unsent, NoEffect
  <2>11. SentHasEffect'
    BY Zenon, <2>4, <2>5 DEF IInv, SentHasEffect, Sent
  <2>12. UnreservedIsUntouched' /\ ReadyIsStored'
    BY Zenon, <2>2, NoOneAssumption DEF UnreservedIsUntouched, ReadyIsStored
  <2>13. FutureIsUntouched' /\ WorkersAreBehind' /\ OneEffect'
    BY Zenon, <2>2, <2>4, <2>5
    DEF IInv, FutureIsUntouched, NoEffect, WorkersAreBehind, OneEffect
  <2> QED BY Zenon, <2>8, <2>9, <2>10, <2>11, <2>12, <2>13 DEF IInv
<1> QED BY Zenon, <1>2, <1>3

LEMMA DispatchPreserves ==
    ASSUME IInv, TypeOK', NEW w \in Workers, DispatchUpload(w)
    PROVE  IInv'
<1> DEFINE g == worker[w].generation
<1>1. /\ TypeOK /\ media \in MediaRow /\ g \in Generations
      /\ worker[w].pc = "dispatch" /\ UNCHANGED <<media, jobs, messages>>
  BY Zenon DEF IInv, TypeOK, Worker, DispatchUpload, At
<1>2. PICK pc \in {"upload", "release_cancelled", "release_staging"} :
         /\ worker' = Goto(w, pc)
         /\ \/ pc = "upload" /\ inflight' = [inflight EXCEPT ![g] = @ \cup {w}]
            \/ pc # "upload" /\ UNCHANGED inflight
  BY Zenon DEF DispatchUpload
<1>3. \A v \in Workers :
         /\ worker'[v].generation = worker[v].generation
         /\ worker'[v].pc = IF v = w THEN pc ELSE worker[v].pc
         /\ worker'[v].answer = IF v = w THEN "none" ELSE worker[v].answer
  <2>1. pc \in HandlerSteps \cup Results
    BY Zenon DEF HandlerSteps
  <2> QED BY <1>1, <1>2, <2>1, GotoValues
<1>4. NoEffect(g)
  BY Zenon, <1>1 DEF IInv, UnsentHasNoEffect, Unsent
<1>5. \A v \in Workers : v # w /\ worker[v].pc \in Acting => worker[v].generation # g
  BY Zenon, <1>1 DEF IInv, ActingAlone, Acting
<1>6. \A h \in Generations : h # g => inflight'[h] = inflight[h]
  BY Zenon, <1>1, <1>2 DEF TypeOK
<1>7. inflight'[g] = {} \/ (pc = "upload" /\ inflight'[g] = {w})
  BY <1>1, <1>2, <1>4 DEF TypeOK, NoEffect
<1> HIDE DEF g
<1>8. pc \in Acting /\ worker[w].pc \in Acting
  BY Zenon, <1>1 DEF Acting, Releasing
<1>9. TokenIsPending' /\ ActingIsCurrent' /\ ActingOwnsToken' /\ ActingAlone'
  BY SMTT(40), <1>1, <1>3, <1>8
  DEF IInv, TokenIsPending, ActingIsCurrent, ActingOwnsToken, ActingAlone
<1>10. UnsentHasNoEffect'
  <2> SUFFICES ASSUME NEW v \in Workers, Unsent(v)'
               PROVE  /\ messages'[worker'[v].generation] = 0
                      /\ inflight'[worker'[v].generation] = {}
    BY Zenon DEF UnsentHasNoEffect, NoEffect
  <2>1. CASE v = w
    <3>1. pc # "upload"
      BY Zenon, <1>3, <2>1 DEF Unsent, Releasing
    <3> QED BY Zenon, <1>1, <1>3, <1>4, <1>7, <2>1, <3>1 DEF NoEffect, g
  <2>2. CASE v # w
    <3>1. Unsent(v) /\ worker[v].pc \in Acting
      BY Zenon, <1>3, <2>2 DEF Unsent, Acting, Releasing
    <3>2. worker[v].generation # g /\ worker[v].generation \in Generations
      BY Zenon, <1>1, <1>5, <2>2, <3>1 DEF TypeOK, Worker
    <3>3. NoEffect(worker[v].generation)
      BY Zenon, <3>1 DEF IInv, UnsentHasNoEffect
    <3> QED BY Zenon, <1>1, <1>3, <1>6, <3>2, <3>3 DEF NoEffect
  <2> QED BY Zenon, <2>1, <2>2
<1>11. SentHasEffect'
  BY Zenon, <1>1, <1>2, <1>3 DEF IInv, SentHasEffect, Sent
<1>12. UnreservedIsUntouched'
  <2>1. media.state = "pending" /\ media.token = NoOne => media.generation # g
    BY Zenon, <1>8, NoOneAssumption DEF IInv, ActingOwnsToken, g
  <2> QED BY Zenon, <1>1, <1>6, <2>1 DEF IInv, UnreservedIsUntouched, NoEffect, MediaRow
<1>13. FutureIsUntouched'
  <2>1. g <= media.generation
    BY Zenon DEF IInv, WorkersAreBehind, g
  <2>2. \A h \in Generations : h > media.generation => h # g
    BY SMTT(40), <1>1, <2>1, StorageGenerationAssumption DEF MediaRow, Generations
  <2> QED BY ZenonT(40), <1>1, <1>6, <2>2 DEF IInv, FutureIsUntouched, NoEffect
<1>14. WorkersAreBehind' /\ ReadyIsStored'
  BY Zenon, <1>1, <1>3 DEF IInv, WorkersAreBehind, ReadyIsStored
<1>15. OneEffect'
  <2> SUFFICES ASSUME NEW h \in Generations
               PROVE  (\/ messages[h] = 0 /\ \A u, v \in inflight[h] : u = v
                       \/ messages[h] = 1 /\ inflight[h] = {})'
    BY Zenon DEF OneEffect
  <2>1. CASE h = g
    BY Zenon, <1>1, <1>4, <1>7, <2>1 DEF NoEffect
  <2>2. CASE h # g
    BY <1>1, <1>6, <2>2 DEF IInv, OneEffect
  <2> QED BY Zenon, <2>1, <2>2
<1> QED BY Zenon, <1>9, <1>10, <1>11, <1>12, <1>13, <1>14, <1>15 DEF IInv

LEMMA ReleasePreserves ==
    ASSUME IInv, TypeOK', NEW w \in Workers, ReleaseStorageUpload(w)
    PROVE  IInv'
<1>1. /\ TypeOK /\ media \in MediaRow /\ worker[w].pc \in Releasing
      /\ UNCHANGED <<jobs, inflight, messages>>
  BY Zenon DEF IInv, TypeOK, ReleaseStorageUpload, Releasing, telegram
<1>2. PICK pc \in QuietSteps : worker' = Goto(w, pc)
  <2>1. \A b \in BOOLEAN : AfterRelease(w, b) \in QuietSteps
    BY Zenon, <1>1, QuietGoto DEF AfterRelease, At, Releasing, QuietSteps, Results
  <2> QED BY Zenon, <2>1 DEF ReleaseStorageUpload
<1>3. \A v \in Workers : QuietWorker(v)
  BY Zenon, <1>2, QuietGoto
<1>4. CASE UNCHANGED media
  BY Zenon, <1>1, <1>3, <1>4, QuietFacts, QuietStep DEF telegram
<1>5. CASE ~UNCHANGED media
  <2>1. media.token = w /\ media' = MediaIn("pending")
    BY Zenon, <1>5 DEF ReleaseStorageUpload, OwnsReservation
  <2>2. /\ media'.state = "pending" /\ media'.token = NoOne
        /\ media'.generation = media.generation
    BY Zenon, <1>1, <2>1, MediaInFacts
  <2>3. \A v \in Workers :
           /\ worker'[v].generation = worker[v].generation
           /\ worker'[v].pc = IF v = w THEN pc ELSE worker[v].pc
           /\ worker'[v].answer = IF v = w THEN "none" ELSE worker[v].answer
    <3>1. pc \in HandlerSteps \cup Results
      BY Zenon DEF HandlerSteps, QuietSteps
    <3> QED BY Zenon, <1>1, <1>2, <3>1, GotoValues
  <2>4. pc \notin Acting /\ pc # "upload" /\ pc # "complete" /\ pc \notin Releasing
        /\ pc # "dispatch"
    BY Zenon DEF QuietSteps, Acting, Releasing, Results
  <2>5. media.state = "pending" /\ worker[w].generation = media.generation
    BY Zenon, <1>1, <2>1, NoOneAssumption
    DEF IInv, TokenIsPending, ActingIsCurrent, Acting
  <2>6. NoEffect(media.generation)
    BY Zenon, <1>1, <2>5 DEF IInv, UnsentHasNoEffect, Unsent
  <2>7. TokenIsPending' /\ ActingIsCurrent' /\ ReadyIsStored'
    BY Zenon, <2>2, NoOneAssumption DEF TokenIsPending, ActingIsCurrent, ReadyIsStored
  <2>8. ActingOwnsToken' /\ ActingAlone'
    BY <2>1, <2>2, <2>3, <2>4, <2>5 DEF IInv, ActingOwnsToken, ActingAlone
  <2>9. UnsentHasNoEffect' /\ SentHasEffect'
    BY ZenonT(40), <1>1, <2>3, <2>4
    DEF IInv, UnsentHasNoEffect, Unsent, SentHasEffect, Sent, NoEffect
  <2>10. UnreservedIsUntouched'
    BY Zenon, <1>1, <2>2, <2>6 DEF UnreservedIsUntouched, NoEffect
  <2>11. FutureIsUntouched' /\ WorkersAreBehind' /\ OneEffect'
    BY Zenon, <1>1, <2>2, <2>3
    DEF IInv, FutureIsUntouched, NoEffect, WorkersAreBehind, OneEffect
  <2> QED BY Zenon, <2>7, <2>8, <2>9, <2>10, <2>11 DEF IInv
<1> QED BY Zenon, <1>4, <1>5

LEMMA ReturnPreserves ==
    ASSUME IInv, TypeOK', NEW w \in Workers, UploadReturns(w)
    PROVE  IInv'
<1>1. /\ TypeOK /\ worker[w].pc = "upload"
      /\ UNCHANGED <<media, jobs, inflight, messages>>
  BY Zenon DEF IInv, UploadReturns, At, telegram
<1>2. PICK pc \in {"mark", "complete", "release_retry", "release_fail"} :
         /\ worker' = Goto(w, pc)
         /\ pc = "complete" => worker[w].answer = "accepted"
         /\ pc \in Releasing => worker[w].answer = "refused"
  BY Zenon DEF UploadReturns, Releasing
<1>3. \A v \in Workers :
         /\ worker'[v].generation = worker[v].generation
         /\ worker'[v].pc = IF v = w THEN pc ELSE worker[v].pc
         /\ worker'[v].answer = IF v = w THEN "none" ELSE worker[v].answer
  <2>1. pc \in HandlerSteps \cup Results
    BY Zenon DEF HandlerSteps
  <2> QED BY Zenon, <1>1, <1>2, <2>1, GotoValues
<1>4. worker[w].pc \in Acting
  BY Zenon, <1>1 DEF Acting
<1>5. TokenIsPending' /\ ActingIsCurrent' /\ ActingOwnsToken' /\ ActingAlone'
  BY ZenonT(40), <1>1, <1>3, <1>4
  DEF IInv, TokenIsPending, ActingIsCurrent, ActingOwnsToken, ActingAlone
<1>6. UnsentHasNoEffect' /\ SentHasEffect'
  BY SMTT(40), <1>1, <1>2, <1>3
  DEF IInv, UnsentHasNoEffect, Unsent, SentHasEffect, Sent, NoEffect, Releasing
<1>7. /\ UnreservedIsUntouched' /\ FutureIsUntouched' /\ WorkersAreBehind'
      /\ OneEffect' /\ ReadyIsStored'
  BY Zenon, <1>1, <1>3 DEF IInv, UnreservedIsUntouched, FutureIsUntouched, NoEffect,
                    WorkersAreBehind, OneEffect, ReadyIsStored
<1> QED BY Zenon, <1>5, <1>6, <1>7 DEF IInv

\* Telegram decides an upload: it was the only effect of its generation.
LEMMA DecisionPreserves ==
    ASSUME IInv, TypeOK', NEW w \in Workers, NEW g \in Generations,
           Deliver(w, g) \/ Refuse(w, g)
    PROVE  IInv'
<1>1. TypeOK /\ UNCHANGED <<media, jobs>> /\ w \in inflight[g]
  BY Zenon DEF IInv, Deliver, Refuse
<1>2. messages[g] = 0 /\ \A u \in inflight[g] : u = w
  BY Zenon, <1>1 DEF IInv, OneEffect
<1>3. inflight'[g] = {} /\ \A h \in Generations : h # g => inflight'[h] = inflight[h]
  BY SMTT(40), <1>1, <1>2 DEF Deliver, Refuse, TypeOK
<1>4. PICK a \in {"accepted", "refused"} :
         /\ worker' = Answered(w, g, a)
         /\ messages'[g] = IF a = "accepted" THEN 1 ELSE 0
         /\ \A h \in Generations : h # g => messages'[h] = messages[h]
  BY <1>1, <1>2 DEF Deliver, Refuse, TypeOK
<1>5. \A v \in Workers :
         /\ worker'[v].pc = worker[v].pc
         /\ worker'[v].generation = worker[v].generation
         /\ worker'[v].answer =
               IF v = w /\ worker[w].pc = "upload" /\ worker[w].generation = g
               THEN a ELSE worker[v].answer
  BY SMTT(40), <1>1, <1>4 DEF Answered, At, TypeOK, Worker
<1>6. \A v \in Workers : worker[v].generation \in Generations
  BY Zenon, <1>1 DEF TypeOK, Worker
<1>7. TokenIsPending' /\ ActingIsCurrent' /\ ActingOwnsToken' /\ ActingAlone'
  BY SMTT(40), <1>1, <1>5
  DEF IInv, TokenIsPending, ActingIsCurrent, ActingOwnsToken, ActingAlone
<1>8. UnsentHasNoEffect'
  <2> SUFFICES ASSUME NEW v \in Workers, Unsent(v)'
               PROVE  /\ messages'[worker'[v].generation] = 0
                      /\ inflight'[worker'[v].generation] = {}
    BY Zenon DEF UnsentHasNoEffect, NoEffect
  <2>1. CASE Unsent(v)
    <3>1. NoEffect(worker[v].generation)
      BY Zenon, <2>1 DEF IInv, UnsentHasNoEffect
    <3>2. worker[v].generation # g
      BY Zenon, <1>1, <3>1 DEF NoEffect
    <3> QED BY SMTT(40), <1>3, <1>4, <1>5, <1>6, <3>1, <3>2 DEF NoEffect
  <2>2. CASE ~Unsent(v)
    <3>1. worker[v].generation = g /\ a = "refused"
      BY Zenon, <1>5, <2>2 DEF Unsent
    <3> QED BY Zenon, <1>3, <1>4, <1>5, <3>1
  <2> QED BY Zenon, <2>1, <2>2
<1>9. SentHasEffect'
  <2> SUFFICES ASSUME NEW v \in Workers, Sent(v)'
               PROVE  messages'[worker'[v].generation] > 0
    BY Zenon DEF SentHasEffect
  <2>1. CASE Sent(v)
    <3>1. messages[worker[v].generation] > 0
      BY Zenon, <2>1 DEF IInv, SentHasEffect
    <3>2. worker[v].generation # g
      BY SMTT(40), <1>2, <3>1
    <3> QED BY Zenon, <1>4, <1>5, <1>6, <3>1, <3>2
  <2>2. CASE ~Sent(v)
    <3>1. worker[v].generation = g /\ a = "accepted"
      BY Zenon, <1>5, <2>2 DEF Sent
    <3> QED BY SMTT(40), <1>4, <1>5, <3>1
  <2> QED BY Zenon, <2>1, <2>2
<1>10. UnreservedIsUntouched'
  <2>1. media.state = "pending" /\ media.token = NoOne => media.generation # g
    BY Zenon, <1>1 DEF IInv, UnreservedIsUntouched, NoEffect
  <2> QED BY Zenon, <1>1, <1>3, <1>4, <2>1
          DEF IInv, UnreservedIsUntouched, NoEffect, TypeOK, MediaRow
<1>11. FutureIsUntouched'
  <2>1. ~(g > media.generation)
    BY Zenon, <1>1 DEF IInv, FutureIsUntouched, NoEffect
  <2> QED BY Zenon, <1>1, <1>3, <1>4, <2>1 DEF IInv, FutureIsUntouched, NoEffect
<1>12. WorkersAreBehind'
  BY Zenon, <1>1, <1>5 DEF IInv, WorkersAreBehind
<1>13. OneEffect'
  BY SMTT(40), <1>3, <1>4 DEF IInv, OneEffect
<1>14. ReadyIsStored'
  BY <1>1, <1>2, <1>4 DEF IInv, ReadyIsStored
<1> QED BY Zenon, <1>7, <1>8, <1>9, <1>10, <1>11, <1>12, <1>13, <1>14 DEF IInv

LEMMA ResetPreserves ==
    ASSUME IInv, TypeOK', ResetStorageUpload
    PROVE  IInv'
<1>1. TypeOK /\ media \in MediaRow /\ UNCHANGED <<worker, inflight, messages>>
  BY Zenon DEF IInv, TypeOK, ResetStorageUpload, telegram
<1>2. /\ media.generation \in Nat /\ Generations \subseteq Nat
      /\ media.generation + 1 \in Generations
  BY <1>1, StorageGenerationAssumption DEF MediaRow, Generations, ResetStorageUpload
<1>3. /\ media'.state = "pending" /\ media'.token = NoOne
      /\ media'.generation = media.generation + 1
  <2>1. /\ MediaIn("pending") \in MediaRow
        /\ MediaIn("pending").state = "pending" /\ MediaIn("pending").token = NoOne
        /\ MediaIn("pending").generation = media.generation
    BY Zenon, <1>1, MediaInFacts
  <2> QED BY Zenon, <2>1 DEF ResetStorageUpload, MediaRow
<1>4. \A g \in Generations : g > media.generation + 1 => jobs'[g] = jobs[g]
  <2>1. \A g \in Generations : g # media.generation + 1 => jobs'[g] = jobs[g]
    BY Zenon, <1>1 DEF ResetStorageUpload, TypeOK
  <2>2. \A g, n \in Nat : g > n + 1 => g # n + 1
    OBVIOUS
  <2> QED BY Zenon, <1>2, <2>1, <2>2
<1>5. \A w \in Workers : /\ worker[w].generation \in Generations
                         /\ worker[w].generation <= media.generation
  BY Zenon, <1>1 DEF IInv, WorkersAreBehind, TypeOK, Worker
<1>6. TokenIsPending' /\ ActingIsCurrent' /\ ReadyIsStored'
  BY Zenon, <1>3, NoOneAssumption DEF TokenIsPending, ActingIsCurrent, ReadyIsStored
<1>7. ActingOwnsToken' /\ WorkersAreBehind'
  <2>1. \A w \in Workers : /\ worker[w].generation # media.generation + 1
                           /\ worker[w].generation <= media.generation + 1
    <3>1. \A m, n \in Nat : m <= n => m # n + 1 /\ m <= n + 1
      OBVIOUS
    <3> QED BY <1>2, <1>5, <3>1, ZenonT(60)
  <2> QED BY Zenon, <1>1, <1>3, <2>1 DEF ActingOwnsToken, WorkersAreBehind
<1>8. ActingAlone' /\ UnsentHasNoEffect' /\ SentHasEffect' /\ OneEffect'
  BY Zenon, <1>1 DEF IInv, ActingAlone, UnsentHasNoEffect, Unsent, NoEffect, SentHasEffect,
              Sent, OneEffect
<1>9. UnreservedIsUntouched' /\ FutureIsUntouched'
  <2>1. /\ media.generation + 1 > media.generation
        /\ \A g \in Generations : g > media.generation + 1 => g > media.generation
    BY <1>2
  <2> QED BY Zenon, <1>1, <1>2, <1>3, <1>4, <2>1
          DEF IInv, UnreservedIsUntouched, FutureIsUntouched, NoEffect
<1> QED BY Zenon, <1>6, <1>7, <1>8, <1>9 DEF IInv

LEMMA QuietOtherPreserves ==
    ASSUME IInv, TypeOK',
           \/ \E w \in Workers, g \in Generations : ClaimNext(w, g)
           \/ \E g \in Generations : LeaseExpires(g) \/ RecoverStorageJob(g)
                                        \/ AttachStorageUpload(g)
           \/ ReservationAges \/ OperatorMarkUnknown \/ BeginWorkspaceCleanup
    PROVE  IInv'
<1> DEFINE Quiet == \A v \in Workers : QuietWorker(v)
<1>1. TypeOK /\ media \in MediaRow /\ FutureIsUntouched
  BY Zenon DEF IInv, TypeOK
<1>2. UNCHANGED worker => Quiet
  BY Zenon, QuietFacts
<1>3. UNCHANGED media => QuietMedia
  BY Zenon, QuietFacts
<1>4. UNCHANGED jobs => QuietJobs
  BY Zenon, QuietFacts
<1> HIDE DEF Quiet
<1>5. ASSUME NEW w \in Workers, NEW g \in Generations, ClaimNext(w, g)
      PROVE  IInv'
  <2>1. ~(g > media.generation)
    BY Zenon, <1>1, <1>5 DEF ClaimNext, FutureIsUntouched
  <2>2. g <= media.generation
    BY <1>1, <2>1, StorageGenerationAssumption DEF MediaRow, Generations
  <2>3. QuietJobs
    BY Zenon, <1>1, <1>5, <2>1 DEF ClaimNext, QuietJobs, FutureIsUntouched, TypeOK
  <2>4. worker'[w].pc = "inspect" /\ worker'[w].generation = g
    BY Zenon, <1>1, <1>5 DEF ClaimNext, TypeOK, Idle
  <2>5. \A v \in Workers : v # w => worker'[v] = worker[v]
    BY ZenonT(40), <1>1, <1>5 DEF ClaimNext, TypeOK
  <2>6. Quiet
    BY Zenon, <2>2, <2>4, <2>5 DEF Quiet, QuietWorker, Acting, Releasing
  <2> QED BY Zenon, <2>3, <2>6, <1>3, <1>5, QuietStep DEF ClaimNext, Quiet
<1>6. ASSUME NEW g \in Generations, LeaseExpires(g)
      PROVE  IInv'
  <2>1. \A h \in Generations : jobs'[h].state = jobs[h].state
    BY SMTT(40), <1>1, <1>6 DEF LeaseExpires, TypeOK, JobRow
  <2>2. QuietJobs
    BY Zenon, <1>1, <2>1 DEF QuietJobs, FutureIsUntouched
  <2> QED BY Zenon, <2>2, <1>2, <1>3, <1>6, QuietStep DEF LeaseExpires, Quiet
<1>7. ASSUME NEW g \in Generations, RecoverStorageJob(g)
      PROVE  IInv'
  <2>1. jobs[g].attempt \in 0 .. MaxAttempts /\ jobs[g].state # "absent"
    BY Zenon, <1>1, <1>7 DEF RecoverStorageJob, TypeOK, JobRow
  <2>2. QuietJobs
    BY Zenon, <2>1, <1>7, RefundedType, QuietFacts DEF RecoverStorageJob
  <2>3. QuietMedia
    BY Zenon, <1>3, <1>7, QuietFacts DEF RecoverStorageJob
  <2> QED BY ZenonT(40), <2>2, <2>3, <1>2, <1>7, QuietStep DEF RecoverStorageJob, Quiet
<1>8. ASSUME NEW g \in Generations, AttachStorageUpload(g)
      PROVE  IInv'
  <2> DEFINE ready == MediaReady(g)
  <2>1. /\ ready.state = "ready" /\ ready.token = NoOne
        /\ ready.generation = media.generation
        /\ ready.path = FALSE /\ ready.receipt = g
    BY Zenon, <1>1, MediaReadyFacts
  <2>2. media' = ready /\ messages[g] > 0
    BY Zenon, <1>8 DEF AttachStorageUpload
  <2> HIDE DEF ready
  <2>3. QuietMedia
    BY Zenon, <2>1, <2>2 DEF QuietMedia
  <2> QED BY Zenon, <2>3, <1>2, <1>4, <1>8, QuietStep DEF AttachStorageUpload, Quiet
<1>9. CASE ReservationAges
  <2>1. QuietMedia
    BY Zenon, <1>1, <1>9 DEF ReservationAges, QuietMedia, MediaRow
  <2> QED BY Zenon, <2>1, <1>2, <1>4, <1>9, QuietStep DEF ReservationAges, Quiet
<1>10. CASE OperatorMarkUnknown
  <2>1. QuietMedia /\ QuietJobs
    BY Zenon, <1>10, QuietFacts DEF OperatorMarkUnknown
  <2> QED BY Zenon, <2>1, <1>2, <1>10, QuietStep DEF OperatorMarkUnknown, Quiet
<1>11. CASE BeginWorkspaceCleanup
  <2>1. QuietMedia
    BY Zenon, <1>1, <1>11 DEF BeginWorkspaceCleanup, QuietMedia, MediaRow
  <2> QED BY Zenon, <2>1, <1>2, <1>4, <1>11, QuietStep DEF BeginWorkspaceCleanup, Quiet
<1> QED BY Zenon, <1>5, <1>6, <1>7, <1>8, <1>9, <1>10, <1>11

-----------------------------------------------------------------------------
(* The inductive invariant and what follows from it *)

LEMMA InvariantInit == Init => IInv
<1> SUFFICES ASSUME Init PROVE IInv
  BY Zenon
<1>1. TypeOK
  BY Zenon, TypeInit
<1>2. \A w \in Workers : worker[w].pc = "idle" /\ worker[w].generation = 0
  BY Zenon DEF Init, Idle
<1>3. \A g \in Generations : NoEffect(g)
  BY Zenon DEF Init, NoEffect
<1>4. /\ media.state = "pending" /\ media.token = NoOne /\ media.generation = 0
      /\ 0 \in Generations
  BY SMTT(40), StorageGenerationAssumption DEF Init, Generations
<1>5. TokenIsPending /\ ActingIsCurrent /\ ActingOwnsToken /\ ActingAlone
  BY Zenon, <1>2, <1>4 DEF TokenIsPending, ActingIsCurrent, ActingOwnsToken, ActingAlone,
                    Acting, Releasing
<1>6. UnsentHasNoEffect /\ SentHasEffect
  BY Zenon, <1>2 DEF UnsentHasNoEffect, SentHasEffect, Unsent, Sent, Releasing
<1>7. UnreservedIsUntouched /\ WorkersAreBehind /\ ReadyIsStored
  BY SMTT(40), <1>2, <1>3, <1>4 DEF UnreservedIsUntouched, WorkersAreBehind, ReadyIsStored
<1>8. FutureIsUntouched
  <2>1. \A g \in Generations : g > 0 => jobs[g].state = "absent"
    BY StorageGenerationAssumption DEF Init, NoJob, Generations
  <2> QED BY Zenon, <1>3, <1>4, <2>1 DEF FutureIsUntouched
<1>9. OneEffect
  BY Zenon, <1>3 DEF OneEffect, NoEffect
<1> QED BY Zenon, <1>1, <1>5, <1>6, <1>7, <1>8, <1>9 DEF IInv

LEMMA InvariantStep == IInv /\ [Next]_vars => IInv'
<1> SUFFICES ASSUME IInv, [Next]_vars PROVE IInv'
  BY Zenon
<1>1. TypeOK'
  BY Zenon, TypeStep DEF IInv
<1>2. CASE UNCHANGED vars
  BY Zenon, <1>1, <1>2, QuietFacts, QuietStep DEF vars, telegram
<1>3. CASE Next
  BY Zenon, <1>1, <1>3, LinkPreserves, QuietHandlerPreserves, ReservePreserves,
     DispatchPreserves, ReleasePreserves, ReturnPreserves, DecisionPreserves,
     ResetPreserves, QuietOtherPreserves
  DEF Next, HandlerStep, OperatorStep
<1> QED BY Zenon, <1>2, <1>3

LEMMA Invariance == Spec => []IInv
BY InvariantInit, InvariantStep, PTL DEF Spec

(* In one generation the storage channel gets at most one message, and     *)
(* none is on its way when one is there: reserve_storage_upload hands the  *)
(* token of pending storage to one worker, and what was reserved and not   *)
(* provably released is never reserved again in that generation.           *)
THEOREM UploadedOnce == Spec => []OneUploadPerGeneration
<1>1. IInv => OneUploadPerGeneration
  <2> SUFFICES ASSUME IInv, NEW g \in Generations
               PROVE  messages[g] + Cardinality(inflight[g]) <= 1
    BY Zenon DEF OneUploadPerGeneration
  <2>1. CASE inflight[g] = {}
    BY SMTT(40), <2>1, FS_EmptySet DEF IInv, OneEffect
  <2>2. CASE inflight[g] # {}
    <3>1. PICK w \in inflight[g] : TRUE
      BY Zenon, <2>2
    <3>2. messages[g] = 0 /\ inflight[g] = {w}
      BY Zenon, <3>1 DEF IInv, OneEffect
    <3>3. Cardinality({w}) = 1
      BY Zenon, FS_Singleton
    <3> QED BY SMTT(40), <3>2, <3>3
  <2> QED BY Zenon, <2>1, <2>2
<1> QED BY <1>1, Invariance, PTL

(* Whoever dispatches, performs or records an upload of the current,       *)
(* pending generation holds the token that reserve_storage_upload wrote.   *)
THEOREM UploaderReserved == Spec => []UploaderOwnsReservation
<1>1. IInv => UploaderOwnsReservation
  BY Zenon DEF IInv, UploaderOwnsReservation, ActingOwnsToken, Acting
<1> QED BY <1>1, Invariance, PTL

(* Media that complete_storage_upload or attach_storage_upload made ready  *)
(* names a message that is in the storage channel.                         *)
THEOREM ReadyStored == Spec => []ReadyIsStored
<1>1. IInv => ReadyIsStored
  BY Zenon DEF IInv
<1> QED BY <1>1, Invariance, PTL

\* How each step may change the state of the storage.
LEMMA StorageMoves ==
    ASSUME IInv, Next
    PROVE  \/ media'.state = media.state
           \/ OperatorMarkUnknown
           \/ media.state # "ready" /\ media'.state # "ready"
           \/ media.state = "unknown"
           \/ media.state = "pending" /\ media'.receipt = media.generation
<1>1. media \in MediaRow
  BY Zenon DEF IInv, TypeOK
<1>2. \A s \in StorageStates : MediaIn(s).state = s
  BY Zenon, <1>1, MediaInFacts
<1>3. ASSUME NEW i \in Ingests, LinkStep(i)
      PROVE  UNCHANGED media
  BY Zenon, <1>3 DEF LinkStep, CompleteVideoIdentity, AcceptDuplicate, ReadStorageState,
              FinalizeIngest
<1>4. ASSUME NEW w \in Workers,
             \/ InspectMedia(w) \/ DispatchUpload(w) \/ UploadReturns(w)
             \/ AbandonUpload(w) \/ FailRetryable(w) \/ FailLinkedIngests(w)
             \/ Cancel(w) \/ Crash(w)
      PROVE  UNCHANGED media
  BY Zenon, <1>4 DEF InspectMedia, DispatchUpload, UploadReturns, AbandonUpload,
              FailRetryable, FailLinkedIngests, Cancel, Crash
<1>5. ASSUME NEW w \in Workers, NEW g \in Generations,
             ClaimNext(w, g) \/ Deliver(w, g) \/ Refuse(w, g)
      PROVE  UNCHANGED media
  BY Zenon, <1>5 DEF ClaimNext, Deliver, Refuse
<1>6. ASSUME NEW w \in Workers,
             \/ ReserveStorageUpload(w) \/ RenewStorageUpload(w)
             \/ CompleteStorageForMedia(w)
      PROVE  media'.state = media.state
  BY Zenon, <1>1, <1>6 DEF ReserveStorageUpload, RenewStorageUpload,
                    CompleteStorageForMedia, MediaRow
<1>7. ASSUME NEW w \in Workers, ReleaseStorageUpload(w)
      PROVE  media'.state = media.state
  BY Zenon, <1>2, <1>7, NoOneAssumption
  DEF IInv, TokenIsPending, ReleaseStorageUpload, OwnsReservation
<1>8. ASSUME NEW w \in Workers, CompleteStorageUpload(w)
      PROVE  \/ UNCHANGED media
             \/ media.state = "pending" /\ media'.receipt = media.generation
  <2>1. CASE Completes(w) /\ media' = MediaReady(worker[w].generation)
    <3>1. worker[w].generation = media.generation
      BY Zenon, <1>8, <2>1
      DEF IInv, ActingIsCurrent, Acting, CompleteStorageUpload, Completes,
          OwnsReservation, At
    <3>2. media.generation \in Generations
      BY Zenon, <1>1 DEF MediaRow
    <3>3. MediaReady(media.generation).receipt = media.generation
      BY Zenon, <1>1, <3>2, MediaReadyFacts
    <3> QED BY Zenon, <2>1, <3>1, <3>3 DEF Completes
  <2> QED BY Zenon, <2>1, <1>8 DEF CompleteStorageUpload
<1>9. ASSUME NEW w \in Workers,
             MarkStorageUploadUnknown(w) \/ FailMedia(w) \/ FinishJob(w)
      PROVE  UNCHANGED media \/ (media.state # "ready" /\ media'.state # "ready")
  <2>1. ReconcileStorageTerminal
           => UNCHANGED media \/ (media.state # "ready" /\ media'.state # "ready")
    BY Zenon, <1>1, <1>2 DEF ReconcileStorageTerminal, MediaRow
  <2> QED BY Zenon, <1>2, <1>9, <2>1
          DEF MarkStorageUploadUnknown, Completes, FailMedia, StorageFailed, FinishJob
<1>10. ASSUME NEW g \in Generations, LeaseExpires(g) \/ RecoverStorageJob(g)
       PROVE  UNCHANGED media \/ (media.state # "ready" /\ media'.state # "ready")
  BY Zenon, <1>2, <1>10 DEF LeaseExpires, RecoverStorageJob
<1>11. ReservationAges \/ BeginWorkspaceCleanup => media'.state = media.state
  BY Zenon, <1>1 DEF ReservationAges, BeginWorkspaceCleanup, MediaRow
<1>12. ResetStorageUpload => media.state # "ready" /\ media'.state # "ready"
  <2>1. /\ MediaIn("pending") \in MediaRow /\ MediaIn("pending").state = "pending"
    BY Zenon, <1>1, MediaInFacts
  <2> QED BY Zenon, <2>1 DEF IInv, ReadyIsStored, ResetStorageUpload, MediaRow
<1>13. ASSUME NEW g \in Generations, AttachStorageUpload(g)
       PROVE  media.state = "unknown"
  BY Zenon, <1>13 DEF AttachStorageUpload
<1> QED BY Zenon, <1>3, <1>4, <1>5, <1>6, <1>7, <1>8, <1>9, <1>10, <1>11, <1>12, <1>13
        DEF Next, HandlerStep, OperatorStep

(* Stored media stays stored: the only step that takes ready away is the   *)
(* operator's mark-unknown; reset_storage_upload cannot, because ready     *)
(* media has given up its local bytes.                                     *)
THEOREM ReadyKept == Spec => ReadyIsKept
<1>1. IInv /\ [Next]_vars
         => [media.state = "ready" /\ media'.state # "ready"
                => OperatorMarkUnknown]_vars
  <2> SUFFICES ASSUME IInv, Next, media.state = "ready", media'.state # "ready"
               PROVE  OperatorMarkUnknown
    BY Zenon DEF vars
  <2> QED BY Zenon, StorageMoves
<1> QED BY <1>1, Invariance, PTL DEF Spec, ReadyIsKept

(* A message that complete_storage_upload records was uploaded for the     *)
(* generation that is current when it is recorded, although reset opens    *)
(* new generations while old uploads are still on their way.               *)
THEOREM LandsInItsGeneration == Spec => LateUploadNeverLands
<1>1. IInv /\ [Next]_vars
         => [media.state = "pending" /\ media'.state = "ready"
                => media'.receipt = media.generation]_vars
  <2> SUFFICES ASSUME IInv, Next, media.state = "pending", media'.state = "ready"
               PROVE  media'.receipt = media.generation
    BY Zenon DEF vars
  <2>1. ~OperatorMarkUnknown
    BY Zenon, MediaInFacts DEF IInv, TypeOK, OperatorMarkUnknown
  <2> QED BY Zenon, <2>1, StorageMoves
<1> QED BY <1>1, Invariance, PTL DEF Spec, LateUploadNeverLands

-----------------------------------------------------------------------------
(* The ingests of a video.  Their agreement with the media row is not      *)
(* inductive: fail_storage_for_media writes the ingests it locked earlier. *)
(* The invariant adds what its row locks keep true.                        *)


\* Media of a video is linked under its row lock: no finalization is open.
NothingSeen == \A i \in Ingests : seen[i] = "nothing"

\* Whoever writes an ingest needs it unlocked, so the locked ones still wait.
LockedStillWait == \A w \in Workers : worker[w].rows \subseteq StorageWaiting

LockedOnce ==
    \A v, w \in Workers : v # w => worker[v].rows \cap worker[w].rows = {}

\* IngestsAgreeWithMedia, one implication for each storage state.
Agreement ==
    \A i \in Ingests : ingests[i] # "processing" =>
        /\ media.state = "pending" => ingests[i] \in {"storing", "failed_retryable"}
        /\ media.state = "ready" => ingests[i] = "completed"
        /\ media.state = "unknown" => ingests[i] = "failed_terminal"
        /\ media.state = "missing" => ingests[i] # "completed"

PublicationKept ==
    \A i \in Publishing : ingests[i] = "completed" => i \in materialize

AInv ==
    Video => /\ NothingSeen /\ LockedStillWait /\ LockedOnce
             /\ Agreement /\ PublicationKept

USE DEF StorageStates

-----------------------------------------------------------------------------
(* What a step does to the ingests, and to the rows that are locked *)

\* An ingest of a video is linked.
Links(i) ==
    /\ ingests[i] = "processing"
    /\ media'.state = media.state
    /\ \/ /\ media.state = "ready"
          /\ ingests' = [ingests EXCEPT ![i] = "completed"]
          /\ materialize' = materialize \cup ({i} \cap Publishing)
       \/ /\ media.state = "pending"
          /\ ingests' = [ingests EXCEPT ![i] = "storing"]
          /\ UNCHANGED materialize
       \/ /\ media.state \in {"unknown", "missing"}
          /\ ingests' = [ingests EXCEPT ![i] = "failed_terminal"]
          /\ UNCHANGED materialize

BecomesReady == CompleteIngests /\ media.state # "missing" /\ media'.state = "ready"

CompletesStored ==
    /\ Write(Waiting, "completed")
    /\ UNCHANGED materialize
    /\ media.state = "ready" /\ media'.state = "ready"

GivesUp == FailIngests /\ UNCHANGED materialize /\ media'.state = "unknown"

Retries ==
    /\ Write(StorageWaiting, "failed_retryable")
    /\ UNCHANGED materialize
    /\ media'.state = media.state

FailsLocked(w) ==
    /\ ingests' = Moved(worker[w].rows, "failed_terminal")
    /\ UNCHANGED materialize
    /\ media'.state = IF media.state = "pending" THEN "missing" ELSE media.state
    /\ worker'[w].rows = {}

Resets == Write(Linked, "storing") /\ UNCHANGED materialize /\ media'.state = "pending"

LeavesIngests == UNCHANGED <<ingests, materialize>> /\ media'.state = media.state

IngestEffect ==
    \/ LeavesIngests
    \/ \E i \in Ingests : Links(i)
    \/ BecomesReady \/ CompletesStored \/ GivesUp \/ Retries \/ Resets
    \/ \E w \in Workers : FailsLocked(w)

\* No worker but one that fails the waiting ingests locks rows.
KeepsLocks == \A v \in Workers : worker'[v].rows \in {worker[v].rows, {}}

Locks(w) ==
    /\ Unlocked(StorageWaiting)
    /\ worker'[w].rows = StorageWaiting
    /\ \A v \in Workers : v # w => worker'[v].rows = worker[v].rows
    /\ LeavesIngests

\* Goto gives up the rows of its worker.
LEMMA GotoRows ==
    ASSUME TypeOK, NEW w \in Workers, NEW pc
    PROVE  /\ Goto(w, pc)[w].rows = {}
           /\ \A v \in Workers : v # w => Goto(w, pc)[v].rows = worker[v].rows
<1>1. worker[w] \in Worker /\ worker \in [Workers -> Worker]
  BY Zenon DEF TypeOK
<1> DEFINE r == IF pc \in Results
                THEN [Idle EXCEPT !.pc = pc, !.generation = worker[w].generation]
                ELSE [worker[w] EXCEPT !.pc = pc, !.answer = "none", !.rows = {}]
<1>2. r.rows = {}
  <2>1. CASE pc \in Results
    BY Zenon, <2>1, <1>1 DEF Worker, Idle
  <2>2. CASE pc \notin Results
    BY Zenon, <2>2, <1>1 DEF Worker
  <2> QED BY Zenon, <2>1, <2>2
<1>3. Goto(w, pc) = [worker EXCEPT ![w] = r]
  BY Zenon DEF Goto
<1> HIDE DEF r
<1> QED BY Zenon, <1>1, <1>2, <1>3

\* What the disjuncts of the actions say of worker'.
LEMMA RowsKept ==
    ASSUME TypeOK, NEW w \in Workers
    PROVE  /\ UNCHANGED worker => KeepsLocks
           /\ \A pc : worker' = Goto(w, pc) => KeepsLocks
           /\ worker' \in EndsWell(w) => KeepsLocks
           /\ worker' \in NotReserved(w) => KeepsLocks
           /\ worker' = [worker EXCEPT ![w] = Idle] => KeepsLocks
<1>1. \A pc : worker' = Goto(w, pc) => KeepsLocks
  BY GotoRows DEF KeepsLocks
<1>2. worker' \in EndsWell(w) => KeepsLocks
  BY Zenon, <1>1 DEF EndsWell
<1>3. worker' \in NotReserved(w) => KeepsLocks
  BY Zenon, <1>1, <1>2 DEF NotReserved
<1>4. worker' = [worker EXCEPT ![w] = Idle] => KeepsLocks
  BY DEF TypeOK, KeepsLocks, Idle
<1> QED BY Zenon, <1>1, <1>2, <1>3, <1>4 DEF KeepsLocks

LockEffect == KeepsLocks \/ \E w \in Workers : Locks(w)

LEMMA LinkEffects ==
    ASSUME IInv, Video, NothingSeen, NEW i \in Ingests, LinkStep(i)
    PROVE  IngestEffect /\ LockEffect /\ NothingSeen'
<1>1. TypeOK /\ media.state \in StorageStates
  BY Zenon DEF IInv, TypeOK, MediaRow
<1>2. CompleteVideoIdentity(i) \/ AcceptDuplicate(i)
  BY Zenon DEF LinkStep, ReadStorageState, FinalizeIngest, NothingSeen
<1>3. UNCHANGED <<media, seen, worker>>
  BY Zenon, <1>2 DEF CompleteVideoIdentity, AcceptDuplicate
<1>4. Links(i)
  BY Zenon, <1>2, <1>3 DEF CompleteVideoIdentity, AcceptDuplicate,
                    AdvanceAfterMediaProcessing, Links
<1> QED BY Zenon, <1>1, <1>3, <1>4, StorageWorkersAssumption, RowsKept
        DEF IngestEffect, LockEffect, NothingSeen

LEMMA HandlerEffects ==
    ASSUME IInv, NothingSeen, NEW w \in Workers,
           HandlerStep(w) \/ RenewStorageUpload(w) \/ Cancel(w) \/ Crash(w)
    PROVE  IngestEffect /\ LockEffect /\ NothingSeen'
<1>1. /\ TypeOK /\ media \in MediaRow /\ media.state \in StorageStates
      /\ worker[w] \in Worker /\ worker[w].generation \in Generations
  BY Zenon DEF IInv, TypeOK, MediaRow, Worker
<1>2. \A s \in StorageStates : MediaIn(s).state = s
  BY Zenon, <1>1, MediaInFacts
<1>3. MediaReady(worker[w].generation).state = "ready"
  BY Zenon, <1>1, MediaReadyFacts
<1>4. \A pc : worker' = Goto(w, pc) => LockEffect
  BY Zenon, <1>1, RowsKept DEF LockEffect
<1>5. UNCHANGED worker \/ worker' \in EndsWell(w) \cup NotReserved(w)
         \/ worker' = [worker EXCEPT ![w] = Idle] => LockEffect
  BY Zenon, <1>1, RowsKept DEF LockEffect
<1>6. UNCHANGED seen
  BY Zenon DEF HandlerStep, InspectMedia, ReserveStorageUpload, DispatchUpload,
         ReleaseStorageUpload, UploadReturns, AbandonUpload, CompleteStorageUpload,
         MarkStorageUploadUnknown, CompleteStorageForMedia, FailRetryable,
         FailLinkedIngests, FailMedia, FinishJob, RenewStorageUpload, Cancel, Crash
<1>7. NothingSeen'
  BY Zenon, <1>6 DEF NothingSeen
<1>8. CASE InspectMedia(w) \/ DispatchUpload(w) \/ UploadReturns(w) \/ AbandonUpload(w)
  <2>1. LockEffect
    BY Zenon, <1>4, <1>8 DEF InspectMedia, DispatchUpload, UploadReturns, AbandonUpload
  <2>2. LeavesIngests
    BY Zenon, <1>8 DEF InspectMedia, DispatchUpload, UploadReturns, AbandonUpload,
                LeavesIngests
  <2> QED BY Zenon, <1>7, <2>1, <2>2 DEF IngestEffect
<1>9. CASE ReserveStorageUpload(w) \/ RenewStorageUpload(w)
  <2>1. LockEffect
    BY Zenon, <1>4, <1>5, <1>9 DEF ReserveStorageUpload, RenewStorageUpload
  <2>2. LeavesIngests
    BY Zenon, <1>1, <1>9 DEF ReserveStorageUpload, RenewStorageUpload, LeavesIngests, MediaRow
  <2> QED BY Zenon, <1>7, <2>1, <2>2 DEF IngestEffect
<1>10. CASE ReleaseStorageUpload(w)
  <2>1. LockEffect
    BY Zenon, <1>4, <1>10 DEF ReleaseStorageUpload
  <2>2. LeavesIngests
    BY Zenon, <1>2, <1>10, NoOneAssumption
    DEF ReleaseStorageUpload, LeavesIngests, OwnsReservation, IInv, TokenIsPending
  <2> QED BY Zenon, <1>7, <2>1, <2>2 DEF IngestEffect
<1>11. CASE CompleteStorageUpload(w)
  <2>1. LockEffect
    BY Zenon, <1>4, <1>11 DEF CompleteStorageUpload
  <2>2. LeavesIngests \/ BecomesReady
    BY Zenon, <1>3, <1>11 DEF CompleteStorageUpload, Completes, LeavesIngests, BecomesReady
  <2> QED BY Zenon, <1>7, <2>1, <2>2 DEF IngestEffect
<1>12. CASE MarkStorageUploadUnknown(w)
  <2>1. LockEffect
    BY Zenon, <1>4, <1>12 DEF MarkStorageUploadUnknown
  <2>2. LeavesIngests \/ GivesUp
    BY Zenon, <1>2, <1>12 DEF MarkStorageUploadUnknown, LeavesIngests, GivesUp
  <2> QED BY Zenon, <1>7, <2>1, <2>2 DEF IngestEffect
<1>13. CASE CompleteStorageForMedia(w)
  <2>1. LockEffect
    BY Zenon, <1>4, <1>5, <1>13 DEF CompleteStorageForMedia
  <2>2. LeavesIngests \/ BecomesReady
    BY Zenon, <1>1, <1>13 DEF CompleteStorageForMedia, LeavesIngests, BecomesReady, MediaRow
  <2> QED BY Zenon, <1>7, <2>1, <2>2 DEF IngestEffect
<1>14. CASE FailRetryable(w)
  <2>1. LockEffect
    BY Zenon, <1>4, <1>14 DEF FailRetryable
  <2>2. LeavesIngests \/ Retries
    BY Zenon, <1>14 DEF FailRetryable, LeavesIngests, Retries
  <2> QED BY Zenon, <1>7, <2>1, <2>2 DEF IngestEffect
<1>15. CASE FailLinkedIngests(w)
  <2>1. LeavesIngests
    BY Zenon, <1>15 DEF FailLinkedIngests, LeavesIngests
  <2>2. worker' = [worker EXCEPT ![w].pc = "fail_media", ![w].rows = StorageWaiting]
           => /\ worker'[w].rows = StorageWaiting
              /\ \A v \in Workers : v # w => worker'[v].rows = worker[v].rows
    BY <1>1 DEF TypeOK, Worker
  <2>3. LockEffect
    BY Zenon, <1>4, <1>15, <2>1, <2>2 DEF FailLinkedIngests, LockEffect, Locks
  <2> QED BY Zenon, <1>7, <2>1, <2>3 DEF IngestEffect
<1>16. CASE FailMedia(w)
  <2>1. LockEffect
    BY Zenon, <1>4, <1>16 DEF FailMedia
  <2>2. worker'[w].rows = {}
    BY Zenon, <1>1, <1>16, GotoRows DEF FailMedia
  <2>3. LeavesIngests \/ FailsLocked(w)
    BY Zenon, <1>2, <1>16, <2>2 DEF FailMedia, StorageFailed, LeavesIngests, FailsLocked
  <2> QED BY Zenon, <1>7, <2>1, <2>3 DEF IngestEffect
<1>17. CASE FinishJob(w)
  <2>1. LockEffect
    BY Zenon, <1>5, <1>17 DEF FinishJob
  <2>2. UNCHANGED materialize
    BY Zenon, <1>17 DEF FinishJob
  <2>3. CASE UNCHANGED <<media, ingests>>
    BY Zenon, <1>7, <2>1, <2>2, <2>3 DEF LeavesIngests, IngestEffect
  <2>4. CASE ReconcileStorageTerminal
    <3>1. LeavesIngests \/ CompletesStored \/ GivesUp
      BY Zenon, <1>1, <1>2, <2>2, <2>4
      DEF ReconcileStorageTerminal, LeavesIngests, CompletesStored, GivesUp
    <3> QED BY Zenon, <1>7, <2>1, <3>1 DEF IngestEffect
  <2> QED BY Zenon, <1>17, <2>3, <2>4 DEF FinishJob
<1>18. CASE Cancel(w)
  <2>1. LeavesIngests
    BY Zenon, <1>18 DEF Cancel, LeavesIngests
  <2>2. KeepsLocks
    BY Zenon, <1>1, <1>18 DEF Cancel, KeepsLocks, TypeOK, Worker
  <2> QED BY Zenon, <1>7, <2>1, <2>2 DEF IngestEffect, LockEffect
<1>19. CASE Crash(w)
  <2>1. LeavesIngests
    BY Zenon, <1>19 DEF Crash, LeavesIngests
  <2>2. LockEffect
    BY Zenon, <1>5, <1>19 DEF Crash
  <2> QED BY Zenon, <1>7, <2>1, <2>2 DEF IngestEffect
<1> QED BY Zenon, <1>8, <1>9, <1>10, <1>11, <1>12, <1>13, <1>14, <1>15, <1>16, <1>17,
           <1>18, <1>19 DEF HandlerStep

LEMMA OtherEffects ==
    ASSUME IInv, NothingSeen,
           \/ \E w \in Workers, g \in Generations :
                 ClaimNext(w, g) \/ Deliver(w, g) \/ Refuse(w, g)
           \/ \E g \in Generations : LeaseExpires(g) \/ RecoverStorageJob(g)
           \/ ReservationAges
           \/ OperatorStep
           \/ BeginWorkspaceCleanup
    PROVE  IngestEffect /\ LockEffect /\ NothingSeen'
<1>1. TypeOK /\ media \in MediaRow /\ media.state \in StorageStates
  BY Zenon DEF IInv, TypeOK, MediaRow
<1>2. /\ \A s \in StorageStates : MediaIn(s).state = s /\ MediaIn(s) \in MediaRow
      /\ \A g \in Generations : MediaReady(g).state = "ready"
  BY Zenon, <1>1, MediaInFacts, MediaReadyFacts
<1>3. UNCHANGED worker => LockEffect
  BY Zenon DEF LockEffect, KeepsLocks
<1>4. UNCHANGED seen => NothingSeen'
  BY Zenon DEF NothingSeen
<1>5. ASSUME NEW w \in Workers, NEW g \in Generations, ClaimNext(w, g)
      PROVE  IngestEffect /\ LockEffect /\ NothingSeen'
  <2>1. LeavesIngests
    BY Zenon, <1>5 DEF ClaimNext, LeavesIngests
  <2>2. KeepsLocks
    BY Zenon, <1>1, <1>5 DEF ClaimNext, KeepsLocks, TypeOK, Idle
  <2> QED BY Zenon, <1>4, <1>5, <2>1, <2>2 DEF ClaimNext, IngestEffect, LockEffect
<1>6. ASSUME NEW w \in Workers, NEW g \in Generations, Deliver(w, g) \/ Refuse(w, g)
      PROVE  IngestEffect /\ LockEffect /\ NothingSeen'
  <2>1. LeavesIngests
    BY Zenon, <1>6 DEF Deliver, Refuse, LeavesIngests
  <2>2. KeepsLocks
    <3>1. \A a : worker' = [worker EXCEPT ![w].answer = a] => KeepsLocks
      BY SMTT(40), <1>1 DEF KeepsLocks, TypeOK, Worker
    <3> QED BY Zenon, <1>6, <3>1 DEF Deliver, Refuse, Answered, KeepsLocks
  <2> QED BY Zenon, <1>4, <1>6, <2>1, <2>2 DEF Deliver, Refuse, IngestEffect, LockEffect
<1>7. ASSUME NEW g \in Generations, LeaseExpires(g) \/ RecoverStorageJob(g)
      PROVE  IngestEffect /\ LockEffect /\ NothingSeen'
  <2>1. LeavesIngests \/ CompletesStored \/ GivesUp
    BY Zenon, <1>1, <1>2, <1>7
    DEF LeaseExpires, RecoverStorageJob, LeavesIngests, CompletesStored, GivesUp
  <2> QED BY Zenon, <1>3, <1>4, <1>7, <2>1 DEF LeaseExpires, RecoverStorageJob, IngestEffect
<1>8. CASE ReservationAges \/ BeginWorkspaceCleanup
  <2>1. LeavesIngests
    BY Zenon, <1>1, <1>8 DEF ReservationAges, BeginWorkspaceCleanup, LeavesIngests, MediaRow
  <2> QED BY Zenon, <1>3, <1>4, <1>8, <2>1
          DEF ReservationAges, BeginWorkspaceCleanup, IngestEffect
<1>9. CASE OperatorMarkUnknown
  <2>1. GivesUp
    BY Zenon, <1>2, <1>9 DEF OperatorMarkUnknown, GivesUp
  <2> QED BY Zenon, <1>3, <1>4, <1>9, <2>1 DEF OperatorMarkUnknown, IngestEffect
<1>10. CASE ResetStorageUpload
  <2>1. Resets
    BY Zenon, <1>2, <1>10 DEF ResetStorageUpload, Resets, MediaRow
  <2> QED BY Zenon, <1>3, <1>4, <1>10, <2>1 DEF ResetStorageUpload, IngestEffect
<1>11. ASSUME NEW g \in Generations, AttachStorageUpload(g)
       PROVE  IngestEffect /\ LockEffect /\ NothingSeen'
  <2>1. BecomesReady
    BY Zenon, <1>2, <1>11 DEF AttachStorageUpload, BecomesReady
  <2> QED BY Zenon, <1>3, <1>4, <1>11, <2>1 DEF AttachStorageUpload, IngestEffect
<1> QED BY Zenon, <1>5, <1>6, <1>7, <1>8, <1>9, <1>10, <1>11 DEF OperatorStep

-----------------------------------------------------------------------------
(* Every effect keeps the invariant *)

LEMMA EffectPreserves ==
    ASSUME TypeOK, TypeOK', NothingSeen, LockedStillWait, LockedOnce, Agreement,
           PublicationKept, IngestEffect, LockEffect
    PROVE  (LockedStillWait /\ LockedOnce /\ Agreement /\ PublicationKept)'
<1>1. /\ ingests \in [Ingests -> IngestStates] /\ media.state \in StorageStates
      /\ Publishing \subseteq Ingests
  BY Zenon, StorageIngestsAssumption DEF TypeOK, MediaRow
<1>2. LockedOnce'
  <2>1. CASE KeepsLocks
    BY Zenon, <2>1 DEF KeepsLocks, LockedOnce
  <2>2. ASSUME NEW w \in Workers, Locks(w)
        PROVE  LockedOnce'
    <3>1. \A v \in Workers : worker[v].rows = {}
      BY Zenon, <2>2 DEF Locks, Unlocked, LockedStillWait
    <3> QED BY Zenon, <2>2, <3>1 DEF Locks, LockedOnce
  <2> QED BY Zenon, <2>1, <2>2 DEF LockEffect
\* An ingest that keeps waiting, or whose row no one has locked, may be written.
<1>3. ASSUME \A v \in Workers : \A i \in worker'[v].rows :
                i \in Ingests /\ ingests'[i] \in {"storing", "failed_retryable"}
      PROVE  LockedStillWait'
  BY Zenon, <1>3 DEF LockedStillWait, StorageWaiting, WithState
<1>4. \A v \in Workers : \A i \in worker[v].rows :
         i \in Ingests /\ ingests[i] \in {"storing", "failed_retryable"}
  BY Zenon DEF LockedStillWait, StorageWaiting, WithState
<1>5. CASE LeavesIngests
  <2>1. Agreement' /\ PublicationKept'
    BY Zenon, <1>5 DEF LeavesIngests, Agreement, PublicationKept
  <2>2. CASE KeepsLocks
    BY Zenon, <1>2, <1>3, <1>4, <1>5, <2>1, <2>2 DEF KeepsLocks, LeavesIngests
  <2>3. ASSUME NEW w \in Workers, Locks(w)
        PROVE  LockedStillWait'
    BY Zenon, <1>3, <1>4, <1>5, <2>3 DEF Locks, LeavesIngests, StorageWaiting, WithState
  <2> QED BY Zenon, <1>2, <2>1, <2>2, <2>3 DEF LockEffect
<1>6. ASSUME \A v \in Workers : \A i \in worker[v].rows :
                ingests'[i] \in {"storing", "failed_retryable"},
             ~LeavesIngests
      PROVE  LockedStillWait'
  <2>1. KeepsLocks
    BY Zenon, <1>6 DEF LockEffect, Locks
  <2> QED BY Zenon, <1>3, <1>4, <1>6, <2>1 DEF KeepsLocks
<1>7. ASSUME NEW i \in Ingests, Links(i), ~LeavesIngests
      PROVE  (LockedStillWait /\ Agreement /\ PublicationKept)'
  <2>1. /\ \A j \in Ingests : j # i => ingests'[j] = ingests[j]
        /\ ingests[i] = "processing" /\ media'.state = media.state
        /\ media.state = "ready" => /\ ingests'[i] = "completed"
                                    /\ i \in Publishing => i \in materialize'
        /\ media.state = "pending" => ingests'[i] = "storing"
        /\ media.state \in {"unknown", "missing"} => ingests'[i] = "failed_terminal"
        /\ materialize \subseteq materialize'
    BY Zenon, <1>1, <1>7 DEF Links
  <2>2. Agreement'
    BY Zenon, <1>1, <2>1 DEF Agreement
  <2>3. PublicationKept'
    BY Zenon, <1>1, <2>1 DEF PublicationKept
  <2>4. LockedStillWait'
    BY Zenon, <1>4, <1>6, <1>7, <2>1
  <2> QED BY Zenon, <2>2, <2>3, <2>4
<1>8. ASSUME BecomesReady \/ CompletesStored, ~LeavesIngests
      PROVE  (LockedStillWait /\ Agreement /\ PublicationKept)'
  <2>1. /\ Unlocked(Waiting) /\ ingests' = Moved(Waiting, "completed")
        /\ media.state # "missing" /\ media'.state = "ready"
    BY Zenon, <1>8 DEF BecomesReady, CompletesStored, CompleteIngests, Write
  <2>2. \A j \in Ingests : ingests'[j] = IF j \in Waiting THEN "completed" ELSE ingests[j]
    BY Zenon, <2>1 DEF Moved
  <2>3. \A v \in Workers : worker[v].rows = {}
    BY Zenon, <1>4, <2>1 DEF Unlocked, Waiting, WithState
  <2>4. Agreement'
    BY Zenon, <1>1, <2>1, <2>2 DEF Agreement, Waiting, WithState, IngestStates
  <2>5. PublicationKept'
    <3>1. CASE BecomesReady
      BY Zenon, <1>1, <2>2, <3>1 DEF BecomesReady, CompleteIngests, PublicationKept
    <3>2. CASE CompletesStored
      <4>1. Waiting = {}
        BY Zenon, <3>2 DEF CompletesStored, Agreement, Waiting, WithState
      <4> QED BY Zenon, <1>1, <2>2, <3>2, <4>1 DEF CompletesStored, PublicationKept
    <3> QED BY Zenon, <1>8, <3>1, <3>2
  <2>6. LockedStillWait'
    BY Zenon, <1>6, <1>8, <2>3
  <2> QED BY Zenon, <2>4, <2>5, <2>6
<1>9. ASSUME GivesUp \/ Resets, ~LeavesIngests
      PROVE  (LockedStillWait /\ Agreement /\ PublicationKept)'
  <2>1. Unlocked(Linked) /\ UNCHANGED materialize
    BY Zenon, <1>9 DEF GivesUp, Resets, FailIngests, Write
  <2>2. \/ /\ media'.state = "unknown"
           /\ ingests' = Moved(Linked, "failed_terminal")
        \/ /\ media'.state = "pending"
           /\ ingests' = Moved(Linked, "storing")
    BY Zenon, <1>9 DEF GivesUp, Resets, FailIngests, Write
  <2>3. \A v \in Workers : worker[v].rows = {}
    BY Zenon, <1>4, <2>1 DEF Unlocked, Linked
  <2>4. Agreement' /\ PublicationKept'
    BY Zenon, <1>1, <2>1, <2>2 DEF Moved, Agreement, PublicationKept, Linked
  <2>5. LockedStillWait'
    BY Zenon, <1>6, <1>9, <2>3
  <2> QED BY Zenon, <2>4, <2>5
<1>10. ASSUME Retries, ~LeavesIngests
       PROVE  (LockedStillWait /\ Agreement /\ PublicationKept)'
  <2>1. /\ Unlocked(StorageWaiting) /\ UNCHANGED materialize
        /\ media'.state = media.state
        /\ \A j \in Ingests : ingests'[j] = IF j \in StorageWaiting
                                            THEN "failed_retryable" ELSE ingests[j]
    BY Zenon, <1>10 DEF Retries, Write, Moved
  <2>2. \A v \in Workers : worker[v].rows = {}
    BY Zenon, <1>4, <2>1 DEF Unlocked, StorageWaiting, WithState
  <2>3. Agreement' /\ PublicationKept'
    BY Zenon, <1>1, <2>1 DEF Agreement, PublicationKept, StorageWaiting, WithState
  <2>4. LockedStillWait'
    BY Zenon, <1>6, <1>10, <2>2
  <2> QED BY Zenon, <2>3, <2>4
<1>11. ASSUME NEW w \in Workers, FailsLocked(w), ~LeavesIngests
       PROVE  (LockedStillWait /\ Agreement /\ PublicationKept)'
  <2>1. /\ UNCHANGED materialize /\ worker'[w].rows = {}
        /\ media'.state = IF media.state = "pending" THEN "missing" ELSE media.state
        /\ \A j \in Ingests : ingests'[j] = IF j \in worker[w].rows
                                            THEN "failed_terminal" ELSE ingests[j]
    BY Zenon, <1>11 DEF FailsLocked, Moved
  <2>2. Agreement' /\ PublicationKept'
    BY Zenon, <1>1, <1>4, <2>1 DEF Agreement, PublicationKept
  <2>3. KeepsLocks
    BY Zenon, <1>11 DEF LockEffect, Locks
  <2>4. LockedStillWait'
    BY Zenon, <1>3, <1>4, <2>1, <2>3 DEF KeepsLocks, LockedOnce
  <2> QED BY Zenon, <2>2, <2>4
<1> QED BY Zenon, <1>2, <1>5, <1>7, <1>8, <1>9, <1>10, <1>11 DEF IngestEffect

LEMMA AgreementInit == Init => AInv
<1> SUFFICES ASSUME Init, Video PROVE NothingSeen /\ LockedStillWait /\ LockedOnce
                                       /\ Agreement /\ PublicationKept
  BY Zenon DEF AInv
<1>1. \A w \in Workers : worker[w].rows = {}
  BY Zenon DEF Init, Idle
<1>2. /\ media.state = "pending" /\ Publishing \subseteq Ingests
      /\ \A i \in Ingests : ingests[i] \in {"storing", "processing"}
  BY Zenon, StorageIngestsAssumption DEF Init
<1>3. NothingSeen /\ LockedStillWait /\ LockedOnce
  BY Zenon, <1>1 DEF Init, NothingSeen, LockedStillWait, LockedOnce
<1>4. Agreement /\ PublicationKept
  BY Zenon, <1>2 DEF Agreement, PublicationKept
<1> QED BY Zenon, <1>3, <1>4

LEMMA AgreementStep == IInv /\ AInv /\ [Next]_vars => AInv'
<1> SUFFICES ASSUME IInv, Video, NothingSeen, LockedStillWait, LockedOnce,
                    Agreement, PublicationKept, [Next]_vars
             PROVE  (/\ NothingSeen /\ LockedStillWait /\ LockedOnce
                     /\ Agreement /\ PublicationKept)'
  BY Zenon DEF AInv
<1>1. CASE UNCHANGED vars
  BY Zenon, <1>1 DEF vars, NothingSeen, LockedStillWait, LockedOnce, Agreement,
              PublicationKept, StorageWaiting, WithState
<1>2. CASE Next
  <2>1. TypeOK /\ TypeOK'
    BY Zenon, TypeStep DEF IInv
  <2>2. IngestEffect /\ LockEffect /\ NothingSeen'
    BY Zenon, <1>2, LinkEffects, HandlerEffects, OtherEffects DEF Next
  <2> QED BY Zenon, <2>1, <2>2, EffectPreserves
<1> QED BY Zenon, <1>1, <1>2

LEMMA AgreementInvariance == Spec => []AInv
BY AgreementInit, AgreementStep, Invariance, PTL DEF Spec

(* After every transaction the linked ingests of a video say what the      *)
(* media row says: complete_linked_ingests_for_storage and its             *)
(* counterparts for failures leave none behind, although                   *)
(* fail_storage_for_media decides in two statements.                       *)
THEOREM IngestsAgree == Spec => []IngestsAgreeWithMedia
<1>1. TypeOK /\ AInv => IngestsAgreeWithMedia
  BY Zenon DEF TypeOK, MediaRow, AInv, Agreement, IngestsAgreeWithMedia, Linked
<1> QED BY <1>1, UploadTyped, AgreementInvariance, PTL

(* No video ingest completes without the materialize_publication job it    *)
(* asked for: when reconcile_storage_terminal or recover_storage_job       *)
(* complete the ingests of ready media, none is left that waits.           *)
THEOREM PublicationRemembered == Spec => []RequestedPublicationKept
<1>1. AInv => RequestedPublicationKept
  BY Zenon DEF AInv, PublicationKept, RequestedPublicationKept
<1> QED BY <1>1, AgreementInvariance, PTL

-----------------------------------------------------------------------------
(* The attempts of a queued upload *)

\* The job maps that the steps write keep queued jobs claimable.
LEMMA ClaimableWrites ==
    ASSUME TypeOK, QueuedUploadClaimable
    PROVE  /\ UNCHANGED jobs => QueuedUploadClaimable'
           /\ jobs' = JobsWithUpload => QueuedUploadClaimable'
           /\ jobs' = QueuedUploadsFailed => QueuedUploadClaimable'
           /\ \A g \in Generations : \A s \in {"succeeded", "failed"} : \A a :
                 jobs' = JobReleased(g, s, a) => QueuedUploadClaimable'
           /\ \A g \in Generations : \A a :
                 a < MaxAttempts /\ jobs' = JobReleased(g, "queued", a)
                    => QueuedUploadClaimable'
<1>1. jobs \in [Generations -> JobRow] /\ media.generation \in Generations
  BY Zenon DEF TypeOK, MediaRow
<1>2. NewUploadJob.attempt < MaxAttempts
  <2>1. NewUploadJob.attempt = 0
    BY Zenon DEF NewUploadJob, NoJob
  <2> QED BY <2>1, StorageAttemptsAssumption
<1>3. UNCHANGED jobs => QueuedUploadClaimable'
  BY Zenon DEF QueuedUploadClaimable
<1>4. jobs' = JobsWithUpload => QueuedUploadClaimable'
  BY Zenon, <1>1, <1>2 DEF QueuedUploadClaimable, JobsWithUpload
<1>5. jobs' = QueuedUploadsFailed => QueuedUploadClaimable'
  <2>1. \A g \in Generations : [jobs[g] EXCEPT !.state = "failed"].state # "queued"
    BY Zenon, <1>1 DEF JobRow
  <2> QED BY <1>1, <2>1 DEF QueuedUploadClaimable, QueuedUploadsFailed
<1>6. ASSUME NEW g \in Generations, NEW s, NEW a, jobs' = JobReleased(g, s, a),
             s \in {"succeeded", "failed"} \/ a < MaxAttempts
      PROVE  QueuedUploadClaimable'
  BY Zenon, <1>1, <1>6 DEF QueuedUploadClaimable, JobReleased
<1> QED BY Zenon, <1>3, <1>4, <1>5, <1>6

LEMMA RefundIsClaimable ==
    ASSUME NEW a \in 0 .. MaxAttempts
    PROVE  Refunded(a) < MaxAttempts
BY SMTT(40), StorageAttemptsAssumption DEF Refunded

LEMMA ClaimableStep ==
    TypeOK /\ QueuedUploadClaimable /\ [Next]_vars => QueuedUploadClaimable'
<1> SUFFICES ASSUME TypeOK, QueuedUploadClaimable, [Next]_vars
             PROVE  QueuedUploadClaimable'
  BY Zenon
<1>1. jobs \in [Generations -> JobRow] /\ media.generation \in Generations
  BY Zenon DEF TypeOK, MediaRow
<1>2. UNCHANGED jobs => QueuedUploadClaimable'
  BY Zenon, ClaimableWrites
<1>3. ASSUME NEW i \in Ingests, LinkStep(i)
      PROVE  QueuedUploadClaimable'
  BY Zenon, <1>2, <1>3, ClaimableWrites
  DEF LinkStep, CompleteVideoIdentity, AcceptDuplicate, ReadStorageState,
      FinalizeIngest, AdvanceAfterMediaProcessing
<1>4. ASSUME NEW w \in Workers, FinishJob(w)
      PROVE  QueuedUploadClaimable'
  <2> DEFINE g == worker[w].generation
  <2>1. g \in Generations
    BY Zenon DEF TypeOK, Worker
  <2>2. JobOf(w).attempt \in 0 .. MaxAttempts
    BY Zenon, <1>1, <2>1 DEF JobOf, JobRow
  <2>3. \/ UNCHANGED jobs
        \/ \E s \in {"succeeded", "failed"}, a \in 0 .. MaxAttempts :
              jobs' = JobReleased(g, s, a)
        \/ jobs' = JobReleased(g, "queued", Refunded(JobOf(w).attempt))
        \/ ~Terminal(w) /\ jobs' = JobReleased(g, "queued", JobOf(w).attempt)
    BY Zenon, <1>4, <2>2 DEF FinishJob
  <2>4. ~Terminal(w) => JobOf(w).attempt < MaxAttempts
    <3>1. \A a \in 0 .. MaxAttempts : ~(a >= MaxAttempts) => a < MaxAttempts
      BY StorageAttemptsAssumption
    <3> QED BY Zenon, <2>2, <3>1 DEF Terminal
  <2> HIDE DEF g
  <2> QED BY Zenon, <1>2, <2>1, <2>2, <2>3, <2>4, RefundIsClaimable, ClaimableWrites
<1>5. ASSUME NEW w \in Workers, NEW g \in Generations, ClaimNext(w, g)
      PROVE  QueuedUploadClaimable'
  BY Zenon, <1>1, <1>5 DEF ClaimNext, QueuedUploadClaimable
<1>6. ASSUME NEW g \in Generations, LeaseExpires(g)
      PROVE  QueuedUploadClaimable'
  BY Zenon, <1>1, <1>6 DEF LeaseExpires, QueuedUploadClaimable, JobRow
<1>7. ASSUME NEW g \in Generations, RecoverStorageJob(g)
      PROVE  QueuedUploadClaimable'
  <2>1. jobs[g].attempt \in 0 .. MaxAttempts
    BY Zenon, <1>1 DEF JobRow
  <2> QED BY Zenon, <1>7, <2>1, RefundIsClaimable, ClaimableWrites DEF RecoverStorageJob
<1>8. ResetStorageUpload => QueuedUploadClaimable'
  <2>1. NewUploadJob.attempt = 0
    BY Zenon DEF NewUploadJob, NoJob
  <2> QED BY <1>1, <2>1, StorageAttemptsAssumption
          DEF ResetStorageUpload, QueuedUploadClaimable
<1>9. ASSUME NEW w \in Workers, MarkStorageUploadUnknown(w)
      PROVE  QueuedUploadClaimable'
  BY Zenon, <1>2, <1>9, ClaimableWrites DEF MarkStorageUploadUnknown
<1>10. OperatorMarkUnknown => QueuedUploadClaimable'
  BY Zenon, ClaimableWrites DEF OperatorMarkUnknown
<1>11. ASSUME NEW w \in Workers,
              \/ InspectMedia(w) \/ ReserveStorageUpload(w) \/ DispatchUpload(w)
              \/ ReleaseStorageUpload(w) \/ UploadReturns(w) \/ AbandonUpload(w)
              \/ CompleteStorageUpload(w) \/ CompleteStorageForMedia(w)
              \/ FailRetryable(w) \/ FailLinkedIngests(w) \/ FailMedia(w)
              \/ RenewStorageUpload(w) \/ Cancel(w) \/ Crash(w)
       PROVE  UNCHANGED jobs
  BY Zenon, <1>11 DEF InspectMedia, ReserveStorageUpload, DispatchUpload,
       ReleaseStorageUpload, UploadReturns, AbandonUpload, CompleteStorageUpload,
       CompleteStorageForMedia, FailRetryable, FailLinkedIngests, FailMedia,
       RenewStorageUpload, Cancel, Crash
<1>12. ASSUME NEW w \in Workers, NEW g \in Generations,
              Deliver(w, g) \/ Refuse(w, g)
       PROVE  UNCHANGED jobs
  BY Zenon, <1>12 DEF Deliver, Refuse
<1>13. ASSUME NEW g \in Generations, AttachStorageUpload(g)
       PROVE  UNCHANGED jobs
  BY Zenon, <1>13 DEF AttachStorageUpload
<1>14. ReservationAges \/ BeginWorkspaceCleanup \/ UNCHANGED vars => UNCHANGED jobs
  BY Zenon DEF ReservationAges, BeginWorkspaceCleanup, vars
<1> QED BY Zenon, <1>2, <1>3, <1>4, <1>5, <1>6, <1>7, <1>8, <1>9, <1>10, <1>11, <1>12,
           <1>13, <1>14 DEF Next, HandlerStep, OperatorStep

(* No settlement, refund, recovery or reset leaves a queued upload whose   *)
(* attempts are used up, which claim_next would skip for ever.             *)
THEOREM QueuedClaimable == Spec => []QueuedUploadClaimable
<1>1. Init => QueuedUploadClaimable
  <2>1. NewUploadJob.attempt = 0 /\ NoJob.state = "absent"
    BY Zenon DEF NewUploadJob, NoJob
  <2> QED BY <2>1, StorageAttemptsAssumption DEF Init, QueuedUploadClaimable
<1> QED BY <1>1, ClaimableStep, UploadTyped, PTL DEF Spec

-----------------------------------------------------------------------------
(* Pending storage has a job *)

Ended == {"complete_ingests", "ok"}

\* A handler ends well only when its generation is no longer to be uploaded.
EndsWhenSettled ==
    \A w \in Workers :
        worker[w].pc \in Ended /\ worker[w].generation = media.generation
            => media.state # "pending"

JInv == EndsWhenSettled /\ PendingUploadHasJob

\* Only a reset makes storage pending, and it opens a generation.
StaysSettled ==
    /\ media'.generation = media.generation
    /\ media'.state = "pending" => media.state = "pending"

\* A worker that ends well, ends well already or has seen why it may.
EndsRightly(v) ==
    worker'[v].pc \in Ended =>
        \/ worker[v].pc \in Ended /\ worker'[v].generation = worker[v].generation
        \/ worker'[v].generation # media.generation
        \/ media'.state # "pending"

EndsRightlyAll == \A v \in Workers : EndsRightly(v)

\* The current generation's job is not settled while its storage is pending.
KeepsJob ==
    media'.state = "pending" /\ jobs[media.generation].state \in {"queued", "running"}
        => jobs'[media.generation].state \in {"queued", "running"}

LEMMA SettledStep ==
    ASSUME TypeOK, JInv, StaysSettled, EndsRightlyAll, KeepsJob
    PROVE  JInv'
<1>1. EndsWhenSettled'
  BY Zenon DEF JInv, EndsWhenSettled, StaysSettled, EndsRightlyAll, EndsRightly
<1>2. PendingUploadHasJob'
  BY Zenon DEF JInv, PendingUploadHasJob, StaysSettled, KeepsJob
<1> QED BY Zenon, <1>1, <1>2 DEF JInv

\* The parts of the actions, as SettledStep needs them.
LEMMA SettledFacts ==
    ASSUME TypeOK
    PROVE  /\ UNCHANGED media => StaysSettled
           /\ \A s \in {"unknown", "missing"} :
                 media' = MediaIn(s) => StaysSettled /\ KeepsJob
           /\ UNCHANGED worker => EndsRightlyAll
           /\ \A w \in Workers :
                 worker' = [worker EXCEPT ![w] = Idle] => EndsRightlyAll
           /\ \A w \in Workers : \A pc \in HandlerSteps \cup Results :
                 worker' = Goto(w, pc)
                 /\ (pc \notin Ended \/ worker[w].pc \in Ended
                        \/ worker[w].generation # media.generation
                        \/ media'.state # "pending")
                    => EndsRightlyAll
           /\ UNCHANGED jobs => KeepsJob
           /\ \A g \in Generations : \A a :
                 jobs' = JobReleased(g, "queued", a) => KeepsJob
<1>1. \A s \in {"unknown", "missing"} : media' = MediaIn(s) => StaysSettled /\ KeepsJob
  BY Zenon, MediaInFacts DEF TypeOK, StaysSettled, KeepsJob
<1>2. UNCHANGED media => StaysSettled
  BY Zenon DEF StaysSettled
<1>3. UNCHANGED worker => EndsRightlyAll
  BY Zenon DEF EndsRightlyAll, EndsRightly
<1>4. ASSUME NEW w \in Workers, worker' = [worker EXCEPT ![w] = Idle]
      PROVE  EndsRightlyAll
  BY Zenon, <1>4 DEF EndsRightlyAll, EndsRightly, TypeOK, Idle, Ended
<1>5. ASSUME NEW w \in Workers, NEW pc \in HandlerSteps \cup Results,
             worker' = Goto(w, pc),
             \/ pc \notin Ended \/ worker[w].pc \in Ended
             \/ worker[w].generation # media.generation
             \/ media'.state # "pending"
      PROVE  EndsRightlyAll
  BY SMTT(40), <1>5, GotoValues DEF EndsRightlyAll, EndsRightly
<1>6. UNCHANGED jobs => KeepsJob
  BY Zenon DEF KeepsJob
<1>7. ASSUME NEW g \in Generations, NEW a, jobs' = JobReleased(g, "queued", a)
      PROVE  KeepsJob
  BY Zenon, <1>7 DEF KeepsJob, JobReleased, TypeOK, MediaRow
<1> QED BY Zenon, <1>1, <1>2, <1>3, <1>4, <1>5, <1>6, <1>7

LEMMA HandlerSettles ==
    ASSUME IInv, JInv, NEW w \in Workers,
           HandlerStep(w) \/ RenewStorageUpload(w) \/ Cancel(w) \/ Crash(w)
    PROVE  JInv'
<1>1. /\ TypeOK /\ media \in MediaRow /\ worker[w] \in Worker
      /\ worker[w].generation \in Generations /\ media.generation \in Generations
  BY Zenon DEF IInv, TypeOK, MediaRow, Worker
<1>2. /\ UNCHANGED media => StaysSettled
      /\ \A s \in {"unknown", "missing"} :
            media' = MediaIn(s) => StaysSettled /\ KeepsJob
      /\ UNCHANGED worker => EndsRightlyAll
      /\ worker' = [worker EXCEPT ![w] = Idle] => EndsRightlyAll
      /\ UNCHANGED jobs => KeepsJob
      /\ \A a : jobs' = JobReleased(worker[w].generation, "queued", a) => KeepsJob
  BY Zenon, <1>1, SettledFacts
<1>3. \A pc \in (HandlerSteps \cup Results) \ Ended :
         worker' = Goto(w, pc) => EndsRightlyAll
  BY Zenon, <1>1, SettledFacts
<1>4. \A b : FailStep(w, b) \in (HandlerSteps \cup Results) \ Ended
  BY Zenon DEF FailStep, HandlerSteps, Ended
<1>5. \A pc \in Ended :
         /\ worker' = Goto(w, pc)
         /\ \/ worker[w].pc \in Ended \/ worker[w].generation # media.generation
            \/ media'.state # "pending"
         => EndsRightlyAll
  <2>1. Ended \subseteq HandlerSteps \cup Results
    BY Zenon DEF Ended, HandlerSteps, Results
  <2> QED BY Zenon, <1>1, <2>1, SettledFacts
<1>6. \A pc \in {"reserve", "dispatch", "upload", "release_staging",
                  "release_cancelled", "release_retry", "release_fail", "complete",
                  "mark", "mark_leave", "fail_retry", "fail_terminal", "fail_media",
                  "retry", "cancelled", "leave", "fail"} :
         pc \in (HandlerSteps \cup Results) \ Ended
  BY Zenon DEF HandlerSteps, Results, Ended
<1>7. CASE InspectMedia(w)
  <2>1. EndsRightlyAll
    BY Zenon, <1>3, <1>4, <1>5, <1>6, <1>7 DEF InspectMedia, Ended
  <2> QED BY Zenon, <1>1, <1>2, <1>7, <2>1, SettledStep DEF InspectMedia
<1>8. CASE ReserveStorageUpload(w)
  <2>1. StaysSettled
    BY Zenon, <1>1, <1>2, <1>8 DEF ReserveStorageUpload, StaysSettled, MediaRow
  <2>2. UNCHANGED media /\ worker' \in NotReserved(w) => EndsRightlyAll
    <3>1. media.generation # worker[w].generation /\ worker' \in EndsWell(w)
             => EndsRightlyAll
      BY Zenon, <1>3, <1>5, <1>6 DEF EndsWell, Ended
    <3> QED BY Zenon, <1>3, <1>5, <1>6, <3>1 DEF NotReserved, Ended
  <2>3. EndsRightlyAll
    BY Zenon, <1>3, <1>4, <1>6, <1>8, <2>2 DEF ReserveStorageUpload
  <2> QED BY Zenon, <1>1, <1>2, <1>8, <2>1, <2>3, SettledStep DEF ReserveStorageUpload
<1>9. CASE DispatchUpload(w) \/ UploadReturns(w) \/ AbandonUpload(w)
  <2>1. EndsRightlyAll
    BY Zenon, <1>3, <1>6, <1>9 DEF DispatchUpload, UploadReturns, AbandonUpload
  <2> QED BY Zenon, <1>1, <1>2, <1>9, <2>1, SettledStep
          DEF DispatchUpload, UploadReturns, AbandonUpload
<1>10. CASE ReleaseStorageUpload(w)
  <2>1. \A b \in BOOLEAN : AfterRelease(w, b) \in (HandlerSteps \cup Results) \ Ended
    BY Zenon, <1>4, <1>6, <1>10 DEF ReleaseStorageUpload, AfterRelease, At
  <2>2. EndsRightlyAll
    BY Zenon, <1>3, <1>10, <2>1 DEF ReleaseStorageUpload
  <2>3. MediaIn("pending").generation = media.generation
    BY Zenon, <1>1, MediaInFacts
  <2>4. StaysSettled
    BY ZenonT(40), <1>2, <1>10, <2>3, NoOneAssumption
    DEF ReleaseStorageUpload, OwnsReservation, StaysSettled, IInv, TokenIsPending
  <2> QED BY Zenon, <1>1, <1>2, <1>10, <2>2, <2>4, SettledStep DEF ReleaseStorageUpload
<1>11. CASE CompleteStorageUpload(w)
  <2>1. /\ MediaReady(worker[w].generation).state = "ready"
        /\ MediaReady(worker[w].generation).generation = media.generation
    BY Zenon, <1>1, MediaReadyFacts
  <2>2. StaysSettled
    BY Zenon, <1>2, <1>11, <2>1 DEF CompleteStorageUpload, StaysSettled
  <2>3. EndsRightlyAll
    BY Zenon, <1>3, <1>5, <1>6, <1>11, <2>1 DEF CompleteStorageUpload, Ended
  <2> QED BY Zenon, <1>1, <1>2, <1>11, <2>2, <2>3, SettledStep DEF CompleteStorageUpload
<1>12. CASE MarkStorageUploadUnknown(w)
  <2>1. EndsRightlyAll
    BY Zenon, <1>3, <1>6, <1>12 DEF MarkStorageUploadUnknown
  <2> QED BY Zenon, <1>1, <1>2, <1>12, <2>1, SettledStep DEF MarkStorageUploadUnknown
<1>13. CASE CompleteStorageForMedia(w)
  <2>1. EndsRightlyAll
    BY Zenon, <1>3, <1>5, <1>6, <1>13 DEF CompleteStorageForMedia, EndsWell, Ended, At
  <2>2. StaysSettled
    BY Zenon, <1>1, <1>2, <1>13 DEF CompleteStorageForMedia, StaysSettled, MediaRow
  <2> QED BY Zenon, <1>1, <1>2, <1>13, <2>1, <2>2, SettledStep DEF CompleteStorageForMedia
<1>14. CASE FailRetryable(w)
  <2>1. EndsRightlyAll
    BY Zenon, <1>3, <1>6, <1>14 DEF FailRetryable
  <2> QED BY Zenon, <1>1, <1>2, <1>14, <2>1, SettledStep DEF FailRetryable
<1>15. CASE FailLinkedIngests(w)
  <2>1. worker' = [worker EXCEPT ![w].pc = "fail_media", ![w].rows = StorageWaiting]
           => EndsRightlyAll
    BY <1>1 DEF TypeOK, Worker, EndsRightlyAll, EndsRightly, Ended
  <2>2. EndsRightlyAll
    BY Zenon, <1>3, <1>6, <1>15, <2>1 DEF FailLinkedIngests
  <2> QED BY Zenon, <1>1, <1>2, <1>15, <2>2, SettledStep DEF FailLinkedIngests
<1>16. CASE FailMedia(w)
  <2>1. EndsRightlyAll
    BY Zenon, <1>3, <1>6, <1>16 DEF FailMedia
  <2>2. StaysSettled
    BY Zenon, <1>2, <1>16 DEF FailMedia, StorageFailed
  <2> QED BY Zenon, <1>1, <1>2, <1>16, <2>1, <2>2, SettledStep DEF FailMedia
<1>17. CASE FinishJob(w)
  <2>1. EndsRightlyAll
    BY Zenon, <1>2, <1>17 DEF FinishJob
  <2>2. UNCHANGED media \/ ReconcileStorageTerminal
    BY Zenon, <1>17 DEF FinishJob
  <2>3. ReconcileStorageTerminal
           => \/ UNCHANGED media /\ media.state # "pending"
              \/ media' = MediaIn("unknown")
    BY ZenonT(40), <1>1 DEF ReconcileStorageTerminal, MediaRow
  <2>4. StaysSettled
    BY Zenon, <1>2, <2>2, <2>3
  \* A job that succeeds is not the one that pending storage needs.
  <2>5. CASE At(w, "ok") /\ jobs' = JobReleased(worker[w].generation, "succeeded",
                                                JobOf(w).attempt)
    <3>1. media.generation = worker[w].generation => media.state # "pending"
      BY Zenon, <2>5 DEF JInv, EndsWhenSettled, Ended, At
    <3>2. media.generation # worker[w].generation
             => jobs'[media.generation] = jobs[media.generation]
      BY Zenon, <1>1, <2>5 DEF JobReleased, TypeOK
    <3> QED BY Zenon, <1>1, <2>1, <2>4, <3>1, <3>2, SettledStep DEF KeepsJob, StaysSettled
  <2>6. CASE ReconcileStorageTerminal
    <3>1. KeepsJob
      BY Zenon, <1>2, <2>3, <2>6 DEF KeepsJob
    <3> QED BY Zenon, <1>1, <2>1, <2>4, <3>1, SettledStep
  <2>7. CASE UNCHANGED jobs \/ \E a : jobs' = JobReleased(worker[w].generation, "queued", a)
    BY Zenon, <1>1, <1>2, <2>1, <2>4, <2>7, SettledStep
  <2> QED BY Zenon, <1>17, <2>5, <2>6, <2>7 DEF FinishJob
<1>18. CASE RenewStorageUpload(w)
  <2>1. EndsRightlyAll
    BY Zenon, <1>2, <1>3, <1>6, <1>18 DEF RenewStorageUpload
  <2>2. StaysSettled
    BY Zenon, <1>1, <1>2, <1>18 DEF RenewStorageUpload, StaysSettled, MediaRow
  <2> QED BY Zenon, <1>1, <1>2, <1>18, <2>1, <2>2, SettledStep DEF RenewStorageUpload
<1>19. CASE Cancel(w)
  <2>1. EndsRightlyAll
    BY Zenon, <1>1, <1>19 DEF Cancel, TypeOK, Worker, EndsRightlyAll, EndsRightly
  <2> QED BY Zenon, <1>1, <1>2, <1>19, <2>1, SettledStep DEF Cancel
<1>20. CASE Crash(w)
  BY Zenon, <1>1, <1>2, <1>20, SettledStep DEF Crash
<1> QED BY Zenon, <1>7, <1>8, <1>9, <1>10, <1>11, <1>12, <1>13, <1>14, <1>15, <1>16,
           <1>17, <1>18, <1>19, <1>20 DEF HandlerStep

LEMMA OtherSettles ==
    ASSUME IInv, JInv,
           \/ \E i \in Ingests : LinkStep(i)
           \/ \E w \in Workers, g \in Generations :
                 ClaimNext(w, g) \/ Deliver(w, g) \/ Refuse(w, g)
           \/ \E g \in Generations : LeaseExpires(g) \/ RecoverStorageJob(g)
           \/ ReservationAges
           \/ OperatorStep
           \/ BeginWorkspaceCleanup
    PROVE  JInv'
<1>1. TypeOK /\ media \in MediaRow /\ media.generation \in Generations
      /\ media.state \in StorageStates
  BY Zenon DEF IInv, TypeOK, MediaRow
<1>2. /\ UNCHANGED media => StaysSettled
      /\ \A s \in {"unknown", "missing"} :
            media' = MediaIn(s) => StaysSettled /\ KeepsJob
      /\ UNCHANGED worker => EndsRightlyAll
      /\ UNCHANGED jobs => KeepsJob
      /\ \A g \in Generations : \A a : jobs' = JobReleased(g, "queued", a) => KeepsJob
  BY Zenon, <1>1, SettledFacts
<1>3. ASSUME NEW i \in Ingests, LinkStep(i)
      PROVE  JInv'
  <2>1. UNCHANGED <<media, worker>>
    BY Zenon, <1>3 DEF LinkStep, CompleteVideoIdentity, AcceptDuplicate, ReadStorageState,
                FinalizeIngest
  <2>2. jobs' = jobs \/ jobs' = JobsWithUpload
    BY Zenon, <1>3 DEF LinkStep, CompleteVideoIdentity, AcceptDuplicate, ReadStorageState,
                FinalizeIngest, AdvanceAfterMediaProcessing
  <2>3. KeepsJob
    BY Zenon, <1>2, <2>2 DEF KeepsJob, JobsWithUpload
  <2> QED BY Zenon, <1>1, <1>2, <2>1, <2>3, SettledStep
<1>4. ASSUME NEW w \in Workers, NEW g \in Generations, ClaimNext(w, g)
      PROVE  JInv'
  <2>1. KeepsJob
    BY Zenon, <1>1, <1>4 DEF ClaimNext, KeepsJob, TypeOK
  <2>2. worker'[w].pc = "inspect" /\ \A v \in Workers : v # w => worker'[v] = worker[v]
    BY Zenon, <1>1, <1>4 DEF ClaimNext, TypeOK, Idle
  <2>3. EndsRightlyAll
    BY ZenonT(40), <2>2 DEF EndsRightlyAll, EndsRightly, Ended
  <2> QED BY Zenon, <1>1, <1>2, <1>4, <2>1, <2>3, SettledStep DEF ClaimNext
<1>5. ASSUME NEW w \in Workers, NEW g \in Generations, Deliver(w, g) \/ Refuse(w, g)
      PROVE  JInv'
  <2>1. \A a : worker' = [worker EXCEPT ![w].answer = a] => EndsRightlyAll
    BY SMTT(40), <1>1 DEF EndsRightlyAll, EndsRightly, TypeOK, Worker
  <2>2. EndsRightlyAll
    BY Zenon, <1>2, <1>5, <2>1 DEF Deliver, Refuse, Answered
  <2> QED BY Zenon, <1>1, <1>2, <1>5, <2>2, SettledStep DEF Deliver, Refuse
<1>6. ASSUME NEW g \in Generations, LeaseExpires(g)
      PROVE  JInv'
  <2>1. KeepsJob
    BY SMTT(40), <1>1, <1>6 DEF LeaseExpires, KeepsJob, TypeOK, JobRow
  <2> QED BY Zenon, <1>1, <1>2, <1>6, <2>1, SettledStep DEF LeaseExpires
<1>7. ASSUME NEW g \in Generations, RecoverStorageJob(g)
      PROVE  JInv'
  <2>1. StaysSettled
    BY Zenon, <1>2, <1>7 DEF RecoverStorageJob
  <2>2. KeepsJob
    BY Zenon, <1>2, <1>7 DEF RecoverStorageJob, KeepsJob
  <2> QED BY Zenon, <1>1, <1>2, <1>7, <2>1, <2>2, SettledStep DEF RecoverStorageJob
<1>8. CASE ReservationAges \/ BeginWorkspaceCleanup
  <2>1. StaysSettled
    BY Zenon, <1>1, <1>8 DEF ReservationAges, BeginWorkspaceCleanup, StaysSettled, MediaRow
  <2> QED BY Zenon, <1>1, <1>2, <1>8, <2>1, SettledStep
          DEF ReservationAges, BeginWorkspaceCleanup
<1>9. CASE OperatorMarkUnknown
  BY Zenon, <1>1, <1>2, <1>9, SettledStep DEF OperatorMarkUnknown
<1>10. CASE ResetStorageUpload
  <2>1. media'.generation = media.generation + 1 /\ media.generation + 1 \in Generations
    <3>1. /\ MediaIn("pending") \in MediaRow
          /\ MediaIn("pending").generation = media.generation
      BY Zenon, <1>1, MediaInFacts
    <3> QED BY <1>1, <1>10, <3>1, StorageGenerationAssumption
            DEF ResetStorageUpload, MediaRow, Generations
  <2>2. jobs'[media.generation + 1].state = "queued"
    <3>1. NewUploadJob.state = "queued"
      BY Zenon DEF NewUploadJob, NoJob
    <3> QED BY Zenon, <1>1, <1>10, <2>1, <3>1 DEF ResetStorageUpload, TypeOK
  <2>3. \A w \in Workers : worker[w].generation # media.generation + 1
    <3>1. \A w \in Workers : /\ worker[w].generation \in Generations
                             /\ worker[w].generation <= media.generation
      BY Zenon DEF IInv, WorkersAreBehind, TypeOK, Worker
    <3>2. \A m, n \in Nat : m <= n => m # n + 1
      OBVIOUS
    <3>3. Generations \subseteq Nat
      BY StorageGenerationAssumption DEF Generations
    <3> QED BY <1>1, <3>1, <3>2, <3>3, ZenonT(60)
  <2> QED BY Zenon, <1>10, <2>1, <2>2, <2>3
          DEF ResetStorageUpload, JInv, EndsWhenSettled, PendingUploadHasJob
<1>11. ASSUME NEW g \in Generations, AttachStorageUpload(g)
       PROVE  JInv'
  <2>1. MediaReady(g).state = "ready" /\ MediaReady(g).generation = media.generation
    BY Zenon, <1>1, MediaReadyFacts
  <2>2. StaysSettled
    BY Zenon, <1>11, <2>1 DEF AttachStorageUpload, StaysSettled
  <2> QED BY Zenon, <1>1, <1>2, <1>11, <2>2, SettledStep DEF AttachStorageUpload
<1> QED BY Zenon, <1>3, <1>4, <1>5, <1>6, <1>7, <1>8, <1>9, <1>10, <1>11 DEF OperatorStep

(* Pending storage of a video has an upload job of its own generation that *)
(* is queued or leased: finish_job, recover_storage_job, the settlement of *)
(* queued uploads and the operator's reset never strand it.                *)
THEOREM PendingHasJob == Spec => []PendingUploadHasJob
<1>1. Init => JInv
  <2> SUFFICES ASSUME Init PROVE JInv
    BY Zenon
  <2>1. \A w \in Workers : worker[w].pc = "idle"
    BY Zenon DEF Init, Idle
  <2>2. media.generation = 0 /\ 0 \in Generations /\ NewUploadJob.state = "queued"
    BY SMTT(40), StorageGenerationAssumption DEF Init, Generations, NewUploadJob, NoJob
  <2>3. Video => jobs[0].state = "queued"
    BY Zenon, <2>2 DEF Init
  <2> QED BY Zenon, <2>1, <2>2, <2>3 DEF JInv, EndsWhenSettled, Ended, PendingUploadHasJob
<1>2. IInv /\ JInv /\ [Next]_vars => JInv'
  <2> SUFFICES ASSUME IInv, JInv, [Next]_vars PROVE JInv'
    BY Zenon
  <2>1. CASE UNCHANGED vars
    BY Zenon, <2>1 DEF vars, JInv, EndsWhenSettled, PendingUploadHasJob
  <2>2. CASE Next
    BY Zenon, <2>2, HandlerSettles, OtherSettles DEF Next
  <2> QED BY Zenon, <2>1, <2>2
<1>3. JInv => PendingUploadHasJob
  BY Zenon DEF JInv
<1> QED BY <1>1, <1>2, <1>3, Invariance, PTL DEF Spec
=============================================================================
