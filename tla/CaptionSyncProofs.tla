-------------------------- MODULE CaptionSyncProofs --------------------------
(***************************************************************************)
(* Proofs about CaptionSync for every number of workers, jobs, attempts    *)
(* and generations.                                                        *)
(***************************************************************************)
EXTENDS CaptionSync, WellFoundedInduction, TLAPS

JobRow == [state : {"gone", "queued", "running"}, gen : Nat, attempts : Nat,
           holder : Workers \cup {None}]

WorkRow == [pc : {"idle", "begin", "edit", "complete", "settle"}, job : Nat, gen : Nat,
            seen : Metas \cup {None}, landed : BOOLEAN,
            answer : {None, "ok", "retryable", "permanent"}]

Types ==
    /\ jobs \in [Ids -> JobRow] /\ work \in [Workers -> WorkRow]
    /\ storage \in {"pending_storage", "ready", "storage_unknown"}
    /\ upload \in Metas \cup {None} /\ meta \in Metas /\ caption \in Metas \cup {None}
    /\ gen \in 0 .. MaxGeneration /\ faults \in Nat /\ untracked \in Nat
    /\ sync \in {"not_required", "pending", "syncing", "synced", "failed"}
    /\ claim \in Workers \cup {None}
    /\ late \subseteq [seen : Metas \cup {None}, gen : Nat]

(* The caption columns: a claim while the state is syncing, no state       *)
(* before there is a message.                                              *)
ColumnsInv ==
    /\ (claim # None) <=> (sync = "syncing")
    /\ (sync = "not_required") <=> ~HasStorageMessage

(* Jobs are there once there is a message, for generations that have been  *)
(* opened, and those in the queue have an attempt left.                    *)
JobsInv ==
    \A j \in Ids :
        /\ jobs[j].gen <= gen /\ jobs[j].attempts <= MaxAttempts
        /\ jobs[j].state # "gone" => HasStorageMessage
        /\ jobs[j].state = "queued" => jobs[j].attempts < MaxAttempts

WorkInv ==
    \A w \in Workers : work[w].pc # "idle" => work[w].job \in Ids /\ HasStorageMessage

(* An edit that landed has shown its generation, and only an edit that     *)
(* landed is answered with success.                                        *)
ShownInv ==
    /\ \A w \in Workers :
          /\ Working(w) /\ work[w].landed => work[w].gen \in shown
          /\ work[w].pc = "complete" /\ work[w].answer = "ok" => work[w].landed
          /\ work[w].pc = "begin" => ~work[w].landed
    /\ SyncedWasShown

(* While nothing has failed, a worker holds the job it works on, and a     *)
(* running job has a worker.                                               *)
HeldInv ==
    /\ late = {}
    /\ \A w \in Workers : work[w].pc # "idle" =>
          Holds(w) /\ jobs[work[w].job].gen = work[w].gen
    /\ \A j \in Ids : jobs[j].state = "running" =>
          /\ jobs[j].holder \in Workers
          /\ work[jobs[j].holder].pc # "idle" /\ work[jobs[j].holder].job = j

(* This job will be claimed, will find the pending row, or will be queued  *)
(* again.                                                                  *)
WillSync(j) ==
    \/ jobs[j].state = "queued"
    \/ /\ jobs[j].state = "running"
       /\ \/ work[jobs[j].holder].pc = "begin"
          \/ /\ work[jobs[j].holder].pc = "settle"
             /\ work[jobs[j].holder].answer = "retryable"
             /\ jobs[j].attempts < MaxAttempts

PendingInv ==
    /\ sync = "pending" => \E j \in Ids : jobs[j].gen = gen /\ WillSync(j)
    /\ sync = "syncing" => Working(claim) /\ work[claim].gen = gen

(* An edit of another generation is on its way or has just landed: its     *)
(* completion opens the current generation again.                          *)
Disturbed == \E w \in Workers : Working(w) /\ work[w].gen # gen

CurrentInv ==
    /\ \A w \in Workers : Working(w) /\ work[w].gen = gen => work[w].seen = meta
    /\ sync = "syncing" /\ work[claim].landed => caption = meta \/ Disturbed
    /\ sync = "synced" => caption = meta \/ Disturbed

CaptionInv ==
    /\ Types /\ ColumnsInv /\ JobsInv /\ WorkInv /\ ShownInv
    /\ faults = 0 => HeldInv /\ PendingInv
    /\ faults = 0 /\ untracked = 0 => CurrentInv

-----------------------------------------------------------------------------
(* Facts about the operators *)

(* A set of identifiers that is not empty has a smallest one. *)
LEMMA FirstFree ==
    ASSUME CaptionSyncAssumption, Free # {}
    PROVE  (CHOOSE i \in Free : \A k \in Free : i <= k) \in Free
  <1>1. Free \subseteq Nat
    BY DEF Free, Ids, CaptionSyncAssumption
  <1>2. PICK x \in Free : \A y \in Free : ~(<<y, x>> \in OpToRel(<, Nat))
    BY Zenon, <1>1, NatLessThanWellFounded, WFMin
  <1>3. ASSUME NEW y \in Free PROVE x <= y
    <2>1. x \in Nat /\ y \in Nat /\ ~(<<y, x>> \in {ss \in Nat \X Nat : ss[1] < ss[2]})
      BY Zenon, <1>1, <1>2 DEF OpToRel
    <2> QED
      BY <2>1
  <1> QED
    BY Zenon, <1>3

(* A job is inserted in a free place. *)
LEMMA Enqueued ==
    ASSUME CaptionSyncAssumption, NEW g, EnqueueCaptionSyncJobWithKey(g)
    PROVE  \E j \in Ids : jobs[j].state = "gone" /\ jobs' = [jobs EXCEPT ![j] = NewJob(g)]
  <1> DEFINE j == CHOOSE i \in Free : \A k \in Free : i <= k
  <1>1. j \in Free
    BY Zenon, FirstFree DEF EnqueueCaptionSyncJobWithKey
  <1>2. jobs' = [jobs EXCEPT ![j] = NewJob(g)]
    BY Zenon DEF EnqueueCaptionSyncJobWithKey
  <1> QED
    BY Zenon, <1>1, <1>2 DEF Free

(* The columns of the rows *)
LEMMA JobFields ==
    ASSUME NEW r \in JobRow
    PROVE  /\ r.state \in {"gone", "queued", "running"} /\ r.gen \in Nat /\ r.attempts \in Nat
           /\ r.holder \in Workers \cup {None}
  BY Zenon DEF JobRow

LEMMA WorkFields ==
    ASSUME NEW r \in WorkRow
    PROVE  /\ r.pc \in {"idle", "begin", "edit", "complete", "settle"} /\ r.job \in Nat
           /\ r.gen \in Nat /\ r.landed \in BOOLEAN /\ r.seen \in Metas \cup {None}
           /\ r.answer \in {None, "ok", "retryable", "permanent"}
  BY Zenon DEF WorkRow

LEMMA RowTypes ==
    /\ Gone \in JobRow /\ Idle \in WorkRow /\ \A g \in Nat : NewJob(g) \in JobRow
  BY DEF Gone, Idle, NewJob, JobRow, WorkRow

-----------------------------------------------------------------------------
(* Steps of the media row *)

(* A generation is opened. *)
Opened ==
    /\ gen < MaxGeneration /\ gen' = gen + 1 /\ sync' = "pending" /\ claim' = None
    /\ EnqueueCaptionSyncJobWithKey(gen + 1)

LEMMA OpenKeeps ==
    ASSUME CaptionSyncAssumption, CaptionInv, Opened, HasStorageMessage',
           UNCHANGED <<work, late, faults>>,
           upload' \in Metas \cup {None}, meta' \in Metas, caption' \in Metas \cup {None},
           untracked' \in Nat, shown \subseteq shown'
    PROVE  CaptionInv'
  <1>1. PICK j \in Ids : jobs[j].state = "gone" /\ jobs' = [jobs EXCEPT ![j] = NewJob(gen + 1)]
    BY Zenon, Enqueued DEF Opened
  <1>2. /\ jobs \in [Ids -> JobRow] /\ gen \in 0 .. MaxGeneration
        /\ work \in [Workers -> WorkRow] /\ faults \in Nat
    BY Zenon DEF CaptionInv, Types
  <1>3. gen \in Nat /\ gen + 1 \in Nat /\ gen + 1 \in 0 .. MaxGeneration /\ MaxAttempts \in Nat
        /\ 0 < MaxAttempts /\ 0 <= MaxAttempts /\ gen + 1 <= gen + 1
    BY <1>2 DEF Opened, CaptionSyncAssumption
  <1>4. /\ jobs' \in [Ids -> JobRow] /\ jobs'[j] = NewJob(gen + 1)
        /\ \A i \in Ids : i # j => jobs'[i] = jobs[i]
    BY Zenon, <1>1, <1>2, <1>3, RowTypes
  <1>5. /\ NewJob(gen + 1).state = "queued" /\ NewJob(gen + 1).gen = gen + 1
        /\ NewJob(gen + 1).attempts = 0
    BY Zenon DEF NewJob
  <1>6. \A i \in Ids : jobs[i].gen \in Nat /\ jobs[i].gen <= gen
    BY Zenon, <1>2, JobFields DEF CaptionInv, JobsInv
  <1>7. \A n \in Nat : n <= gen => n <= gen + 1 /\ n # gen + 1
    BY <1>3
  <1>8. Types'
    BY Zenon, <1>2, <1>3, <1>4 DEF CaptionInv, Types, Opened, HasStorageMessage
  <1>9. ColumnsInv'
    BY Zenon DEF ColumnsInv, Opened
  <1>10. JobsInv'
    <2> SUFFICES ASSUME NEW i \in Ids
                 PROVE  /\ jobs'[i].gen <= gen + 1 /\ jobs'[i].attempts <= MaxAttempts
                        /\ jobs'[i].state = "queued" => jobs'[i].attempts < MaxAttempts
      BY Zenon DEF JobsInv, Opened
    <2>1. CASE i = j
      BY Zenon, <2>1, <1>3, <1>4, <1>5
    <2>2. CASE i # j
      BY Zenon, <2>2, <1>4, <1>6, <1>7 DEF CaptionInv, JobsInv
    <2> QED
      BY Zenon, <2>1, <2>2
  <1>11. WorkInv'
    BY Zenon DEF CaptionInv, WorkInv
  <1>12. ShownInv'
    BY Zenon DEF CaptionInv, ShownInv, Working, SyncedWasShown, Opened
  <1>13. ASSUME faults = 0 PROVE HeldInv' /\ PendingInv'
    <2>1. HeldInv
      BY Zenon, <1>13 DEF CaptionInv
    <2>2. \A w \in Workers : work[w].pc # "idle" => work[w].job \in Ids /\ work[w].job # j
      BY Zenon, <2>1, <1>1 DEF HeldInv, Holds, CaptionInv, WorkInv
    <2>3. HeldInv'
      <3>1. ASSUME NEW w \in Workers, work[w].pc # "idle"
            PROVE  jobs'[work[w].job] = jobs[work[w].job]
        BY Zenon, <3>1, <2>2, <1>4
      <3>2. ASSUME NEW i \in Ids, jobs'[i].state = "running" PROVE jobs'[i] = jobs[i]
        BY Zenon, <3>2, <1>4, <1>5
      <3>3. ASSUME NEW w \in Workers, work[w].pc # "idle"
            PROVE  Holds(w)' /\ jobs'[work[w].job].gen = work[w].gen
        BY Zenon, <2>1, <3>1, <3>3 DEF HeldInv, Holds
      <3>4. ASSUME NEW i \in Ids, jobs'[i].state = "running"
            PROVE  /\ jobs'[i].holder \in Workers
                   /\ work[jobs'[i].holder].pc # "idle" /\ work[jobs'[i].holder].job = i
        BY Zenon, <2>1, <3>2, <3>4 DEF HeldInv
      <3> QED
        BY Zenon, <2>1, <3>3, <3>4 DEF HeldInv
    <2>4. PendingInv'
      BY Zenon, <1>4, <1>5 DEF PendingInv, WillSync, Opened
    <2> QED
      BY Zenon, <2>3, <2>4
  <1>14. ASSUME faults = 0 PROVE CurrentInv'
    <2>1. \A w \in Workers : Working(w) => work[w].gen # gen + 1
      BY Zenon, <1>14, <1>6, <1>7 DEF CaptionInv, HeldInv, WorkInv, Working
    <2> QED
      BY Zenon, <2>1 DEF CurrentInv, Opened, Working
  <1> QED
    BY Zenon, <1>8, <1>9, <1>10, <1>11, <1>12, <1>13, <1>14 DEF CaptionInv

(* Before there is a message nobody works on its caption. *)
LEMMA UnreadyKeeps ==
    ASSUME CaptionInv, ~HasStorageMessage, ~HasStorageMessage',
           storage' \in {"pending_storage", "storage_unknown"},
           sync' = "not_required", claim' = None,
           UNCHANGED <<gen, jobs, work, late, faults, shown>>,
           upload' \in Metas \cup {None}, meta' \in Metas, caption' \in Metas \cup {None},
           untracked' \in Nat
    PROVE  CaptionInv'
  <1>1. Types' /\ ColumnsInv' /\ JobsInv' /\ WorkInv'
    BY Zenon DEF CaptionInv, Types, ColumnsInv, JobsInv, WorkInv
  <1>2. ShownInv'
    BY Zenon DEF CaptionInv, ShownInv, Working, SyncedWasShown
  <1>3. ASSUME faults = 0 PROVE HeldInv' /\ PendingInv'
    BY Zenon, <1>3 DEF CaptionInv, HeldInv, Holds, PendingInv
  <1>4. CurrentInv'
    BY Zenon DEF CaptionInv, WorkInv, CurrentInv, Working
  <1> QED
    BY Zenon, <1>1, <1>2, <1>3, <1>4 DEF CaptionInv

(* The upload ends with the metadata that the row has. *)
LEMMA UploadedKeeps ==
    ASSUME CaptionInv, ~HasStorageMessage, HasStorageMessage', sync' = "synced", claim' = None,
           UNCHANGED <<meta, gen, jobs, work, late, faults, untracked>>,
           upload' \in Metas \cup {None}, caption' = meta, shown' = shown \cup {gen}
    PROVE  CaptionInv'
  <1>1. Types'
    BY Zenon DEF CaptionInv, Types, HasStorageMessage
  <1>2. ColumnsInv' /\ JobsInv' /\ WorkInv'
    BY Zenon DEF CaptionInv, ColumnsInv, JobsInv, WorkInv
  <1>3. ShownInv'
    BY Zenon DEF CaptionInv, ShownInv, Working, SyncedWasShown
  <1>4. ASSUME faults = 0 PROVE HeldInv' /\ PendingInv'
    BY Zenon, <1>4 DEF CaptionInv, HeldInv, Holds, PendingInv
  <1>5. CurrentInv'
    BY Zenon DEF CaptionInv, WorkInv, CurrentInv, Working
  <1> QED
    BY Zenon, <1>1, <1>2, <1>3, <1>4, <1>5 DEF CaptionInv

(* Metadata that changes without a generation is out of CaptionCurrent. *)
LEMMA UntrackedKeeps ==
    ASSUME CaptionInv, meta' \in Metas, untracked' = untracked + 1,
           UNCHANGED <<storage, upload, gen, sync, claim, jobs, work, telegram, faults>>
    PROVE  CaptionInv'
  <1>1. untracked' \in Nat /\ untracked' # 0
    BY DEF CaptionInv, Types
  <1>2. Types' /\ ColumnsInv' /\ JobsInv' /\ WorkInv'
    BY Zenon, <1>1 DEF CaptionInv, Types, ColumnsInv, JobsInv, WorkInv, HasStorageMessage, telegram
  <1>3. ShownInv'
    BY Zenon DEF CaptionInv, ShownInv, Working, SyncedWasShown, telegram
  <1>4. ASSUME faults = 0 PROVE HeldInv' /\ PendingInv'
    BY Zenon, <1>4 DEF CaptionInv, HeldInv, Holds, PendingInv, WillSync, Working, telegram
  <1> QED
    BY Zenon, <1>1, <1>2, <1>3, <1>4 DEF CaptionInv

(* The steps of the API and of the upload *)
LEMMA MediaStepsKeep ==
    ASSUME CaptionSyncAssumption, CaptionInv,
           \/ \E t \in Texts : UpdateMedia(t) \/ AcceptDuplicate(t)
           \/ \E t \in Texts, s \in BOOLEAN : MergeExactDuplicate(t, s)
           \/ StartUpload \/ CompleteStorageUpload \/ UploadUnknown \/ AttachStorageUpload
           \/ RetryCaptionSync
    PROVE  CaptionInv'
  <1>0. /\ meta \in Metas /\ upload \in Metas \cup {None} /\ caption \in Metas \cup {None}
        /\ untracked \in Nat /\ faults \in Nat /\ None \notin Metas
        /\ ~HasStorageMessage => sync = "not_required" /\ claim = None
        /\ storage \in {"pending_storage", "ready", "storage_unknown"}
    BY Zenon DEF CaptionInv, Types, ColumnsInv, CaptionSyncAssumption, Metas
  <1>1. ASSUME NextCaptionSyncValues(TRUE) PROVE Opened
    BY Zenon, <1>1 DEF NextCaptionSyncValues, Opened, EnqueueCaptionSyncJob
  <1>2. ASSUME meta' \in Metas, NextCaptionSyncValues(HasStorageMessage),
               UNCHANGED <<storage, upload, work, telegram, bounds>>
        PROVE  CaptionInv'
    <2>1. CASE HasStorageMessage
      <3>1. Opened /\ HasStorageMessage'
        BY Zenon, <1>2, <2>1 DEF NextCaptionSyncValues, Opened, EnqueueCaptionSyncJob,
           HasStorageMessage
      <3> QED
        BY Zenon, <1>0, <1>2, <3>1, OpenKeeps DEF telegram, bounds
    <2>2. CASE ~HasStorageMessage
      BY Zenon, <1>0, <1>2, <2>2, UnreadyKeeps DEF NextCaptionSyncValues, HasStorageMessage,
         telegram, bounds
    <2> QED
      BY Zenon, <2>1, <2>2
  <1>3. ASSUME NEW t \in Texts, UpdateMedia(t) PROVE CaptionInv'
    <2>1. [meta EXCEPT !.text = t] \in Metas
      BY Zenon, <1>0 DEF Metas
    <2> QED
      BY Zenon, <1>2, <1>3, <2>1 DEF UpdateMedia, ReplaceMetadata
  <1>4. ASSUME NEW t \in Texts, AcceptDuplicate(t) PROVE CaptionInv'
    <2>1. [meta EXCEPT !.text = t] \in Metas
      BY Zenon, <1>0 DEF Metas
    <2> QED
      BY Zenon, <1>4, <2>1, UntrackedKeeps DEF AcceptDuplicate
  <1>5. ASSUME NEW t \in Texts, NEW s \in BOOLEAN, MergeExactDuplicate(t, s) PROVE CaptionInv'
    <2>1. [text |-> t, source |-> meta.source \/ s] \in Metas
      BY Zenon, <1>0 DEF Metas
    <2>2. CASE t # meta.text
      BY Zenon, <1>2, <1>5, <2>1, <2>2 DEF MergeExactDuplicate
    <2>3. CASE t = meta.text
      BY Zenon, <1>5, <2>1, <2>3, UntrackedKeeps DEF MergeExactDuplicate
    <2> QED
      BY Zenon, <2>2, <2>3
  <1>6. CASE StartUpload \/ UploadUnknown
    BY Zenon, <1>0, <1>6, UnreadyKeeps DEF StartUpload, UploadUnknown, HasStorageMessage,
       telegram, bounds
  <1>7. CASE CompleteStorageUpload
    <2>1. CASE upload = meta
      BY Zenon, <1>0, <1>7, <2>1, UploadedKeeps DEF CompleteStorageUpload,
         CaptionSyncValuesAfterStorageUpload, HasStorageMessage, bounds
    <2>2. CASE upload # meta
      <3>1. Opened /\ HasStorageMessage'
        BY Zenon, <1>1, <1>7, <2>2 DEF CompleteStorageUpload,
           CaptionSyncValuesAfterStorageUpload, HasStorageMessage
      <3> QED
        BY Zenon, <1>0, <1>7, <2>2, <3>1, OpenKeeps DEF CompleteStorageUpload, bounds
    <2> QED
      BY Zenon, <2>1, <2>2
  <1>8. CASE AttachStorageUpload
    <2>1. Opened /\ HasStorageMessage'
      BY Zenon, <1>0, <1>1, <1>8 DEF AttachStorageUpload, CaptionSyncValuesAfterStorageUpload,
         HasStorageMessage
    <2> QED
      BY Zenon, <1>0, <1>8, <2>1, OpenKeeps DEF AttachStorageUpload, telegram, bounds
  <1>9. CASE RetryCaptionSync
    <2>1. Opened /\ HasStorageMessage'
      BY Zenon, <1>1, <1>9 DEF RetryCaptionSync, RetryFailed, HasStorageMessage
    <2> QED
      BY Zenon, <1>0, <1>9, <2>1, OpenKeeps DEF RetryCaptionSync, telegram, bounds
  <1> QED
    BY Zenon, <1>3, <1>4, <1>5, <1>6, <1>7, <1>8, <1>9


-----------------------------------------------------------------------------
(* Steps of the workers *)

(* Only this worker moves. *)
Moves(w) ==
    /\ work' \in [Workers -> WorkRow]
    /\ \A v \in Workers : v # w => work'[v] = work[v]

(* It goes on with the same job. *)
GoesOn(w) ==
    /\ Moves(w) /\ work[w].pc # "idle" /\ work'[w].pc # "idle"
    /\ work'[w].job = work[w].job /\ work'[w].gen = work[w].gen

(* What the steps do to the memory of the worker *)
LEMMA WorkWritten ==
    ASSUME NEW w \in Workers, work \in [Workers -> WorkRow], NEW r \in WorkRow,
           work' = [work EXCEPT ![w] = r]
    PROVE  Moves(w) /\ work'[w] = r
  BY Zenon DEF Moves

LEMMA BeginMoves ==
    ASSUME Types, NEW w \in Workers, BeginCaptionSync(w)
    PROVE  /\ GoesOn(w) /\ work'[w].landed = work[w].landed
           /\ IF Due(work[w].gen) THEN work'[w].pc = "edit" /\ work'[w].seen = meta
              ELSE work'[w].pc = "settle"
  <1>1. work[w] \in WorkRow /\ work \in [Workers -> WorkRow] /\ meta \in Metas
        /\ work[w].pc = "begin"
    BY Zenon DEF Types, BeginCaptionSync
  <1>2. CASE Due(work[w].gen)
    <2> DEFINE r == [work[w] EXCEPT !.pc = "edit", !.seen = meta]
    <2>1. /\ r \in WorkRow /\ r.pc = "edit" /\ r.seen = meta /\ r.job = work[w].job
          /\ r.gen = work[w].gen /\ r.landed = work[w].landed
      BY Zenon, <1>1 DEF WorkRow
    <2>2. work' = [work EXCEPT ![w] = r]
      BY Zenon, <1>1, <1>2 DEF BeginCaptionSync
    <2> HIDE DEF r
    <2> QED
      BY Zenon, <1>1, <1>2, <2>1, <2>2, WorkWritten DEF GoesOn
  <1>3. CASE ~Due(work[w].gen)
    <2> DEFINE r == [work[w] EXCEPT !.pc = "settle", !.answer = "ok"]
    <2>1. /\ r \in WorkRow /\ r.pc = "settle" /\ r.job = work[w].job
          /\ r.gen = work[w].gen /\ r.landed = work[w].landed
      BY Zenon, <1>1 DEF WorkRow
    <2>2. work' = [work EXCEPT ![w] = r]
      BY Zenon, <1>1, <1>3 DEF BeginCaptionSync
    <2> HIDE DEF r
    <2> QED
      BY Zenon, <1>1, <1>3, <2>1, <2>2, WorkWritten DEF GoesOn
  <1> QED
    BY Zenon, <1>2, <1>3


LEMMA LandMoves ==
    ASSUME Types, NEW w \in Workers, Land(w)
    PROVE  /\ GoesOn(w) /\ work'[w].landed /\ work'[w].pc = "edit"
           /\ work'[w].seen = work[w].seen
  <1> DEFINE r == [work[w] EXCEPT !.landed = TRUE]
  <1>1. work[w] \in WorkRow /\ work \in [Workers -> WorkRow] /\ work[w].pc = "edit"
    BY Zenon DEF Types, Land
  <1>2. /\ r \in WorkRow /\ r.landed /\ r.pc = "edit" /\ r.job = work[w].job
        /\ r.gen = work[w].gen /\ r.seen = work[w].seen
    BY Zenon, <1>1 DEF WorkRow
  <1>3. work' = [work EXCEPT ![w] = r]
    BY Zenon, <1>1 DEF Land
  <1> HIDE DEF r
  <1> QED
    BY Zenon, <1>1, <1>2, <1>3, WorkWritten DEF GoesOn

(* The worker goes to a step with an answer. *)
LEMMA AnswerMoves ==
    ASSUME Types, NEW w \in Workers, NEW answer \in {"ok", "retryable", "permanent"},
           NEW pc \in {"complete", "settle"}, work[w].pc # "idle",
           work' = [work EXCEPT ![w].pc = pc, ![w].answer = answer]
    PROVE  /\ GoesOn(w) /\ work'[w].pc = pc /\ work'[w].answer = answer
           /\ work'[w].landed = work[w].landed /\ work'[w].seen = work[w].seen
  <1> DEFINE r == [work[w] EXCEPT !.pc = pc, !.answer = answer]
  <1>1. work[w] \in WorkRow /\ work \in [Workers -> WorkRow]
    BY Zenon DEF Types
  <1>2. /\ r.landed = work[w].landed /\ r.pc = pc /\ r.job = work[w].job
        /\ r.gen = work[w].gen /\ r.seen = work[w].seen /\ r.answer = answer
    BY Zenon, <1>1 DEF WorkRow
  <1>3. r \in WorkRow
    BY Zenon, <1>1 DEF WorkRow
  <1>4. work' = [work EXCEPT ![w] = r]
    BY Zenon, <1>1
  <1>5. pc # "idle"
    BY Zenon
  <1> HIDE DEF r
  <1> QED
    BY Zenon, <1>1, <1>2, <1>3, <1>4, <1>5, WorkWritten DEF GoesOn

Claimed(w, j) ==
    /\ Moves(w) /\ work'[w].pc = "begin" /\ work'[w].job = j /\ work'[w].gen = jobs[j].gen
    /\ ~work'[w].landed
    /\ jobs' \in [Ids -> JobRow] /\ jobs'[j].state = "running" /\ jobs'[j].holder = w
    /\ jobs'[j].gen = jobs[j].gen /\ jobs'[j].attempts = jobs[j].attempts + 1
    /\ \A i \in Ids : i # j => jobs'[i] = jobs[i]

LEMMA ClaimMoves ==
    ASSUME Types, NEW w \in Workers, NEW j \in Ids, Claim(w, j), j \in Nat
    PROVE  Claimed(w, j)
  <1> DEFINE r == [Idle EXCEPT !.pc = "begin", !.job = j, !.gen = jobs[j].gen]
             q == [jobs[j] EXCEPT !.state = "running", !.attempts = jobs[j].attempts + 1,
                                  !.holder = w]
  <1>1. /\ jobs[j] \in JobRow /\ jobs \in [Ids -> JobRow] /\ work \in [Workers -> WorkRow]
        /\ Idle \in WorkRow
    BY Zenon, RowTypes DEF Types
  <1>2. jobs[j].gen \in Nat /\ jobs[j].attempts \in Nat
    BY Zenon, <1>1, JobFields
  <1>3. jobs[j].attempts + 1 \in Nat
    BY <1>2
  <1>4. r \in WorkRow /\ r.pc = "begin" /\ r.job = j /\ r.gen = jobs[j].gen /\ ~r.landed
    BY Zenon, <1>1, <1>2 DEF WorkRow, Idle
  <1>5. /\ q \in JobRow /\ q.state = "running" /\ q.holder = w /\ q.gen = jobs[j].gen
        /\ q.attempts = jobs[j].attempts + 1
    BY Zenon, <1>1, <1>3 DEF JobRow
  <1>6. work' = [work EXCEPT ![w] = r] /\ jobs' = [jobs EXCEPT ![j] = q]
    BY Zenon, <1>1 DEF Claim
  <1> HIDE DEF r, q
  <1> QED
    BY Zenon, <1>1, <1>4, <1>5, <1>6, WorkWritten DEF Claimed


(* Jobs stay where they are while their workers go on. *)
LEMMA HeldGoesOn ==
    ASSUME HeldInv, NEW w \in Workers, GoesOn(w), UNCHANGED <<jobs, late>>
    PROVE  HeldInv'
  <1>1. \A v \in Workers :
           /\ work'[v].pc # "idle" <=> work[v].pc # "idle"
           /\ work'[v].job = work[v].job /\ work'[v].gen = work[v].gen
    BY Zenon DEF GoesOn, Moves
  <1>2. ASSUME NEW v \in Workers, work'[v].pc # "idle"
        PROVE  Holds(v)' /\ jobs'[work'[v].job].gen = work'[v].gen
    <2>1. Holds(v) /\ jobs[work[v].job].gen = work[v].gen
      BY Zenon, <1>1, <1>2 DEF HeldInv
    <2>2. work'[v].job = work[v].job /\ work'[v].gen = work[v].gen /\ jobs' = jobs
      BY Zenon, <1>1
    <2> QED
      BY Zenon, <2>1, <2>2 DEF Holds
  <1>3. ASSUME NEW i \in Ids, jobs'[i].state = "running"
        PROVE  /\ jobs'[i].holder \in Workers
               /\ work'[jobs'[i].holder].pc # "idle" /\ work'[jobs'[i].holder].job = i
    BY Zenon, <1>1, <1>3 DEF HeldInv
  <1> QED
    BY Zenon, <1>2, <1>3 DEF HeldInv

(* A pending row keeps its job when a worker moves that does not run it. *)
LEMMA StillPending ==
    ASSUME HeldInv, NEW w \in Workers, Moves(w), UNCHANGED <<jobs, gen>>,
           NEW j \in Ids, jobs[j].gen = gen, WillSync(j),
           jobs[j].state = "running" => jobs[j].holder # w
    PROVE  \E i \in Ids : jobs'[i].gen = gen' /\ WillSync(i)'
  <1>1. jobs[j].state = "running" => work'[jobs[j].holder] = work[jobs[j].holder]
    BY Zenon DEF HeldInv, Moves
  <1>2. WillSync(j)'
    BY Zenon, <1>1 DEF WillSync
  <1> QED
    BY Zenon, <1>2

(* A worker that was not editing moves: what was disturbed still is, and the *)
(* caption stays what it was.                                                *)
LEMMA CurrentKeeps ==
    ASSUME CurrentInv, PendingInv, ColumnsInv, None \notin Workers, claim \in Workers \cup {None},
           NEW w \in Workers, Moves(w), ~Working(w), UNCHANGED <<meta, gen, caption>>,
           Working(w)' /\ work'[w].gen = gen => work'[w].seen = meta,
           \/ sync' = "syncing" /\ ~work'[claim'].landed
           \/ sync' = sync /\ claim' = claim
           \/ sync' \in {"pending", "failed"}
    PROVE  CurrentInv'
  <1>1. \A v \in Workers : v # w => work'[v] = work[v]
    BY Zenon DEF Moves
  <1>2. Disturbed => Disturbed'
    BY Zenon, <1>1 DEF Disturbed, Working
  <1>3. ASSUME NEW v \in Workers, Working(v)', work'[v].gen = gen' PROVE work'[v].seen = meta'
    BY Zenon, <1>1, <1>3 DEF CurrentInv, Working
  <1>4. sync = "syncing" => claim \in Workers /\ claim # w
    BY Zenon DEF ColumnsInv, PendingInv
  <1>5. sync' = "syncing" /\ work'[claim'].landed => caption' = meta' \/ Disturbed'
    BY Zenon, <1>1, <1>2, <1>4 DEF CurrentInv
  <1>6. sync' = "synced" => caption' = meta' \/ Disturbed'
    BY Zenon, <1>2 DEF CurrentInv
  <1> QED
    BY Zenon, <1>3, <1>5, <1>6 DEF CurrentInv

(* begin_caption_sync *)
LEMMA BeginKeeps ==
    ASSUME CaptionSyncAssumption, CaptionInv, NEW w \in Workers, BeginCaptionSync(w)
    PROVE  CaptionInv'
  <1>1. /\ GoesOn(w) /\ work'[w].landed = work[w].landed
        /\ IF Due(work[w].gen) THEN work'[w].pc = "edit" /\ work'[w].seen = meta
           ELSE work'[w].pc = "settle"
    BY Zenon, BeginMoves DEF CaptionInv
  <1>2. /\ work[w].pc = "begin" /\ work[w].job \in Ids /\ HasStorageMessage
        /\ UNCHANGED <<storage, upload, meta, gen, jobs, telegram, bounds>>
        /\ IF Due(work[w].gen) THEN sync' = "syncing" /\ claim' = w ELSE UNCHANGED <<sync, claim>>
    BY Zenon DEF BeginCaptionSync, CaptionInv, WorkInv
  <1>3. work' \in [Workers -> WorkRow] /\ \A v \in Workers : v # w => work'[v] = work[v]
    BY Zenon, <1>1 DEF GoesOn, Moves
  <1>4. Types'
    BY Zenon, <1>2, <1>3 DEF CaptionInv, Types, telegram, bounds
  <1>5. ColumnsInv' /\ JobsInv'
    BY Zenon, <1>2 DEF CaptionInv, ColumnsInv, JobsInv, HasStorageMessage, CaptionSyncAssumption
  <1>6. WorkInv'
    BY Zenon, <1>1, <1>2, <1>3 DEF CaptionInv, WorkInv, HasStorageMessage, GoesOn
  <1>7. ShownInv'
    <2>1. ~work'[w].landed /\ work'[w].pc \notin {"begin", "complete"}
      BY Zenon, <1>1, <1>2 DEF CaptionInv, ShownInv
    <2>2. SyncedWasShown'
      BY Zenon, <1>2 DEF CaptionInv, ShownInv, SyncedWasShown, telegram
    <2>3. ASSUME NEW v \in Workers
          PROVE  /\ Working(v)' /\ work'[v].landed => work'[v].gen \in shown'
                 /\ work'[v].pc = "complete" /\ work'[v].answer = "ok" => work'[v].landed
                 /\ work'[v].pc = "begin" => ~work'[v].landed
      BY Zenon, <1>2, <1>3, <2>1 DEF CaptionInv, ShownInv, Working, telegram
    <2> QED
      BY Zenon, <2>2, <2>3 DEF ShownInv
  <1>8. ASSUME faults = 0 PROVE HeldInv' /\ PendingInv'
    <2>1. HeldInv /\ PendingInv
      BY Zenon, <1>8 DEF CaptionInv
    <2>2. HeldInv'
      BY Zenon, <1>1, <1>2, <2>1, HeldGoesOn DEF telegram
    <2>3. CASE Due(work[w].gen)
      BY Zenon, <1>1, <1>2, <2>2, <2>3 DEF PendingInv, Working, GoesOn, Due
    <2>4. CASE ~Due(work[w].gen)
      <3>1. ASSUME sync = "pending" PROVE \E i \in Ids : jobs'[i].gen = gen' /\ WillSync(i)'
        <4>1. PICK j \in Ids : jobs[j].gen = gen /\ WillSync(j)
          BY Zenon, <3>1, <2>1 DEF PendingInv
        <4>2. jobs[j].state = "running" => jobs[j].holder # w
          <5> SUFFICES ASSUME jobs[j].state = "running", jobs[j].holder = w PROVE FALSE
            BY Zenon
          <5>1. work[w].job = j
            BY Zenon, <2>1 DEF HeldInv
          <5>2. jobs[j].gen = work[w].gen
            BY Zenon, <2>1, <5>1, <1>2 DEF HeldInv
          <5> QED
            BY Zenon, <5>2, <4>1, <3>1, <2>4, <1>2 DEF Due
        <4> QED
          BY Zenon, <4>1, <4>2, <2>1, <1>1, <1>2, StillPending DEF GoesOn
      <3>2. ASSUME sync = "syncing" PROVE (Working(claim) /\ work[claim].gen = gen)'
        <4>1. claim \in Workers /\ claim # w /\ Working(claim) /\ work[claim].gen = gen
          BY Zenon, <3>2, <2>1, <1>2 DEF CaptionInv, Types, ColumnsInv, PendingInv, Working
        <4> QED
          BY Zenon, <4>1, <1>2, <1>3, <2>4 DEF Working
      <3> QED
        BY Zenon, <2>2, <2>4, <1>2, <3>1, <3>2 DEF PendingInv, Working
    <2> QED
      BY Zenon, <2>2, <2>3, <2>4
  <1>9. ASSUME faults = 0, untracked = 0 PROVE CurrentInv'
    <2>1. CurrentInv /\ PendingInv /\ ColumnsInv /\ ~Working(w) /\ Moves(w)
      BY Zenon, <1>1, <1>2, <1>9 DEF CaptionInv, Working, GoesOn
    <2>2. Working(w)' /\ work'[w].gen = gen => work'[w].seen = meta
      BY Zenon, <1>1 DEF Working
    <2>3. ~work'[w].landed /\ None \notin Workers /\ claim \in Workers \cup {None}
      BY Zenon, <1>1, <1>2 DEF CaptionInv, ShownInv, Types, CaptionSyncAssumption
    <2> QED
      BY Zenon, <1>2, <2>1, <2>2, <2>3, CurrentKeeps DEF telegram
  <1> QED
    BY Zenon, <1>2, <1>4, <1>5, <1>6, <1>7, <1>8, <1>9 DEF CaptionInv, bounds


(* The claim of a job *)
LEMMA ClaimKeeps ==
    ASSUME CaptionSyncAssumption, CaptionInv, NEW w \in Workers, NEW j \in Ids, Claim(w, j)
    PROVE  CaptionInv'
  <1>1. Types /\ j \in Nat /\ MaxAttempts \in Nat
    BY DEF CaptionInv, CaptionSyncAssumption, Ids
  <1>2. /\ Moves(w) /\ work'[w].pc = "begin" /\ work'[w].job = j /\ work'[w].gen = jobs[j].gen
        /\ ~work'[w].landed
        /\ jobs' \in [Ids -> JobRow] /\ jobs'[j].state = "running" /\ jobs'[j].holder = w
        /\ jobs'[j].gen = jobs[j].gen /\ jobs'[j].attempts = jobs[j].attempts + 1
        /\ \A i \in Ids : i # j => jobs'[i] = jobs[i]
    <2>1. Claimed(w, j)
      BY Zenon, <1>1, ClaimMoves
    <2> QED
      BY Zenon, <2>1 DEF Claimed
  <1>3. work' \in [Workers -> WorkRow] /\ \A v \in Workers : v # w => work'[v] = work[v]
    BY Zenon, <1>2 DEF Moves
  <1>4. /\ work[w].pc = "idle" /\ jobs[j].state = "queued" /\ HasStorageMessage
        /\ UNCHANGED <<storage, upload, meta, gen, sync, claim, telegram, bounds>>
        /\ jobs[j].attempts \in Nat /\ jobs[j].attempts < MaxAttempts /\ jobs[j].gen <= gen
    BY Zenon, <1>1, JobFields DEF Claim, row, CaptionInv, JobsInv, Types
  <1>5. Types'
    BY Zenon, <1>1, <1>2, <1>3, <1>4 DEF Types, telegram, bounds
  <1>6. ColumnsInv' /\ WorkInv'
    BY Zenon, <1>2, <1>3, <1>4 DEF CaptionInv, ColumnsInv, WorkInv, HasStorageMessage
  <1>7. JobsInv'
    <2>1. jobs'[j].attempts <= MaxAttempts
      BY <1>1, <1>2, <1>4
    <2>2. ASSUME NEW i \in Ids
          PROVE  /\ jobs'[i].gen <= gen /\ jobs'[i].attempts <= MaxAttempts
                 /\ jobs'[i].state = "queued" => jobs'[i].attempts < MaxAttempts
      BY Zenon, <1>2, <1>4, <2>1 DEF CaptionInv, JobsInv
    <2> QED
      BY Zenon, <1>4, <2>2 DEF JobsInv, HasStorageMessage
  <1>8. ShownInv'
    BY Zenon, <1>2, <1>3, <1>4 DEF CaptionInv, ShownInv, Working, SyncedWasShown, telegram
  <1>9. ASSUME faults = 0 PROVE HeldInv' /\ PendingInv'
    <2>1. HeldInv /\ PendingInv /\ WorkInv
      BY Zenon, <1>9 DEF CaptionInv
    <2>2. ASSUME NEW v \in Workers, work'[v].pc # "idle"
          PROVE  Holds(v)' /\ jobs'[work'[v].job].gen = work'[v].gen
      <3>1. CASE v = w
        BY Zenon, <1>2, <3>1 DEF Holds
      <3>2. CASE v # w
        <4>1. work'[v] = work[v] /\ Holds(v) /\ jobs[work[v].job].gen = work[v].gen
              /\ work[v].job \in Ids
          BY Zenon, <1>3, <2>1, <2>2, <3>2 DEF HeldInv, WorkInv
        <4>2. jobs'[work[v].job] = jobs[work[v].job]
          BY Zenon, <4>1, <1>2, <1>4 DEF Holds
        <4> QED
          BY Zenon, <4>1, <4>2 DEF Holds
      <3> QED
        BY Zenon, <3>1, <3>2
    <2>3. ASSUME NEW i \in Ids, jobs'[i].state = "running"
          PROVE  /\ jobs'[i].holder \in Workers
                 /\ work'[jobs'[i].holder].pc # "idle" /\ work'[jobs'[i].holder].job = i
      <3>1. CASE i = j
        BY Zenon, <1>2, <3>1
      <3>2. CASE i # j
        <4>1. jobs'[i] = jobs[i] /\ jobs[i].state = "running"
          BY Zenon, <1>2, <2>3, <3>2
        <4>2. /\ jobs[i].holder \in Workers
              /\ work[jobs[i].holder].pc # "idle" /\ work[jobs[i].holder].job = i
          BY Zenon, <2>1, <4>1 DEF HeldInv
        <4>3. work'[jobs[i].holder] = work[jobs[i].holder]
          BY Zenon, <1>3, <1>4, <4>2
        <4> QED
          BY Zenon, <4>1, <4>2, <4>3
      <3> QED
        BY Zenon, <3>1, <3>2
    <2>4. HeldInv'
      BY Zenon, <1>4, <2>1, <2>2, <2>3 DEF HeldInv, telegram
    <2>5. ASSUME sync = "pending" PROVE \E i \in Ids : jobs'[i].gen = gen' /\ WillSync(i)'
      <3>1. PICK i \in Ids : jobs[i].gen = gen /\ WillSync(i)
        BY Zenon, <2>1, <2>5 DEF PendingInv
      <3>2. CASE i = j
        BY Zenon, <1>2, <1>4, <3>1, <3>2 DEF WillSync
      <3>3. CASE i # j
        <4>1. jobs[i].state = "running" => work'[jobs[i].holder] = work[jobs[i].holder]
          BY Zenon, <1>3, <1>4, <2>1 DEF HeldInv
        <4>2. WillSync(i)'
          BY Zenon, <4>1, <3>1, <3>3, <1>2 DEF WillSync
        <4> QED
          BY Zenon, <4>2, <3>1, <3>3, <1>2, <1>4
      <3> QED
        BY Zenon, <3>2, <3>3
    <2>6. ASSUME sync = "syncing" PROVE (Working(claim) /\ work[claim].gen = gen)'
      <3>1. claim \in Workers /\ claim # w /\ Working(claim) /\ work[claim].gen = gen
        BY Zenon, <1>4, <2>1, <2>6 DEF CaptionInv, Types, ColumnsInv, PendingInv, Working
      <3> QED
        BY Zenon, <1>3, <1>4, <3>1 DEF Working
    <2> QED
      BY Zenon, <1>4, <2>4, <2>5, <2>6 DEF PendingInv
  <1>10. ASSUME faults = 0, untracked = 0 PROVE CurrentInv'
    <2>1. /\ CurrentInv /\ PendingInv /\ ColumnsInv /\ ~Working(w) /\ Moves(w) /\ ~Working(w)'
          /\ None \notin Workers /\ claim \in Workers \cup {None}
      BY Zenon, <1>1, <1>2, <1>4, <1>10 DEF CaptionInv, Working, Types, CaptionSyncAssumption
    <2> QED
      BY Zenon, <1>4, <2>1, CurrentKeeps DEF telegram
  <1> QED
    BY Zenon, <1>4, <1>5, <1>6, <1>7, <1>8, <1>9, <1>10 DEF CaptionInv, bounds

(* A worker goes on with its edit: the row and its jobs are as before. *)
LEMMA EditingKeeps ==
    ASSUME CaptionInv, NEW w \in Workers, GoesOn(w), work[w].pc = "edit", Working(w)',
           UNCHANGED <<row, jobs, late, bounds>>, caption' \in Metas \cup {None}
    PROVE  /\ Types' /\ ColumnsInv' /\ JobsInv' /\ WorkInv'
           /\ faults = 0 => HeldInv' /\ PendingInv'
  <1>1. /\ work' \in [Workers -> WorkRow] /\ \A v \in Workers : v # w => work'[v] = work[v]
        /\ Moves(w) /\ work'[w].job = work[w].job /\ work'[w].gen = work[w].gen
    BY Zenon DEF GoesOn, Moves
  <1>2. Types'
    BY Zenon, <1>1 DEF CaptionInv, Types, row, bounds
  <1>3. ColumnsInv' /\ JobsInv'
    BY Zenon DEF CaptionInv, ColumnsInv, JobsInv, HasStorageMessage, row
  <1>4. WorkInv'
    BY Zenon, <1>1 DEF CaptionInv, WorkInv, HasStorageMessage, row
  <1>5. ASSUME faults = 0 PROVE HeldInv' /\ PendingInv'
    <2>1. HeldInv /\ PendingInv
      BY Zenon, <1>5 DEF CaptionInv
    <2>2. HeldInv'
      BY Zenon, <2>1, HeldGoesOn
    <2>3. ASSUME sync = "pending" PROVE \E i \in Ids : jobs'[i].gen = gen' /\ WillSync(i)'
      <3>1. PICK j \in Ids : jobs[j].gen = gen /\ WillSync(j)
        BY Zenon, <2>1, <2>3 DEF PendingInv
      <3>2. jobs[j].state = "running" => jobs[j].holder # w
        BY Zenon, <3>1 DEF WillSync
      <3> QED
        BY Zenon, <1>1, <2>1, <3>1, <3>2, StillPending DEF row
    <2>4. ASSUME sync = "syncing" PROVE (Working(claim) /\ work[claim].gen = gen)'
      <3>1. claim \in Workers /\ Working(claim) /\ work[claim].gen = gen
        BY Zenon, <2>1, <2>4 DEF CaptionInv, Types, ColumnsInv, PendingInv
      <3>2. claim' = claim /\ gen' = gen
        BY Zenon DEF row
      <3>3. CASE claim = w
        BY Zenon, <1>1, <3>1, <3>2, <3>3
      <3>4. CASE claim # w
        BY Zenon, <1>1, <3>1, <3>2, <3>4 DEF Working
      <3> QED
        BY Zenon, <3>3, <3>4
    <2> QED
      BY Zenon, <2>2, <2>3, <2>4 DEF PendingInv, row
  <1> QED
    BY Zenon, <1>2, <1>3, <1>4, <1>5


(* Telegram applies the edit. *)
LEMMA LandKeeps ==
    ASSUME CaptionInv, NEW w \in Workers, Land(w)
    PROVE  CaptionInv'
  <1>1. /\ GoesOn(w) /\ work'[w].landed /\ work'[w].pc = "edit" /\ work'[w].seen = work[w].seen
    BY Zenon, LandMoves DEF CaptionInv
  <1>2. /\ work[w].pc = "edit" /\ caption' = work[w].seen /\ shown' = shown \cup {work[w].gen}
        /\ UNCHANGED <<row, jobs, late, bounds>> /\ work[w] \in WorkRow
    BY Zenon DEF Land, CaptionInv, Types
  <1>3. /\ \A v \in Workers : v # w => work'[v] = work[v]
        /\ work'[w].gen = work[w].gen
    BY Zenon, <1>1 DEF GoesOn, Moves
  <1>4. caption' \in Metas \cup {None} /\ Working(w)' /\ Working(w)
    BY Zenon, <1>1, <1>2, WorkFields DEF Working
  <1>5. /\ Types' /\ ColumnsInv' /\ JobsInv' /\ WorkInv'
        /\ faults = 0 => HeldInv' /\ PendingInv'
    BY Zenon, <1>1, <1>2, <1>4, EditingKeeps
  <1>6. ShownInv'
    <2>1. SyncedWasShown'
      BY Zenon, <1>2 DEF CaptionInv, ShownInv, SyncedWasShown, row
    <2>2. ASSUME NEW v \in Workers
          PROVE  /\ Working(v)' /\ work'[v].landed => work'[v].gen \in shown'
                 /\ work'[v].pc = "complete" /\ work'[v].answer = "ok" => work'[v].landed
                 /\ work'[v].pc = "begin" => ~work'[v].landed
      <3>1. CASE v = w
        BY Zenon, <1>1, <1>2, <1>3, <3>1
      <3>2. CASE v # w
        BY Zenon, <1>2, <1>3, <3>2 DEF CaptionInv, ShownInv, Working
      <3> QED
        BY Zenon, <3>1, <3>2
    <2> QED
      BY Zenon, <2>1, <2>2 DEF ShownInv
  <1>7. ASSUME faults = 0, untracked = 0 PROVE CurrentInv'
    <2>1. CurrentInv /\ meta' = meta /\ gen' = gen
      BY Zenon, <1>2, <1>7 DEF CaptionInv, row
    <2>2. ASSUME NEW v \in Workers, Working(v)', work'[v].gen = gen PROVE work'[v].seen = meta
      <3>1. Working(v) /\ work[v].gen = gen /\ work'[v].seen = work[v].seen
        BY Zenon, <1>1, <1>3, <1>4, <2>2 DEF Working
      <3> QED
        BY Zenon, <2>1, <3>1 DEF CurrentInv
    <2>3. CASE work[w].gen = gen
      <3>1. caption' = meta
        BY Zenon, <1>2, <1>4, <2>1, <2>3 DEF CurrentInv
      <3> QED
        BY Zenon, <2>1, <2>2, <3>1 DEF CurrentInv
    <2>4. CASE work[w].gen # gen
      <3>1. Disturbed'
        BY Zenon, <1>3, <1>4, <2>1, <2>4 DEF Disturbed
      <3> QED
        BY Zenon, <2>1, <2>2, <3>1 DEF CurrentInv
    <2> QED
      BY Zenon, <2>3, <2>4
  <1> QED
    BY Zenon, <1>2, <1>5, <1>6, <1>7 DEF CaptionInv, bounds

(* Telegram answers. *)
LEMMA EditKeeps ==
    ASSUME CaptionInv, NEW w \in Workers, NEW answer \in {"ok", "retryable", "permanent"},
           EditStorageCaption(w, answer)
    PROVE  CaptionInv'
  <1>1. /\ work[w].pc = "edit" /\ (answer = "ok" => work[w].landed)
        /\ UNCHANGED <<row, jobs, telegram, bounds>>
        /\ work' = [work EXCEPT ![w].pc = "complete", ![w].answer = answer]
    BY Zenon DEF EditStorageCaption
  <1>2. /\ GoesOn(w) /\ work'[w].pc = "complete" /\ work'[w].answer = answer
        /\ work'[w].landed = work[w].landed /\ work'[w].seen = work[w].seen
    <2>1. PICK pc \in {"complete", "settle"} : pc = "complete"
      BY Zenon
    <2>2. work[w].pc # "idle" /\ work' = [work EXCEPT ![w].pc = pc, ![w].answer = answer]
      BY Zenon, <1>1, <2>1
    <2>3. /\ GoesOn(w) /\ work'[w].pc = pc /\ work'[w].answer = answer
          /\ work'[w].landed = work[w].landed /\ work'[w].seen = work[w].seen
      BY Zenon, <2>2, AnswerMoves DEF CaptionInv
    <2> QED
      BY Zenon, <2>1, <2>3
  <1>3. /\ \A v \in Workers : v # w => work'[v] = work[v]
        /\ work'[w].gen = work[w].gen
    BY Zenon, <1>2 DEF GoesOn, Moves
  <1>4. /\ Working(w)' /\ Working(w) /\ late' = late /\ caption' = caption /\ shown' = shown
        /\ caption' \in Metas \cup {None}
    BY Zenon, <1>1, <1>2 DEF Working, telegram, CaptionInv, Types
  <1>5. /\ Types' /\ ColumnsInv' /\ JobsInv' /\ WorkInv'
        /\ faults = 0 => HeldInv' /\ PendingInv'
    BY Zenon, <1>1, <1>2, <1>4, EditingKeeps
  <1>6. ShownInv'
    <2>1. SyncedWasShown'
      BY Zenon, <1>1, <1>4 DEF CaptionInv, ShownInv, SyncedWasShown, row
    <2>2. ASSUME NEW v \in Workers
          PROVE  /\ Working(v)' /\ work'[v].landed => work'[v].gen \in shown'
                 /\ work'[v].pc = "complete" /\ work'[v].answer = "ok" => work'[v].landed
                 /\ work'[v].pc = "begin" => ~work'[v].landed
      <3>1. CASE v = w
        <4>1. work[w].landed => work[w].gen \in shown
          BY Zenon, <1>4 DEF CaptionInv, ShownInv
        <4>2. work'[w].answer = "ok" => work'[w].landed
          BY Zenon, <1>1, <1>2
        <4>3. work'[w].landed => work'[w].gen \in shown'
          BY Zenon, <1>2, <1>3, <1>4, <4>1
        <4>4. work'[w].pc # "begin"
          BY Zenon, <1>2
        <4> QED
          BY Zenon, <3>1, <4>2, <4>3, <4>4
      <3>2. CASE v # w
        BY Zenon, <1>3, <1>4, <3>2 DEF CaptionInv, ShownInv, Working
      <3> QED
        BY Zenon, <3>1, <3>2
    <2> QED
      BY Zenon, <2>1, <2>2 DEF ShownInv
  <1>7. ASSUME faults = 0, untracked = 0 PROVE CurrentInv'
    <2>1. /\ CurrentInv /\ meta' = meta /\ gen' = gen /\ sync' = sync /\ claim' = claim
          /\ sync = "syncing" => claim \in Workers
      BY Zenon, <1>1, <1>7 DEF CaptionInv, row, Types, ColumnsInv
    <2>2. \A v \in Workers : /\ Working(v)' <=> Working(v)
                             /\ work'[v].gen = work[v].gen /\ work'[v].seen = work[v].seen
                             /\ work'[v].landed = work[v].landed
      BY Zenon, <1>2, <1>3, <1>4 DEF Working
    <2>3. Disturbed => Disturbed'
      BY Zenon, <2>1, <2>2 DEF Disturbed
    <2> QED
      BY Zenon, <1>4, <2>1, <2>2, <2>3 DEF CurrentInv
  <1> QED
    BY Zenon, <1>1, <1>5, <1>6, <1>7 DEF CaptionInv, bounds


(* A job is inserted while a worker goes on with another one. *)
LEMMA HeldEnqueued ==
    ASSUME HeldInv, WorkInv, NEW w \in Workers, GoesOn(w), late' = late,
           NEW k \in Ids, jobs[k].state = "gone", jobs'[k].state = "queued",
           \A i \in Ids : i # k => jobs'[i] = jobs[i]
    PROVE  HeldInv'
  <1>1. \A v \in Workers :
           /\ work'[v].pc # "idle" <=> work[v].pc # "idle"
           /\ work'[v].job = work[v].job /\ work'[v].gen = work[v].gen
    BY Zenon DEF GoesOn, Moves
  <1>2. ASSUME NEW v \in Workers, work'[v].pc # "idle"
        PROVE  Holds(v)' /\ jobs'[work'[v].job].gen = work'[v].gen
    <2>1. Holds(v) /\ jobs[work[v].job].gen = work[v].gen /\ work[v].job \in Ids
      BY Zenon, <1>1, <1>2 DEF HeldInv, WorkInv
    <2>2. jobs'[work[v].job] = jobs[work[v].job]
      BY Zenon, <2>1 DEF Holds
    <2>3. work'[v].job = work[v].job /\ work'[v].gen = work[v].gen
      BY Zenon, <1>1
    <2> QED
      BY Zenon, <2>1, <2>2, <2>3 DEF Holds
  <1>3. ASSUME NEW i \in Ids, jobs'[i].state = "running"
        PROVE  /\ jobs'[i].holder \in Workers
               /\ work'[jobs'[i].holder].pc # "idle" /\ work'[jobs'[i].holder].job = i
    <2>1. jobs'[i] = jobs[i]
      BY Zenon, <1>3
    <2> QED
      BY Zenon, <1>1, <1>3, <2>1 DEF HeldInv
  <1> QED
    BY Zenon, <1>2, <1>3 DEF HeldInv

(* The handler has recorded the outcome. *)
LEMMA SyncMoves ==
    ASSUME Types, NEW w \in Workers, SyncStorageCaption(w)
    PROVE  /\ GoesOn(w) /\ work'[w].pc = "settle"
           /\ Retryable(w) => work'[w].answer = "retryable"
  <1> DEFINE a == IF work[w].answer = "ok" \/ Retryable(w) THEN work[w].answer ELSE "permanent"
             r == [work[w] EXCEPT !.pc = "settle", !.answer = a]
  <1>1. /\ work[w] \in WorkRow /\ work \in [Workers -> WorkRow] /\ work[w].pc = "complete"
    BY Zenon DEF Types, SyncStorageCaption
  <1>2. a \in {"ok", "retryable", "permanent"} /\ (Retryable(w) => a = "retryable")
    BY Zenon DEF Retryable
  <1>3. work' = [work EXCEPT ![w] = r]
    BY Zenon, <1>1 DEF SyncStorageCaption
  <1> HIDE DEF a
  <1>4. r \in WorkRow
    BY Zenon, <1>1, <1>2 DEF WorkRow
  <1>5. /\ r.pc = "settle" /\ r.answer = a /\ r.job = work[w].job /\ r.gen = work[w].gen
    BY Zenon, <1>1 DEF WorkRow
  <1> HIDE DEF r
  <1> QED
    BY Zenon, <1>1, <1>2, <1>3, <1>4, <1>5, WorkWritten DEF GoesOn

(* complete_caption_sync, for another generation: the current one is opened again. *)
LEMMA ReapplyKeeps ==
    ASSUME CaptionSyncAssumption, CaptionInv, NEW w \in Workers, SyncStorageCaption(w),
           gen # work[w].gen
    PROVE  CaptionInv'
  <1>1. GoesOn(w) /\ work'[w].pc = "settle"
    BY Zenon, SyncMoves DEF CaptionInv
  <1>2. /\ work[w].pc = "complete" /\ HasStorageMessage /\ WorkInv
        /\ UNCHANGED <<storage, upload, meta, gen, telegram, bounds>>
        /\ ReapplyCurrent(w)
    BY Zenon DEF SyncStorageCaption, CompleteCaptionSync, CaptionInv, WorkInv
  <1>3. PICK k \in Ids : jobs[k].state = "gone" /\ jobs' = [jobs EXCEPT ![k] = NewJob(gen)]
    BY Zenon, <1>2, Enqueued DEF ReapplyCurrent
  <1>4. jobs \in [Ids -> JobRow] /\ gen \in 0 .. MaxGeneration /\ MaxAttempts \in Nat \ {0}
    BY Zenon DEF CaptionInv, Types, CaptionSyncAssumption
  <1>5. gen \in Nat /\ gen <= gen /\ 0 < MaxAttempts /\ 0 <= MaxAttempts
    BY <1>4
  <1>6. /\ jobs' \in [Ids -> JobRow] /\ jobs'[k] = NewJob(gen)
        /\ \A i \in Ids : i # k => jobs'[i] = jobs[i]
    BY Zenon, <1>3, <1>4, <1>5, RowTypes
  <1>7. /\ NewJob(gen).state = "queued" /\ NewJob(gen).gen = gen /\ NewJob(gen).attempts = 0
    BY Zenon DEF NewJob
  <1>8. /\ work' \in [Workers -> WorkRow] /\ \A v \in Workers : v # w => work'[v] = work[v]
        /\ work'[w].job = work[w].job
    BY Zenon, <1>1 DEF GoesOn, Moves
  <1>9. sync' = "pending" /\ claim' = None
    BY Zenon, <1>2 DEF ReapplyCurrent
  <1>10. Types'
    BY Zenon, <1>2, <1>6, <1>8, <1>9 DEF CaptionInv, Types, telegram, bounds
  <1>11. ColumnsInv'
    BY Zenon, <1>2, <1>9 DEF ColumnsInv, HasStorageMessage
  <1>12. JobsInv'
    <2>1. ASSUME NEW i \in Ids
          PROVE  /\ jobs'[i].gen <= gen /\ jobs'[i].attempts <= MaxAttempts
                 /\ jobs'[i].state = "queued" => jobs'[i].attempts < MaxAttempts
      <3>1. CASE i = k
        BY Zenon, <3>1, <1>5, <1>6, <1>7
      <3>2. CASE i # k
        BY Zenon, <3>2, <1>6 DEF CaptionInv, JobsInv
      <3> QED
        BY Zenon, <3>1, <3>2
    <2> QED
      BY Zenon, <1>2, <2>1 DEF JobsInv, HasStorageMessage
  <1>13. WorkInv'
    BY Zenon, <1>1, <1>2, <1>8 DEF WorkInv, HasStorageMessage
  <1>14. ShownInv'
    BY Zenon, <1>1, <1>2, <1>8, <1>9 DEF CaptionInv, ShownInv, Working, SyncedWasShown, telegram
  <1>15. ASSUME faults = 0 PROVE HeldInv' /\ PendingInv'
    <2>1. HeldInv
      BY Zenon, <1>15 DEF CaptionInv
    <2>2. HeldInv'
      BY Zenon, <1>1, <1>2, <1>3, <1>6, <1>7, <2>1, HeldEnqueued DEF telegram
    <2>3. PendingInv'
      BY Zenon, <1>2, <1>6, <1>7, <1>9 DEF PendingInv, WillSync
    <2> QED
      BY Zenon, <2>2, <2>3
  <1>16. ASSUME faults = 0, untracked = 0 PROVE CurrentInv'
    BY Zenon, <1>1, <1>2, <1>8, <1>9, <1>16 DEF CaptionInv, CurrentInv, Working
  <1> QED
    BY Zenon, <1>2, <1>10, <1>11, <1>12, <1>13, <1>14, <1>15, <1>16 DEF CaptionInv, bounds


(* complete_caption_sync, for the current generation: the row follows the outcome  *)
(* if the claim is still the worker's, and is left alone if it is not.             *)
LEMMA OutcomeKeeps ==
    ASSUME CaptionSyncAssumption, CaptionInv, NEW w \in Workers, SyncStorageCaption(w),
           gen = work[w].gen
    PROVE  CaptionInv'
  <1>1. /\ GoesOn(w) /\ work'[w].pc = "settle"
        /\ Retryable(w) => work'[w].answer = "retryable"
    BY Zenon, SyncMoves DEF CaptionInv
  <1>2. /\ work[w].pc = "complete" /\ HasStorageMessage /\ WorkInv /\ Working(w)
        /\ UNCHANGED <<storage, upload, meta, gen, jobs, telegram, bounds>>
        /\ ~ClaimHolds(w) => UNCHANGED <<sync, claim>>
        /\ ClaimHolds(w) => /\ sync' = CASE work[w].answer = "ok" -> "synced"
                                         [] Retryable(w) -> "pending"
                                         [] OTHER -> "failed"
                            /\ claim' = None
    BY Zenon DEF SyncStorageCaption, CompleteCaptionSync, CaptionInv, WorkInv, Working
  <1>3. /\ work' \in [Workers -> WorkRow] /\ \A v \in Workers : v # w => work'[v] = work[v]
        /\ work'[w].job = work[w].job /\ Moves(w)
    BY Zenon, <1>1 DEF GoesOn, Moves
  <1>4. ClaimHolds(w) => /\ sync' \in {"synced", "pending", "failed"} /\ claim' = None
                         /\ sync' = "synced" => work[w].landed
                         /\ sync' = "pending" => Retryable(w)
    <2>1. work[w].answer = "ok" => work[w].landed
      BY Zenon, <1>2 DEF CaptionInv, ShownInv
    <2> QED
      BY Zenon, <1>2, <2>1
  <1>5. Types'
    BY Zenon, <1>2, <1>3, <1>4 DEF CaptionInv, Types, telegram, bounds
  <1>6. ColumnsInv'
    BY Zenon, <1>2, <1>4 DEF CaptionInv, ColumnsInv, HasStorageMessage
  <1>7. JobsInv' /\ WorkInv'
    BY Zenon, <1>1, <1>2, <1>3 DEF CaptionInv, JobsInv, WorkInv, HasStorageMessage
  <1>8. ShownInv'
    <2>1. SyncedWasShown'
      <3>1. work[w].landed => gen \in shown
        BY Zenon, <1>2 DEF CaptionInv, ShownInv
      <3> QED
        BY Zenon, <3>1, <1>2, <1>4 DEF CaptionInv, ShownInv, SyncedWasShown, telegram
    <2>2. ASSUME NEW v \in Workers
          PROVE  /\ Working(v)' /\ work'[v].landed => work'[v].gen \in shown'
                 /\ work'[v].pc = "complete" /\ work'[v].answer = "ok" => work'[v].landed
                 /\ work'[v].pc = "begin" => ~work'[v].landed
      BY Zenon, <1>1, <1>2, <1>3 DEF CaptionInv, ShownInv, Working, telegram
    <2> QED
      BY Zenon, <2>1, <2>2 DEF ShownInv
  <1>9. ASSUME faults = 0 PROVE HeldInv' /\ PendingInv'
    <2>1. HeldInv /\ PendingInv
      BY Zenon, <1>9 DEF CaptionInv
    <2>2. HeldInv'
      BY Zenon, <1>1, <1>2, <2>1, HeldGoesOn DEF telegram
    <2>3. CASE ClaimHolds(w)
      <3>1. ASSUME sync' = "pending" PROVE \E i \in Ids : jobs'[i].gen = gen' /\ WillSync(i)'
        <4>1. /\ Holds(w) /\ jobs[work[w].job].gen = gen /\ work[w].job \in Ids
          BY Zenon, <1>2, <2>1 DEF HeldInv, WorkInv
        <4>2. Retryable(w) /\ jobs' = jobs /\ gen' = gen
          BY Zenon, <1>2, <1>4, <2>3, <3>1
        <4>3. PICK j \in Ids : j = work[w].job
          BY Zenon, <4>1
        <4>4. WillSync(j)'
          <5>1. jobs[j].attempts < MaxAttempts
            BY Zenon, <4>2, <4>3 DEF Retryable, Attempts
          <5> QED
            BY Zenon, <4>1, <4>2, <4>3, <5>1, <1>1 DEF WillSync, Holds
        <4> QED
          BY Zenon, <4>1, <4>2, <4>3, <4>4
      <3> QED
        BY Zenon, <1>4, <2>2, <2>3, <3>1 DEF PendingInv
    <2>4. CASE ~ClaimHolds(w)
      <3>1. ASSUME sync = "pending" PROVE \E i \in Ids : jobs'[i].gen = gen' /\ WillSync(i)'
        <4>1. PICK j \in Ids : jobs[j].gen = gen /\ WillSync(j)
          BY Zenon, <2>1, <3>1 DEF PendingInv
        <4>2. jobs[j].state = "running" => jobs[j].holder # w
          BY Zenon, <1>2, <4>1 DEF WillSync
        <4> QED
          BY Zenon, <1>2, <1>3, <2>1, <4>1, <4>2, StillPending
      <3>2. ASSUME sync = "syncing" PROVE (Working(claim) /\ work[claim].gen = gen)'
        <4>1. claim \in Workers /\ claim # w /\ Working(claim) /\ work[claim].gen = gen
          BY Zenon, <2>1, <2>4, <3>2 DEF CaptionInv, Types, ColumnsInv, PendingInv, ClaimHolds
        <4> QED
          BY Zenon, <1>2, <1>3, <2>4, <4>1 DEF Working
      <3> QED
        BY Zenon, <1>2, <2>2, <2>4, <3>1, <3>2 DEF PendingInv
    <2> QED
      BY Zenon, <2>3, <2>4
  <1>10. ASSUME faults = 0, untracked = 0 PROVE CurrentInv'
    <2>1. CurrentInv /\ PendingInv
      BY Zenon, <1>10 DEF CaptionInv
    <2>2. Disturbed => Disturbed'
      BY Zenon, <1>2, <1>3 DEF Disturbed, Working
    <2>3. ASSUME NEW v \in Workers, Working(v)', work'[v].gen = gen' PROVE work'[v].seen = meta'
      <3>1. v # w
        BY Zenon, <1>1, <2>3 DEF Working
      <3> QED
        BY Zenon, <1>2, <1>3, <2>1, <2>3, <3>1 DEF CurrentInv, Working
    <2>4. CASE ClaimHolds(w)
      <3>1. work[w].landed => caption = meta \/ Disturbed
        BY Zenon, <2>1, <2>4 DEF CurrentInv, ClaimHolds
      <3> QED
        BY Zenon, <1>2, <1>4, <2>2, <2>3, <2>4, <3>1 DEF CurrentInv, telegram
    <2>5. CASE ~ClaimHolds(w)
      <3>1. sync = "syncing" => claim \in Workers /\ claim # w
        BY Zenon, <2>5 DEF CaptionInv, Types, ColumnsInv, ClaimHolds
      <3>2. sync = "syncing" => work'[claim] = work[claim]
        BY Zenon, <1>3, <3>1
      <3> QED
        BY Zenon, <1>2, <2>1, <2>2, <2>3, <2>5, <3>2 DEF CurrentInv, telegram
    <2> QED
      BY Zenon, <2>4, <2>5
  <1> QED
    BY Zenon, <1>2, <1>5, <1>6, <1>7, <1>8, <1>9, <1>10 DEF CaptionInv, bounds


-----------------------------------------------------------------------------
(* The end of an attempt *)

(* The row is left alone, or a caption in the making is released. *)
Released(terminal) ==
    \/ UNCHANGED <<sync, claim>>
    \/ sync = "syncing" /\ sync' = (IF terminal THEN "failed" ELSE "pending") /\ claim' = None

LEMMA JobEnds ==
    ASSUME Types, NEW j \in Ids, NEW terminal \in BOOLEAN, EndedOrQueued(j, terminal)
    PROVE  /\ jobs' \in [Ids -> JobRow] /\ \A i \in Ids : i # j => jobs'[i] = jobs[i]
           /\ terminal => jobs'[j] = Gone
           /\ ~terminal => /\ jobs'[j].state = "queued" /\ jobs'[j].gen = jobs[j].gen
                           /\ jobs'[j].attempts = jobs[j].attempts
  <1> DEFINE q == [jobs[j] EXCEPT !.state = "queued", !.holder = None]
  <1>1. jobs[j] \in JobRow /\ jobs \in [Ids -> JobRow] /\ Gone \in JobRow
    BY Zenon, RowTypes DEF Types
  <1>2. /\ q \in JobRow /\ q.state = "queued" /\ q.gen = jobs[j].gen
        /\ q.attempts = jobs[j].attempts
    BY Zenon, <1>1 DEF JobRow
  <1>3. jobs' = [jobs EXCEPT ![j] = IF terminal THEN Gone ELSE q]
    BY Zenon DEF EndedOrQueued
  <1> HIDE DEF q
  <1>4. CASE terminal
    BY Zenon, <1>1, <1>3, <1>4
  <1>5. CASE ~terminal
    BY Zenon, <1>1, <1>2, <1>3, <1>5
  <1> QED
    BY Zenon, <1>4, <1>5

LEMMA EndKeeps ==
    ASSUME CaptionSyncAssumption, CaptionInv, NEW j \in Ids, jobs[j].state # "gone",
           NEW terminal \in BOOLEAN, ~terminal => jobs[j].attempts < MaxAttempts,
           Released(terminal), EndedOrQueued(j, terminal), UNCHANGED <<storage, gen>>
    PROVE  /\ ColumnsInv' /\ JobsInv' /\ jobs' \in [Ids -> JobRow]
           /\ sync' \in {"not_required", "pending", "syncing", "synced", "failed"}
           /\ claim' \in Workers \cup {None}
           /\ sync' = "synced" => sync = "synced"
  <1>1. /\ jobs' \in [Ids -> JobRow] /\ \A i \in Ids : i # j => jobs'[i] = jobs[i]
        /\ terminal => jobs'[j] = Gone
        /\ ~terminal => /\ jobs'[j].state = "queued" /\ jobs'[j].gen = jobs[j].gen
                        /\ jobs'[j].attempts = jobs[j].attempts
    BY Zenon, JobEnds DEF CaptionInv
  <1>2. Gone.state = "gone" /\ Gone.gen = 0 /\ Gone.attempts = 0
    BY Zenon DEF Gone
  <1>3. gen \in 0 .. MaxGeneration /\ MaxAttempts \in Nat
    BY Zenon DEF CaptionInv, Types, CaptionSyncAssumption
  <1>4. 0 <= gen /\ 0 <= MaxAttempts
    BY <1>3
  <1>5. ColumnsInv'
    BY Zenon DEF CaptionInv, ColumnsInv, Released, HasStorageMessage
  <1>6. JobsInv'
    <2>1. HasStorageMessage' <=> HasStorageMessage
      BY Zenon DEF HasStorageMessage
    <2>2. ASSUME NEW i \in Ids
          PROVE  /\ jobs'[i].gen <= gen /\ jobs'[i].attempts <= MaxAttempts
                 /\ jobs'[i].state # "gone" => HasStorageMessage
                 /\ jobs'[i].state = "queued" => jobs'[i].attempts < MaxAttempts
      <3>1. CASE i # j
        BY Zenon, <1>1, <3>1 DEF CaptionInv, JobsInv
      <3>2. CASE i = j /\ terminal
        BY Zenon, <1>1, <1>2, <1>4, <3>2
      <3>3. CASE i = j /\ ~terminal
        BY Zenon, <1>1, <3>3 DEF CaptionInv, JobsInv
      <3> QED
        BY Zenon, <3>1, <3>2, <3>3
    <2> QED
      BY Zenon, <2>1, <2>2 DEF JobsInv
  <1>7. sync' \in {"not_required", "pending", "syncing", "synced", "failed"}
        /\ claim' \in Workers \cup {None} /\ (sync' = "synced" => sync = "synced")
    BY Zenon DEF CaptionInv, Types, Released
  <1> QED
    BY Zenon, <1>1, <1>5, <1>6, <1>7

(* The worker is idle again. *)
LEMMA IdleMoves ==
    ASSUME Types, NEW w \in Workers, work' = [work EXCEPT ![w] = Idle]
    PROVE  /\ Moves(w) /\ work' \in [Workers -> WorkRow] /\ work'[w].pc = "idle"
           /\ \A v \in Workers : v # w => work'[v] = work[v]
  <1>1. Moves(w) /\ work'[w] = Idle
    BY Zenon, WorkWritten, RowTypes DEF Types
  <1> QED
    BY Zenon, <1>1 DEF Moves, Idle

(* What a settlement that still holds the job does *)
LEMMA SettleEnds ==
    ASSUME CaptionSyncAssumption, CaptionInv, NEW w \in Workers, Settle(w), Holds(w),
           work[w].job \in Ids
    PROVE  \E terminal \in BOOLEAN :
             /\ ~terminal => jobs[work[w].job].attempts < MaxAttempts
             /\ work[w].answer = "retryable" /\ jobs[work[w].job].attempts < MaxAttempts
                  => ~terminal
             /\ Released(terminal) /\ EndedOrQueued(work[w].job, terminal)
             /\ sync = "syncing" /\ sync' = "pending" => gen = work[w].gen /\ ~terminal
  <1>1. jobs[work[w].job].attempts \in Nat /\ MaxAttempts \in Nat
    BY Zenon, JobFields DEF CaptionInv, Types, CaptionSyncAssumption
  <1>2. SettleCaptionJob(w)
    BY Zenon DEF Settle
  <1>3. CASE work[w].answer = "ok"
    <2>1. EndedOrQueued(work[w].job, TRUE) /\ Released(TRUE) /\ sync' = sync
      BY Zenon, <1>2, <1>3 DEF SettleCaptionJob, EndedOrQueued, Released
    <2>2. work[w].answer # "retryable"
      BY Zenon, <1>3
    <2> QED
      BY Zenon, <2>1, <2>2
  <1>4. CASE work[w].answer # "ok"
    <2>1. PICK terminal \in BOOLEAN :
             terminal = (work[w].answer = "permanent" \/ Attempts(w) >= MaxAttempts)
      BY Zenon
    <2>2. /\ ReleaseCaption(work[w].gen, terminal) /\ EndedOrQueued(work[w].job, terminal)
      BY Zenon, <1>2, <1>4, <2>1 DEF SettleCaptionJob
    <2>3. /\ Released(terminal)
          /\ sync = "syncing" /\ sync' = "pending" => gen = work[w].gen /\ ~terminal
      BY Zenon, <2>2 DEF Released, ReleaseCaption
    <2>4. Attempts(w) >= MaxAttempts <=> ~(jobs[work[w].job].attempts < MaxAttempts)
      BY <1>1 DEF Attempts
    <2> QED
      BY Zenon, <2>1, <2>2, <2>3, <2>4
  <1> QED
    BY Zenon, <1>3, <1>4


(* settle_caption_job, for a worker that still holds the job *)
LEMMA SettleHeldKeeps ==
    ASSUME CaptionSyncAssumption, CaptionInv, NEW w \in Workers, Settle(w), Holds(w)
    PROVE  CaptionInv'
  <1>1. /\ work[w].pc = "settle" /\ work[w].job \in Ids /\ work' = [work EXCEPT ![w] = Idle]
        /\ UNCHANGED <<storage, upload, meta, gen, telegram, bounds>>
        /\ Types /\ ~Working(w)
    BY Zenon DEF Settle, CaptionInv, WorkInv, Working
  <1>2. PICK j \in Ids : j = work[w].job
    BY Zenon, <1>1
  <1>3. jobs[j].state = "running" /\ jobs[j].holder = w
    BY Zenon, <1>2 DEF Holds
  <1>4. PICK terminal \in BOOLEAN :
             /\ ~terminal => jobs[j].attempts < MaxAttempts
             /\ work[w].answer = "retryable" /\ jobs[j].attempts < MaxAttempts => ~terminal
             /\ Released(terminal) /\ EndedOrQueued(j, terminal)
             /\ sync = "syncing" /\ sync' = "pending" => gen = work[w].gen /\ ~terminal
    BY Zenon, <1>1, <1>2, SettleEnds
  <1>5. /\ Moves(w) /\ work' \in [Workers -> WorkRow] /\ work'[w].pc = "idle"
        /\ \A v \in Workers : v # w => work'[v] = work[v]
    BY Zenon, <1>1, IdleMoves
  <1>6. /\ \A i \in Ids : i # j => jobs'[i] = jobs[i]
        /\ terminal => jobs'[j] = Gone
        /\ ~terminal => /\ jobs'[j].state = "queued" /\ jobs'[j].gen = jobs[j].gen
                        /\ jobs'[j].attempts = jobs[j].attempts
    BY Zenon, <1>1, <1>4, JobEnds
  <1>7. /\ ColumnsInv' /\ JobsInv' /\ jobs' \in [Ids -> JobRow]
        /\ sync' \in {"not_required", "pending", "syncing", "synced", "failed"}
        /\ claim' \in Workers \cup {None}
        /\ sync' = "synced" => sync = "synced"
    BY Zenon, <1>1, <1>3, <1>4, EndKeeps
  <1>8. Types'
    BY Zenon, <1>1, <1>5, <1>7 DEF Types, telegram, bounds
  <1>9. WorkInv'
    BY Zenon, <1>1, <1>5 DEF CaptionInv, WorkInv, HasStorageMessage
  <1>10. ShownInv'
    BY Zenon, <1>1, <1>5, <1>7 DEF CaptionInv, ShownInv, Working, SyncedWasShown, telegram
  <1>11. jobs'[j].state # "running"
    <2>1. Gone.state = "gone"
      BY Zenon DEF Gone
    <2> QED
      BY Zenon, <1>6, <2>1
  <1>12. ASSUME faults = 0 PROVE HeldInv' /\ PendingInv'
    <2>1. HeldInv /\ PendingInv /\ WorkInv
      BY Zenon, <1>12 DEF CaptionInv
    <2>2. ASSUME NEW v \in Workers, work'[v].pc # "idle"
          PROVE  Holds(v)' /\ jobs'[work'[v].job].gen = work'[v].gen
      <3>1. v # w /\ work'[v] = work[v]
        BY Zenon, <1>5, <2>2
      <3>2. Holds(v) /\ jobs[work[v].job].gen = work[v].gen /\ work[v].job \in Ids
        BY Zenon, <2>1, <2>2, <3>1 DEF HeldInv, WorkInv
      <3>3. jobs'[work[v].job] = jobs[work[v].job]
        BY Zenon, <1>3, <1>6, <3>1, <3>2 DEF Holds
      <3> QED
        BY Zenon, <3>1, <3>2, <3>3 DEF Holds
    <2>3. ASSUME NEW i \in Ids, jobs'[i].state = "running"
          PROVE  /\ jobs'[i] = jobs[i] /\ jobs[i].holder \in Workers
                 /\ work'[jobs[i].holder] = work[jobs[i].holder]
                 /\ work[jobs[i].holder].pc # "idle" /\ work[jobs[i].holder].job = i
      <3>1. i # j /\ jobs'[i] = jobs[i] /\ jobs[i].state = "running"
        BY Zenon, <1>6, <1>11, <2>3
      <3>2. /\ jobs[i].holder \in Workers
            /\ work[jobs[i].holder].pc # "idle" /\ work[jobs[i].holder].job = i
        BY Zenon, <2>1, <3>1 DEF HeldInv
      <3>3. jobs[i].holder # w
        BY Zenon, <1>2, <3>1, <3>2
      <3> QED
        BY Zenon, <1>5, <3>1, <3>2, <3>3
    <2>4. ASSUME NEW i \in Ids, jobs'[i].state = "running"
          PROVE  /\ jobs'[i].holder \in Workers
                 /\ work'[jobs'[i].holder].pc # "idle" /\ work'[jobs'[i].holder].job = i
      <3>1. /\ jobs'[i] = jobs[i] /\ jobs[i].holder \in Workers
            /\ work'[jobs[i].holder] = work[jobs[i].holder]
            /\ work[jobs[i].holder].pc # "idle" /\ work[jobs[i].holder].job = i
        BY Zenon, <2>3, <2>4
      <3>2. work'[jobs[i].holder].pc # "idle" /\ work'[jobs[i].holder].job = i
        BY Zenon, <3>1
      <3>3. jobs'[i].holder = jobs[i].holder
        BY Zenon, <3>1
      <3> QED
        BY Zenon, <3>1, <3>2, <3>3
    <2>5. HeldInv'
      BY Zenon, <1>1, <2>1, <2>2, <2>4 DEF HeldInv, telegram
    <2>6. ASSUME sync' = "pending" PROVE \E i \in Ids : jobs'[i].gen = gen' /\ WillSync(i)'
      <3>1. CASE sync = "syncing"
        <4>1. jobs[j].gen = gen /\ ~terminal
          BY Zenon, <1>1, <1>2, <1>4, <2>1, <2>6, <3>1 DEF HeldInv
        <4> QED
          BY Zenon, <1>1, <1>6, <4>1 DEF WillSync
      <3>2. CASE sync # "syncing"
        <4>1. sync = "pending"
          BY Zenon, <1>4, <2>6, <3>2 DEF Released
        <4>2. PICK i \in Ids : jobs[i].gen = gen /\ WillSync(i)
          BY Zenon, <2>1, <4>1 DEF PendingInv
        <4>3. CASE i = j
          <5>1. ~terminal
            BY Zenon, <1>1, <1>3, <1>4, <4>2, <4>3 DEF WillSync
          <5> QED
            BY Zenon, <1>1, <1>6, <4>2, <4>3, <5>1 DEF WillSync
        <4>4. CASE i # j
          <5>1. jobs'[i] = jobs[i]
            BY Zenon, <1>6, <4>4
          <5>2. jobs[i].state = "running" => work'[jobs[i].holder] = work[jobs[i].holder]
            BY Zenon, <2>3, <5>1
          <5>3. WillSync(i)'
            BY Zenon, <4>2, <5>1, <5>2 DEF WillSync
          <5> QED
            BY Zenon, <1>1, <4>2, <5>1, <5>3
        <4> QED
          BY Zenon, <4>3, <4>4
      <3> QED
        BY Zenon, <3>1, <3>2
    <2>7. ASSUME sync' = "syncing" PROVE (Working(claim) /\ work[claim].gen = gen)'
      <3>1. sync = "syncing" /\ claim' = claim
        BY Zenon, <1>4, <2>7 DEF Released
      <3>2. claim \in Workers /\ claim # w /\ Working(claim) /\ work[claim].gen = gen
        BY Zenon, <1>1, <2>1, <3>1 DEF CaptionInv, Types, ColumnsInv, PendingInv
      <3> QED
        BY Zenon, <1>1, <1>5, <3>1, <3>2 DEF Working
    <2> QED
      BY Zenon, <2>5, <2>6, <2>7 DEF PendingInv
  <1>13. ASSUME faults = 0, untracked = 0 PROVE CurrentInv'
    <2>1. /\ CurrentInv /\ PendingInv /\ ColumnsInv /\ ~Working(w)'
          /\ None \notin Workers /\ claim \in Workers \cup {None}
      BY Zenon, <1>1, <1>5, <1>13 DEF CaptionInv, Working, Types, CaptionSyncAssumption
    <2>2. (sync' = sync /\ claim' = claim) \/ sync' \in {"pending", "failed"}
      BY Zenon, <1>4 DEF Released
    <2> QED
      BY Zenon, <1>1, <1>5, <2>1, <2>2, CurrentKeeps DEF telegram
  <1> QED
    BY Zenon, <1>1, <1>7, <1>8, <1>9, <1>10, <1>12, <1>13 DEF CaptionInv, bounds


-----------------------------------------------------------------------------
(* Faults: what is left is that nothing is recorded that was not shown. *)

LEMMA OneMoreFault ==
    ASSUME CaptionInv, faults' = faults + 1
    PROVE  faults' \in Nat /\ faults' # 0
  BY DEF CaptionInv, Types

(* A worker is idle or about to settle after the step, and the row is as before. *)
LEMMA StopKeeps ==
    ASSUME CaptionInv, NEW w \in Workers, Moves(w), work'[w].pc \in {"idle", "settle"},
           work[w].pc # "idle", work'[w].pc # "idle" => work'[w].job = work[w].job,
           UNCHANGED <<row, jobs, caption, shown, untracked>>,
           late' \subseteq [seen : Metas \cup {None}, gen : Nat], faults' \in Nat, faults' # 0
    PROVE  CaptionInv'
  <1>1. work' \in [Workers -> WorkRow] /\ \A v \in Workers : v # w => work'[v] = work[v]
    BY Zenon DEF Moves
  <1>2. Types'
    BY Zenon, <1>1 DEF CaptionInv, Types, row
  <1>3. ColumnsInv' /\ JobsInv'
    BY Zenon DEF CaptionInv, ColumnsInv, JobsInv, HasStorageMessage, row
  <1>4. WorkInv'
    BY Zenon, <1>1 DEF CaptionInv, WorkInv, HasStorageMessage, row
  <1>5. ShownInv'
    <2>1. SyncedWasShown'
      BY Zenon DEF CaptionInv, ShownInv, SyncedWasShown, row
    <2>2. work'[w].pc \notin {"begin", "edit", "complete"}
      BY Zenon
    <2>3. ASSUME NEW v \in Workers
          PROVE  /\ Working(v)' /\ work'[v].landed => work'[v].gen \in shown'
                 /\ work'[v].pc = "complete" /\ work'[v].answer = "ok" => work'[v].landed
                 /\ work'[v].pc = "begin" => ~work'[v].landed
      BY Zenon, <1>1, <2>2 DEF CaptionInv, ShownInv, Working
    <2> QED
      BY Zenon, <2>1, <2>3 DEF ShownInv
  <1> QED
    BY Zenon, <1>2, <1>3, <1>4, <1>5 DEF CaptionInv

(* A settlement whose lease is lost, a failed transaction, a crash, a lost heartbeat *)
LEMMA StopStepsKeep ==
    ASSUME CaptionInv, NEW w \in Workers,
           (Settle(w) /\ ~Holds(w)) \/ TransactionFails(w) \/ Crash(w) \/ HeartbeatLost(w)
    PROVE  CaptionInv'
  <1>1. /\ Types /\ late \subseteq [seen : Metas \cup {None}, gen : Nat] /\ faults \in Nat
        /\ work[w] \in WorkRow
    BY Zenon DEF CaptionInv, Types
  <1>2. work[w].pc # "idle" /\ ~Holds(w) => faults # 0
    BY Zenon DEF CaptionInv, HeldInv
  <1>3. CASE Settle(w) /\ ~Holds(w)
    <2>1. /\ work[w].pc = "settle" /\ work' = [work EXCEPT ![w] = Idle]
          /\ UNCHANGED <<row, jobs, telegram, bounds>>
      BY Zenon, <1>3 DEF Settle, row
    <2> QED
      BY Zenon, <1>1, <1>2, <1>3, <2>1, IdleMoves, StopKeeps DEF telegram, bounds
  <1>4. CASE TransactionFails(w)
    <2>1. PICK pc \in {"complete", "settle"} : pc = "settle"
      BY Zenon
    <2>2. PICK answer \in {"ok", "retryable", "permanent"} : answer = "retryable"
      BY Zenon
    <2>3. /\ work[w].pc # "idle" /\ work' = [work EXCEPT ![w].pc = pc, ![w].answer = answer]
          /\ UNCHANGED <<row, jobs, telegram, untracked>> /\ faults' = faults + 1
      BY Zenon, <1>4, <2>1, <2>2 DEF TransactionFails
    <2>4. GoesOn(w) /\ work'[w].pc = pc
      BY Zenon, <1>1, <2>3, AnswerMoves
    <2>5. Moves(w) /\ work'[w].job = work[w].job /\ work'[w].pc = "settle"
      BY Zenon, <2>1, <2>4 DEF GoesOn
    <2>6. faults' \in Nat /\ faults' # 0
      BY Zenon, <2>3, OneMoreFault
    <2> QED
      BY Zenon, <1>1, <2>3, <2>5, <2>6, StopKeeps DEF telegram
  <1>5. ASSUME Drop(w), faults' \in Nat, faults' # 0 PROVE CaptionInv'
    <2>1. /\ work[w].pc # "idle" /\ work' = [work EXCEPT ![w] = Idle]
          /\ UNCHANGED <<row, jobs, caption, shown, untracked>>
      BY Zenon, <1>5 DEF Drop
    <2>2. [seen |-> work[w].seen, gen |-> work[w].gen] \in [seen : Metas \cup {None}, gen : Nat]
      BY Zenon, <1>1, WorkFields
    <2>3. late' \subseteq [seen : Metas \cup {None}, gen : Nat]
      BY Zenon, <1>1, <1>5, <2>2 DEF Drop
    <2> QED
      BY Zenon, <1>1, <1>5, <2>1, <2>3, IdleMoves, StopKeeps
  <1>6. CASE Crash(w)
    BY Zenon, <1>5, <1>6, OneMoreFault DEF Crash
  <1>7. CASE HeartbeatLost(w)
    BY Zenon, <1>1, <1>2, <1>5, <1>7 DEF HeartbeatLost
  <1> QED
    BY Zenon, <1>3, <1>4, <1>6, <1>7

(* The lease of a job expires, under its worker or after it. *)
LEMMA RecoverKeeps ==
    ASSUME CaptionSyncAssumption, CaptionInv, NEW j \in Ids,
           RecoverAbandoned(j) \/ RecoverUnderWorker(j)
    PROVE  CaptionInv'
  <1>1. /\ jobs[j].state = "running" /\ RecoverCaptionJob(j) /\ untracked' = untracked
    BY Zenon DEF RecoverAbandoned, RecoverUnderWorker, bounds
  <1>2. jobs[j].attempts \in Nat /\ MaxAttempts \in Nat /\ faults \in Nat
    BY Zenon, JobFields DEF CaptionInv, Types, CaptionSyncAssumption
  <1>3. faults' \in Nat /\ faults' # 0
    <2>1. CASE RecoverAbandoned(j)
      BY Zenon, <1>2, <2>1 DEF RecoverAbandoned, CaptionInv, HeldInv, Executed, bounds
    <2>2. CASE RecoverUnderWorker(j)
      BY Zenon, <2>2, OneMoreFault DEF RecoverUnderWorker
    <2> QED
      BY Zenon, <2>1, <2>2
  <1>4. PICK terminal \in BOOLEAN : terminal <=> jobs[j].attempts >= MaxAttempts
    BY Zenon
  <1>5. /\ ReleaseCaption(jobs[j].gen, terminal) /\ EndedOrQueued(j, terminal)
        /\ UNCHANGED <<storage, upload, meta, gen, work, telegram>>
    BY Zenon, <1>1, <1>4 DEF RecoverCaptionJob, ReleaseCaption, EndedOrQueued
  <1>6. Released(terminal)
    BY Zenon, <1>5 DEF Released, ReleaseCaption
  <1>7. ~terminal => jobs[j].attempts < MaxAttempts
    <2>1. jobs[j].attempts >= MaxAttempts \/ jobs[j].attempts < MaxAttempts
      BY <1>2
    <2> QED
      BY Zenon, <1>4, <2>1
  <1>8. /\ ColumnsInv' /\ JobsInv' /\ jobs' \in [Ids -> JobRow]
        /\ sync' \in {"not_required", "pending", "syncing", "synced", "failed"}
        /\ claim' \in Workers \cup {None}
        /\ sync' = "synced" => sync = "synced"
    BY Zenon, <1>1, <1>5, <1>6, <1>7, EndKeeps
  <1>9. Types'
    BY Zenon, <1>1, <1>3, <1>5, <1>8 DEF CaptionInv, Types, telegram
  <1>10. WorkInv'
    BY Zenon, <1>5 DEF CaptionInv, WorkInv, HasStorageMessage
  <1>11. ShownInv'
    BY Zenon, <1>5, <1>8 DEF CaptionInv, ShownInv, Working, SyncedWasShown, telegram
  <1> QED
    BY Zenon, <1>3, <1>8, <1>9, <1>10, <1>11 DEF CaptionInv

(* An edit that no worker waits for is applied, or is lost. *)
LEMMA LateKeeps ==
    ASSUME CaptionInv, NEW e \in late, LateLand(e) \/ LateLost(e)
    PROVE  CaptionInv'
  <1>1. /\ UNCHANGED <<row, jobs, work, bounds>> /\ late' \subseteq late
        /\ shown \subseteq shown' /\ (caption' = caption \/ caption' = e.seen)
    BY Zenon DEF LateLand, LateLost
  <1>2. faults # 0 /\ faults' = faults
    BY Zenon, <1>1 DEF CaptionInv, HeldInv, bounds
  <1>3. e.seen \in Metas \cup {None} /\ caption \in Metas \cup {None}
    BY Zenon DEF CaptionInv, Types
  <1>4. Types'
    BY Zenon, <1>1, <1>3 DEF CaptionInv, Types, row, bounds
  <1>5. ColumnsInv' /\ JobsInv' /\ WorkInv'
    BY Zenon, <1>1 DEF CaptionInv, ColumnsInv, JobsInv, WorkInv, HasStorageMessage, row
  <1>6. ShownInv'
    BY Zenon, <1>1 DEF CaptionInv, ShownInv, Working, SyncedWasShown, row
  <1> QED
    BY Zenon, <1>2, <1>4, <1>5, <1>6 DEF CaptionInv


-----------------------------------------------------------------------------
(* The invariant *)

LEMMA CaptionInvInit ==
    ASSUME CaptionSyncAssumption, Init
    PROVE  CaptionInv
  <1>1. meta \in Metas /\ None \notin Workers
    BY Zenon DEF Init, Metas, CaptionSyncAssumption
  <1>2. 0 \in 0 .. MaxGeneration /\ 0 \in Nat /\ 0 <= MaxAttempts /\ 0 <= 0
    BY DEF CaptionSyncAssumption
  <1>3. Types
    BY Zenon, <1>1, <1>2, RowTypes DEF Init, Types
  <1>4. /\ \A j \in Ids : jobs[j] = Gone
        /\ \A w \in Workers : work[w] = Idle
        /\ Gone.state = "gone" /\ Gone.gen = 0 /\ Gone.attempts = 0 /\ Idle.pc = "idle"
    BY Zenon DEF Init, Gone, Idle
  <1>5. ColumnsInv /\ JobsInv /\ WorkInv
    BY Zenon, <1>2, <1>4 DEF Init, ColumnsInv, JobsInv, WorkInv, HasStorageMessage
  <1>6. ShownInv /\ HeldInv /\ PendingInv /\ CurrentInv
    BY Zenon, <1>4 DEF Init, ShownInv, HeldInv, PendingInv, CurrentInv, Working, SyncedWasShown
  <1> QED
    BY Zenon, <1>3, <1>5, <1>6 DEF CaptionInv

LEMMA CaptionInvNext ==
    ASSUME CaptionSyncAssumption, CaptionInv, [Next]_vars
    PROVE  CaptionInv'
  <1>1. ASSUME NEW w \in Workers, WorkerStep(w) PROVE CaptionInv'
    <2>1. CASE BeginCaptionSync(w)
      BY Zenon, <2>1, BeginKeeps
    <2>2. CASE SyncStorageCaption(w)
      BY Zenon, <2>2, ReapplyKeeps, OutcomeKeeps
    <2>3. CASE Settle(w)
      BY Zenon, <2>3, SettleHeldKeeps, StopStepsKeep
    <2>4. ASSUME NEW answer \in {"ok", "retryable", "permanent"}, EditStorageCaption(w, answer)
          PROVE  CaptionInv'
      BY Zenon, <2>4, EditKeeps
    <2> QED
      BY Zenon, <1>1, <2>1, <2>2, <2>3, <2>4 DEF WorkerStep
  <1>2. ASSUME NEW w \in Workers,
               Land(w) \/ TransactionFails(w) \/ Crash(w) \/ HeartbeatLost(w)
        PROVE  CaptionInv'
    BY Zenon, <1>2, LandKeeps, StopStepsKeep
  <1>3. ASSUME NEW w \in Workers, NEW j \in Ids, Claim(w, j) PROVE CaptionInv'
    BY Zenon, <1>3, ClaimKeeps
  <1>4. ASSUME NEW j \in Ids, RecoverAbandoned(j) \/ RecoverUnderWorker(j) PROVE CaptionInv'
    BY Zenon, <1>4, RecoverKeeps
  <1>5. ASSUME NEW e \in late, LateLand(e) \/ LateLost(e) PROVE CaptionInv'
    BY Zenon, <1>5, LateKeeps
  <1>6. CASE UNCHANGED vars
    <2>1. /\ UNCHANGED <<storage, upload, meta, gen, sync, claim, jobs, work, caption, late,
                         shown, faults, untracked>>
      BY Zenon, <1>6 DEF vars, row, telegram, bounds
    <2>2. Types' /\ ColumnsInv' /\ JobsInv' /\ WorkInv'
      BY Zenon, <2>1 DEF CaptionInv, Types, ColumnsInv, JobsInv, WorkInv, HasStorageMessage
    <2>3. ShownInv'
      BY Zenon, <2>1 DEF CaptionInv, ShownInv, Working, SyncedWasShown
    <2>4. ASSUME faults = 0 PROVE HeldInv' /\ PendingInv'
      BY Zenon, <2>1, <2>4 DEF CaptionInv, HeldInv, PendingInv, Holds, WillSync, Working
    <2>5. ASSUME faults = 0, untracked = 0 PROVE CurrentInv'
      BY Zenon, <2>1, <2>5 DEF CaptionInv, CurrentInv, Disturbed, Working
    <2> QED
      BY Zenon, <2>1, <2>2, <2>3, <2>4, <2>5 DEF CaptionInv
  <1>7. CASE Next
    <2>1. CASE \/ \E t \in Texts : UpdateMedia(t) \/ AcceptDuplicate(t)
               \/ \E t \in Texts, s \in BOOLEAN : MergeExactDuplicate(t, s)
               \/ StartUpload \/ CompleteStorageUpload \/ UploadUnknown \/ AttachStorageUpload
               \/ RetryCaptionSync
      BY Zenon, <2>1, MediaStepsKeep
    <2> QED
      BY Zenon, <1>1, <1>2, <1>3, <1>4, <1>5, <1>7, <2>1 DEF Next
  <1> QED
    BY Zenon, <1>6, <1>7


-----------------------------------------------------------------------------
(* Theorems *)

(* The invariant the others follow from: the columns and the jobs of begin_caption_sync,  *)
(* complete_caption_sync and settle_caption_job fit together, for any interleaving of     *)
(* workers, faults and metadata changes.                                                  *)
THEOREM CaptionInvariant ==
    ASSUME CaptionSyncAssumption
    PROVE  Spec => []CaptionInv
  <1>1. Init => CaptionInv
    BY Zenon, CaptionInvInit
  <1>2. CaptionInv /\ [Next]_vars => CaptionInv'
    BY Zenon, CaptionInvNext
  <1> QED
    BY <1>1, <1>2, PTL DEF Spec

(* The columns hold what the code can write; a claim token is set exactly while the state *)
(* is "syncing"; no job has more attempts than NewJob::sync_storage_caption allows.       *)
THEOREM CaptionTypes ==
    ASSUME CaptionSyncAssumption
    PROVE  Spec => []TypeOK
  <1>1. CaptionInv => TypeOK
    BY Zenon DEF CaptionInv, Types, ColumnsInv, JobsInv, TypeOK
  <1> QED
    BY <1>1, CaptionInvariant, PTL

(* complete_caption_sync records "synced" for a generation only after the metadata of     *)
(* that generation has been shown, whatever crashes, lapsed leases, failed transactions   *)
(* and edits that land late come between.                                                 *)
THEOREM SyncedOnlyWhenShown ==
    ASSUME CaptionSyncAssumption
    PROVE  Spec => []SyncedWasShown
  <1>1. CaptionInv => SyncedWasShown
    BY Zenon DEF CaptionInv, ShownInv
  <1> QED
    BY <1>1, CaptionInvariant, PTL

(* While no worker fails: once a caption is recorded as synced and no edit is on its way, *)
(* the message shows the metadata of the row (unless accept_duplicate or a filled-in      *)
(* source has changed them outside a generation), and a row that waits for its caption    *)
(* has a job of its generation.  Edits of older generations may land at any time; the     *)
(* reapply of complete_caption_sync makes up for them.                                    *)
THEOREM CaptionsSettle ==
    ASSUME CaptionSyncAssumption
    PROVE  Spec => [](faults = 0 => CaptionCurrent /\ PendingHasJob)
  <1>1. CaptionInv /\ faults = 0 => CaptionCurrent
    BY Zenon DEF CaptionInv, CurrentInv, Disturbed, CaptionCurrent
  <1>2. ASSUME CaptionInv, faults = 0 PROVE PendingHasJob
    <2>1. HeldInv /\ PendingInv /\ WorkInv
      BY Zenon, <1>2 DEF CaptionInv
    <2>2. ASSUME sync = "pending" PROVE \E j \in Ids : jobs[j].state # "gone" /\ jobs[j].gen = gen
      BY Zenon, <2>1, <2>2 DEF PendingInv, WillSync
    <2>3. ASSUME sync = "syncing" PROVE \E j \in Ids : jobs[j].state # "gone" /\ jobs[j].gen = gen
      <3>1. claim \in Workers /\ Working(claim) /\ work[claim].gen = gen
        BY Zenon, <1>2, <2>1, <2>3 DEF CaptionInv, Types, ColumnsInv, PendingInv
      <3>2. Holds(claim) /\ jobs[work[claim].job].gen = gen /\ work[claim].job \in Ids
        BY Zenon, <2>1, <3>1 DEF HeldInv, WorkInv, Working
      <3> QED
        BY Zenon, <3>2 DEF Holds
    <2> QED
      BY Zenon, <2>2, <2>3 DEF PendingHasJob
  <1>3. CaptionInv => (faults = 0 => CaptionCurrent /\ PendingHasJob)
    BY Zenon, <1>1, <1>2
  <1> QED
    BY <1>3, CaptionInvariant, PTL

=============================================================================
