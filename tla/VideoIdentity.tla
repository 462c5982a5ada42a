---------------------------- MODULE VideoIdentity ----------------------------
(***************************************************************************)
(* The identity gate of videos (compute_fingerprint in                     *)
(* apps/worker/src/identity.rs; begin_, complete_ and                      *)
(* abort_video_identity in crates/persistence/src/inbox.rs;                *)
(* VideoIdentitySession and prepare_/persist_video_identity_in_transaction *)
(* in library.rs).  An attempt looks for the exact bytes, extracts a       *)
(* fingerprint if it must, takes a session advisory lock on a connection   *)
(* of its own, reads the candidates in one transaction, aligns outside any *)
(* transaction, and decides in a second transaction on the same            *)
(* connection: link to the media with the same bytes, stop for review, or  *)
(* insert a media row.                                                     *)
(*                                                                         *)
(* Bytes are their digest.  Which digests are strong duplicates of which   *)
(* is a constant relation, what the shortlist and the alignment compute.   *)
(* Attempts overlap when a lease expires under a running handler;          *)
(* handlers are dropped and processes die; connections break; the storage  *)
(* of a media row changes state without the lock.  The ingest states       *)
(* fingerprinting and failed_retryable, between which a retried attempt    *)
(* moves, are one here (IngestPipeline tells them apart), and so are       *)
(* storing and completed (StorageUpload).                                  *)
(***************************************************************************)
EXTENDS Naturals, FiniteSets

CONSTANTS
    Ingests,       \* video ingests
    Shas,          \* canonical bytes
    Alike,         \* pairs of bytes that align as strong duplicates
    MaxAttempts,   \* attempts of the job, over both generations
    None

ASSUME IdentityAssumption ==
    /\ MaxAttempts \in Nat \ {0}
    /\ Alike \subseteq Shas \X Shas
    /\ None \notin Shas \cup {"pending", "ready", "unknown", "missing"}
    /\ None \notin Ingests \X (1 .. MaxAttempts)

VARIABLES
    state,    \* the ingest rows: their state,
    sha,      \* the bytes of the normalised video,
    forced,   \* force_save,
    link,     \* media_id
    evidence, \* and duplicate_evidence
    jstate,   \* their fingerprint jobs: state
    attempt,  \* and attempt_count
    media,    \* the storage state of the media row with these bytes, or None
    lock,     \* the attempt whose session holds the advisory lock
    step,     \* where each attempt stands
    exact,    \* the exact-bytes look-up that each attempt remembers
    cand,     \* the candidates it read
    hidden    \* rows it could not read because of their storage state

rows == <<state, sha, forced, link, evidence>>

jobs == <<jstate, attempt>>

own == <<exact, cand, hidden>>

vars == <<rows, jobs, media, lock, step, own>>

Attempts == 1 .. MaxAttempts

Procs == Ingests \X Attempts

Steps == {"idle", "preflight", "begin", "extract", "acquire", "prepare", "align",
          "persist", "release", "abort", "ended"}

StorageStates == {"pending", "ready", "unknown", "missing"}

Visible == {"pending", "ready"}

Init ==
    /\ state = [i \in Ingests |-> "fingerprinting"]
    /\ sha \in [Ingests -> Shas]
    /\ forced = [i \in Ingests |-> FALSE]
    /\ link = [i \in Ingests |-> None]
    /\ evidence = [i \in Ingests |-> {}]
    /\ jstate = [i \in Ingests |-> "queued"]
    /\ attempt = [i \in Ingests |-> 0]
    /\ media = [s \in Shas |-> None]
    /\ lock = None
    /\ step = [p \in Procs |-> "idle"]
    /\ exact = [p \in Procs |-> FALSE]
    /\ cand = [p \in Procs |-> {}]
    /\ hidden = [p \in Procs |-> {}]

Sha(p) == sha[p[1]]

Forced(p) == forced[p[1]]

(* lock_current_job_attempt *)
Current(p) == jstate[p[1]] = "running" /\ attempt[p[1]] = p[2]

(* The media rows with strong duplicates of these bytes *)
Twins(s) == {t \in Shas : t # s /\ <<s, t>> \in Alike /\ media[t] # None}

Forget(p) ==
    /\ exact' = [exact EXCEPT ![p] = FALSE]
    /\ cand' = [cand EXCEPT ![p] = {}]
    /\ hidden' = [hidden EXCEPT ![p] = {}]

End(p) == step' = [step EXCEPT ![p] = "ended"] /\ Forget(p)

At(p, here, there) == step[p] = here /\ step' = [step EXCEPT ![p] = there]

(* The job and the ingest after a retryable failure of the attempt, if it  *)
(* still holds the lease: a retry is left, or both are terminal            *)
Retried(p) ==
    LET last == p[2] = MaxAttempts IN
    /\ IF Current(p)
       THEN /\ jstate' = [jstate EXCEPT ![p[1]] = IF last THEN "failed" ELSE "queued"]
            /\ state' = [state EXCEPT ![p[1]] = IF last THEN "failed" ELSE @]
       ELSE UNCHANGED <<jstate, state>>
    /\ UNCHANGED <<attempt, sha, forced, link, evidence>>

(* fail_fingerprint with a permanent failure, or settle_job on a failed    *)
(* job                                                                     *)
FailedForGood(p) ==
    /\ IF Current(p)
       THEN /\ jstate' = [jstate EXCEPT ![p[1]] = "failed"]
            /\ state' = [state EXCEPT ![p[1]] = "failed"]
       ELSE UNCHANGED <<jstate, state>>
    /\ UNCHANGED <<attempt, sha, forced, link, evidence>>

-----------------------------------------------------------------------------

(* claim_next *)
Claim(p) ==
    /\ jstate[p[1]] = "queued"
    /\ p[2] = attempt[p[1]] + 1
    /\ jstate' = [jstate EXCEPT ![p[1]] = "running"]
    /\ attempt' = [attempt EXCEPT ![p[1]] = p[2]]
    /\ At(p, "idle", "preflight")
    /\ UNCHANGED <<rows, media, lock, own>>

(* compute_fingerprint before the stage: resolve_exact_sha, without a lock *)
Preflight(p) ==
    /\ At(p, "preflight", "begin")
    /\ exact' = [exact EXCEPT ![p] = media[Sha(p)] # None]
    /\ UNCHANGED <<rows, jobs, media, lock, cand, hidden>>

(* begin_ingest_fingerprinting: an attempt without the lease ends here     *)
BeginIngestFingerprinting(p) ==
    /\ step[p] = "begin"
    /\ \/ /\ Current(p)
          /\ step' = [step EXCEPT ![p] = IF exact[p] THEN "acquire" ELSE "extract"]
          /\ UNCHANGED own
       \/ ~Current(p) /\ End(p)
    /\ UNCHANGED <<rows, jobs, media, lock>>

(* extract_video_sequence and the preview *)
Extract(p) ==
    /\ At(p, "extract", "acquire")
    /\ UNCHANGED <<rows, jobs, media, lock, own>>

(* map_fingerprint_error: a timeout is retried, the rest is permanent *)
ExtractFails(p) ==
    /\ step[p] = "extract"
    /\ Retried(p) \/ FailedForGood(p)
    /\ End(p)
    /\ UNCHANGED <<media, lock>>

(* VideoIdentitySession::acquire: waits for pg_advisory_lock *)
Acquire(p) ==
    /\ At(p, "acquire", "prepare")
    /\ lock = None
    /\ lock' = p
    /\ UNCHANGED <<rows, jobs, media, own>>

(* Faulty variant of Shortlist: rows whose upload is not finished are left *)
(* out.                                                                    *)
ShortlistReady(p) == {t \in Twins(Sha(p)) : media[t] = "ready"}

(* fetch_video_fingerprint_candidates, restricted to the candidates that   *)
(* align as strong duplicates                                              *)
Shortlist(p) == {t \in Twins(Sha(p)) : media[t] \in Visible}

(* Neither exact bytes nor a forced ingest need candidates *)
Candidates(p) == IF media[Sha(p)] # None \/ Forced(p) THEN {} ELSE Shortlist(p)

(* begin_video_identity, prepare_video_identity_in_transaction: under the  *)
(* lock, the lease and the exact bytes are checked again.  Media rows are  *)
(* never deleted, so bytes that the look-up found are found again.         *)
Prepare(p) ==
    /\ step[p] = "prepare"
    /\ \/ /\ Current(p)
          /\ exact' = [exact EXCEPT ![p] = media[Sha(p)] # None]
          /\ cand' = [cand EXCEPT ![p] = Candidates(p)]
          /\ hidden' = [hidden EXCEPT ![p] = {t \in Twins(Sha(p)) : media[t] \notin Visible}]
          /\ step' = [step EXCEPT ![p] = "align"]
       \/ /\ ~Current(p)
          /\ step' = [step EXCEPT ![p] = "release"]
          /\ UNCHANGED own
    /\ UNCHANGED <<rows, jobs, media, lock>>

(* align_video_identity, on the blocking pool and outside a transaction *)
Align(p) ==
    /\ At(p, "align", "persist")
    /\ UNCHANGED <<rows, jobs, media, lock, own>>

(* A stored fingerprint does not decode, or the task dies *)
AlignFails(p) ==
    /\ At(p, "align", "abort")
    /\ UNCHANGED <<rows, jobs, media, lock, own>>

(* abort_video_identity and the permanent failure after it *)
AbortVideoIdentity(p) ==
    /\ step[p] = "abort"
    /\ lock' = None
    /\ FailedForGood(p)
    /\ End(p)
    /\ UNCHANGED media

(* Faulty variant of Advanced: the evidence stays on the ingest. *)
AdvancedWithEvidence(i, s, storage) ==
    /\ link' = [link EXCEPT ![i] = s]
    /\ state' = [state EXCEPT ![i] = IF storage \in Visible THEN "linked" ELSE "failed"]
    /\ UNCHANGED <<sha, forced, evidence>>

(* advance_after_media_processing *)
Advanced(i, s, storage) ==
    /\ link' = [link EXCEPT ![i] = s]
    /\ evidence' = [evidence EXCEPT ![i] = {}]
    /\ state' = [state EXCEPT ![i] = IF storage \in Visible THEN "linked" ELSE "failed"]
    /\ UNCHANGED <<sha, forced>>

(* complete_video_identity_while_locked: bytes that exist are reused *)
PersistExact(p) ==
    /\ Current(p)
    /\ media[Sha(p)] # None
    /\ Advanced(p[1], Sha(p), media[Sha(p)])
    /\ jstate' = [jstate EXCEPT ![p[1]] = "succeeded"]
    /\ UNCHANGED <<media, attempt>>

(* ... a strong duplicate waits for the administrator ... *)
PersistPending(p) ==
    /\ Current(p)
    /\ media[Sha(p)] = None
    /\ cand[p] # {}
    /\ state' = [state EXCEPT ![p[1]] = "duplicate_pending"]
    /\ evidence' = [evidence EXCEPT ![p[1]] = cand[p]]
    /\ link' = [link EXCEPT ![p[1]] = None]
    /\ jstate' = [jstate EXCEPT ![p[1]] = "succeeded"]
    /\ UNCHANGED <<media, attempt, sha, forced>>

(* ... anything else is a new media row with its upload job *)
PersistNew(p) ==
    /\ Current(p)
    /\ media[Sha(p)] = None
    /\ cand[p] = {}
    /\ media' = [media EXCEPT ![Sha(p)] = "pending"]
    /\ Advanced(p[1], Sha(p), "pending")
    /\ jstate' = [jstate EXCEPT ![p[1]] = "succeeded"]
    /\ UNCHANGED attempt

(* Faulty variant of OnLockedConnection: the decision is written through   *)
(* the pool.                                                               *)
OnAnyConnection(p) == TRUE

(* VideoIdentitySession::begin: the transaction runs on the connection     *)
(* that holds the lock                                                     *)
OnLockedConnection(p) == lock = p

PersistVideoIdentity(p) ==
    /\ At(p, "persist", "release")
    /\ OnLockedConnection(p)
    /\ \/ PersistExact(p)
       \/ PersistPending(p)
       \/ PersistNew(p)
       \/ ~Current(p) /\ UNCHANGED <<rows, jobs, media>>
    /\ UNCHANGED <<lock, own>>

(* VideoIdentitySession::release, then the handler returns *)
Release(p) ==
    /\ step[p] = "release"
    /\ lock' = IF lock = p THEN None ELSE lock
    /\ End(p)
    /\ UNCHANGED <<rows, jobs, media>>

(* PostgreSQL ends the session: the lock is free, the attempt finds out    *)
(* when it next uses the connection                                        *)
ConnectionLost(p) ==
    /\ lock = p
    /\ lock' = None
    /\ UNCHANGED <<rows, jobs, media, step, own>>

ConnectionError(p) ==
    /\ step[p] \in {"prepare", "persist", "abort"}
    /\ lock # p
    /\ Retried(p)
    /\ End(p)
    /\ UNCHANGED <<media, lock>>

(* close_on_drop *)
LockAfterDrop(p) == IF lock = p THEN None ELSE lock

(* The process dies, or the runner drops the handler's future *)
Vanish(p) ==
    /\ step[p] \notin {"idle", "ended"}
    /\ lock' = LockAfterDrop(p)
    /\ End(p)
    /\ UNCHANGED <<rows, jobs, media>>

(* recover_stale_leases, recover_job.  A lease expires only under an       *)
(* attempt that has not settled its job.                                   *)
LoseLease(p) ==
    /\ Current(p)
    /\ Retried(p)
    /\ UNCHANGED <<media, lock, step, own>>

-----------------------------------------------------------------------------

(* The storage of a media row: uploaded, interrupted, failed, reconciled,  *)
(* retried (StorageUpload)                                                 *)
StorageChanges(s, to) ==
    /\ \/ media[s] = "pending" /\ to \in {"ready", "unknown", "missing"}
       \/ media[s] \in {"unknown", "missing"} /\ to \in Visible
    /\ media' = [media EXCEPT ![s] = to]
    /\ UNCHANGED <<rows, jobs, lock, step, own>>

(* accept_duplicate: an evidenced media row that is still usable *)
AcceptDuplicate(i, s) ==
    /\ state[i] = "duplicate_pending"
    /\ s \in evidence[i]
    /\ media[s] \in Visible
    /\ Advanced(i, s, media[s])
    /\ UNCHANGED <<jobs, media, lock, step, own>>

(* force_save: the pipeline starts over and comes back to this stage with  *)
(* the bytes of a new normalisation                                        *)
ForceSave(i, s) ==
    /\ state[i] = "duplicate_pending"
    /\ attempt[i] < MaxAttempts
    /\ state' = [state EXCEPT ![i] = "fingerprinting"]
    /\ sha' = [sha EXCEPT ![i] = s]
    /\ forced' = [forced EXCEPT ![i] = TRUE]
    /\ evidence' = [evidence EXCEPT ![i] = {}]
    /\ jstate' = [jstate EXCEPT ![i] = "queued"]
    /\ UNCHANGED <<link, attempt, media, lock, step, own>>

Work(p) ==
    \/ Claim(p)
    \/ Preflight(p)
    \/ BeginIngestFingerprinting(p)
    \/ Extract(p)
    \/ Acquire(p)
    \/ Prepare(p)
    \/ Align(p)
    \/ AbortVideoIdentity(p)
    \/ PersistVideoIdentity(p)
    \/ Release(p)
    \/ ConnectionError(p)

Trouble(p) ==
    \/ ExtractFails(p)
    \/ AlignFails(p)
    \/ ConnectionLost(p)
    \/ Vanish(p)
    \/ LoseLease(p)

Next ==
    \/ \E p \in Procs : Work(p)
    \/ \E p \in Procs : Trouble(p)
    \/ \E s \in Shas, to \in StorageStates : StorageChanges(s, to)
    \/ \E i \in Ingests, s \in Shas : AcceptDuplicate(i, s)
    \/ \E i \in Ingests, s \in Shas : ForceSave(i, s)

Spec == Init /\ [][Next]_vars

-----------------------------------------------------------------------------

(* Every variable has its type. *)
TypeOK ==
    /\ state \in [Ingests -> {"fingerprinting", "duplicate_pending", "linked", "failed"}]
    /\ sha \in [Ingests -> Shas]
    /\ forced \in [Ingests -> BOOLEAN]
    /\ link \in [Ingests -> Shas \cup {None}]
    /\ evidence \in [Ingests -> SUBSET Shas]
    /\ jstate \in [Ingests -> {"queued", "running", "succeeded", "failed"}]
    /\ attempt \in [Ingests -> 0 .. MaxAttempts]
    /\ media \in [Shas -> StorageStates \cup {None}]
    /\ lock \in Procs \cup {None}
    /\ step \in [Procs -> Steps]
    /\ exact \in [Procs -> BOOLEAN]
    /\ cand \in [Procs -> SUBSET Shas]
    /\ hidden \in [Procs -> SUBSET Shas]

(* A video is inserted without review only if no strong duplicate of it    *)
(* exists, save for rows whose storage state kept them from the shortlist  *)
(* when the attempt took the lock (fetch_video_fingerprint_candidates      *)
(* reads pending_storage and ready rows): equivalent re-encodes that are   *)
(* processed at the same time never both become media.                     *)
InsertsOnlyNew ==
    [][\A s \in Shas : media[s] = None /\ media'[s] # None =>
          \E p \in Procs : /\ Sha(p) = s
                           /\ Forced(p) \/ Twins(s) \subseteq hidden[p]]_vars

(* The evidence on an ingest that waits for review names media rows that   *)
(* exist and are strong duplicates of its bytes (persist_video_identity    *)
(* writes what the alignment saw).                                         *)
EvidenceIsReal ==
    \A i \in Ingests :
        IF state[i] = "duplicate_pending"
        THEN evidence[i] # {} /\ evidence[i] \subseteq Twins(sha[i])
        ELSE evidence[i] = {}

(* An ingest is linked to the media with its own bytes or to a strong      *)
(* duplicate that an administrator accepted from the evidence; a forced    *)
(* one only to its own bytes (complete_video_identity, accept_duplicate).  *)
LinkedToItsVideo ==
    \A i \in Ingests :
        LET s == link[i] IN
        s # None => \/ s = sha[i]
                    \/ ~forced[i] /\ <<sha[i], s>> \in Alike

(* The strengthening of InsertsOnlyNew: while an attempt that still holds  *)
(* the lock aligns, every strong duplicate on record is one it knows of.   *)
LockedViewComplete ==
    \A p \in Procs :
        /\ lock = p => step[p] \in {"prepare", "align", "persist", "release", "abort"}
        /\ lock = p /\ step[p] \in {"align", "persist"} /\ Current(p) /\ ~Forced(p)
              /\ media[Sha(p)] = None
           => Twins(Sha(p)) \subseteq cand[p] \cup hidden[p]

(* The strengthening of EvidenceIsReal and LinkedToItsVideo: what an       *)
(* attempt with a lease aligned are strong duplicates on record, none when *)
(* the ingest is forced; an ingest under review is not forced, its job is  *)
(* done and it has no media.                                               *)
CandidatesAreReal ==
    /\ \A p \in Procs :
          step[p] \in {"align", "persist"} /\ Current(p) =>
              /\ cand[p] \subseteq Twins(Sha(p))
              /\ Forced(p) => cand[p] = {}
    /\ \A i \in Ingests :
          state[i] = "duplicate_pending" =>
              ~forced[i] /\ jstate[i] = "succeeded" /\ link[i] = None

=============================================================================
