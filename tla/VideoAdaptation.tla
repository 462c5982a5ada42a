--------------------------- MODULE VideoAdaptation ---------------------------
(***************************************************************************)
(* normalize_asset for a video: which encodes are tried, which result is   *)
(* kept, and how it becomes canonical.mp4 when several attempts of the job *)
(* work in the same directory: one that lost its lease goes on, another    *)
(* starts over.                                                            *)
(*                                                                         *)
(* An encode is named by its plan and its size is what the plan yields,    *)
(* chosen once for the source.  Whether the tools repeat themselves byte   *)
(* by byte is a constant.  What the                                        *)
(* planner computes is the subject of VideoLadder: here the ladder has     *)
(* Rungs sizes and a two-pass encode is possible or not.                   *)
(***************************************************************************)
EXTENDS Integers, FiniteSets, Sequences

CONSTANTS
    Workers,       \* worker processes
    Probed,        \* what the sources may look like
    Rungs,         \* how many sizes resolution_ladder has
    Bytes,         \* how many bytes an encode may have
    Target,        \* target_max_bytes
    Limit,         \* max_normalized_storage_bytes
    Repeatable,    \* equal commands write equal bytes
    MaxAttempts,   \* max_attempts of the job
    None

AdaptationAssumption ==
    /\ Probed \subseteq [mp4 : BOOLEAN, declared : BOOLEAN, inside : BOOLEAN,
                         capped : BOOLEAN, rotated : BOOLEAN, aac : BOOLEAN]
    /\ Rungs \in Nat \ {0} /\ MaxAttempts \in Nat \ {0}
    /\ Bytes \subseteq Nat /\ Target \in Nat /\ Limit \in Nat

VARIABLES
    source,      \* the probed source, and what its encodes yield
    job,         \* the normalize_asset job and the recorded result
    worker,      \* what each worker is doing
    canonical,   \* the content of canonical.mp4, or None
    litter       \* candidates of workers that were killed

vars == <<source, job, worker, canonical, litter>>

-----------------------------------------------------------------------------
(* The plan *)

Rung(k) == <<"quality", k>>
Remux == <<"remux", 0>>
TwoPass == <<"two_pass", 1>>
Plans == {Remux, TwoPass} \cup {Rung(k) : k \in 1 .. Rungs}

(* What is_remux_compatible looks at; the codec's declaration, level and    *)
(* pixel format are one question.                                           *)
Features == [mp4 : BOOLEAN, declared : BOOLEAN, inside : BOOLEAN,
             capped : BOOLEAN, rotated : BOOLEAN, aac : BOOLEAN]

(* is_remux_compatible, h264_metadata_is_compatible *)
RemuxCompatible(f) ==
    f.mp4 /\ f.declared /\ f.inside /\ ~f.capped /\ ~f.rotated /\ f.aac

(* What ffmpeg makes of the source.  A remux changes only the container; an *)
(* encode has the profile's codecs, size, frame rate and orientation.       *)
Output(f, p) ==
    IF p = Remux THEN [f EXCEPT !.mp4 = TRUE]
    ELSE [mp4 |-> TRUE, declared |-> TRUE, inside |-> TRUE,
          capped |-> FALSE, rotated |-> FALSE, aac |-> TRUE]

(* validate_output_probe *)
OutputAccepted(f) == f.mp4 /\ f.declared /\ f.inside /\ ~f.rotated /\ ~f.capped /\ f.aac

(* plan: the first thing to try *)
FirstPlan == IF RemuxCompatible(source.features) THEN Remux ELSE Rung(1)

(* The order of execute_video_normalization, and None for its end: after    *)
(* the first quality encode either one two-pass encode or the other rungs.  *)
PlanAfter(p) ==
    CASE p = Remux -> Rung(1)
      [] p = Rung(1) /\ source.twopass -> TwoPass
      [] p[1] = "quality" /\ p[2] < Rungs /\ ~(p[2] = 1 /\ source.twopass) -> Rung(p[2] + 1)
      [] OTHER -> None

Size(p) == source.bytes[p]

(* The bytes a worker's encode has *)
Content(w, p) == <<p, IF Repeatable THEN None ELSE w>>

Contents == Plans \X (Workers \cup {None})

-----------------------------------------------------------------------------
(* State *)

Idle == [step |-> "idle", plan |-> None, fallback |-> None, selected |-> None,
         files |-> {}, passlogs |-> FALSE, holds |-> FALSE]

TypeOK ==
    /\ source \in [features : Features, twopass : BOOLEAN, bytes : [Plans -> Bytes]]
    /\ job \in [state : {"queued", "running", "succeeded", "failed"},
                attempt : 0 .. MaxAttempts, recorded : Contents \cup {None}]
    /\ worker \in [Workers -> [step : {"idle", "encode", "consider", "publish", "record"},
                               plan : Plans \cup {None}, fallback : Plans \cup {None},
                               selected : Plans \cup {None}, files : SUBSET Plans,
                               passlogs : BOOLEAN, holds : BOOLEAN]]
    /\ canonical \in Contents \cup {None}
    /\ litter \subseteq Plans

Init ==
    /\ source \in [features : Probed, twopass : BOOLEAN, bytes : [Plans -> Bytes]]
    /\ job = [state |-> "queued", attempt |-> 0, recorded |-> None]
    /\ worker = [w \in Workers |-> Idle]
    /\ canonical = None
    /\ litter = {}

(* Dropping VideoCandidateCleanup and VideoPasslogCleanup deletes what the  *)
(* attempt made, on every way out but a kill.                               *)
Dropped(w) == [worker EXCEPT ![w] = Idle]

(* queue_parameters and update_locked_job *)
SettledRetry == [job EXCEPT !.state = IF job.attempt < MaxAttempts THEN "queued" ELSE "failed"]
SettledFail == [job EXCEPT !.state = "failed"]

-----------------------------------------------------------------------------
(* The handler *)

(* claim_next, and normalize_asset up to its first command *)
StartAttempt(w) ==
    /\ worker[w].step = "idle"
    /\ job.state = "queued"
    /\ job.attempt < MaxAttempts
    /\ job' = [job EXCEPT !.state = "running", !.attempt = @ + 1]
    /\ worker' = [worker EXCEPT ![w] = [Idle EXCEPT !.step = "encode", !.plan = FirstPlan,
                                                    !.holds = TRUE]]
    /\ UNCHANGED <<source, canonical, litter>>

(* next_path, and FfmpegExecutor::execute: run_with_progress, probe, hash   *)
(* and the publication of the temporary file under the candidate's name.    *)
Encode(w) ==
    /\ worker[w].step = "encode"
    /\ OutputAccepted(Output(source.features, worker[w].plan))
    /\ worker' = [worker EXCEPT ![w].files = @ \cup {worker[w].plan},
                                ![w].passlogs = worker[w].plan = TwoPass,
                                ![w].step = "consider"]
    /\ UNCHANGED <<source, job, canonical, litter>>

(* A command fails, times out or its output is refused; a timeout is        *)
(* retryable before the last attempt (map_video_normalization_error), and   *)
(* fail_normalization records it if the attempt still holds the lease.      *)
EncodeFails(w) ==
    /\ worker[w].step = "encode"
    /\ worker' = Dropped(w)
    /\ job' \in IF worker[w].holds
                THEN {SettledFail} \cup
                     {j \in {SettledRetry} : OutputAccepted(Output(source.features, worker[w].plan))}
                ELSE {job}
    /\ UNCHANGED <<source, canonical, litter>>

(* consider's choice: KeepSmallest for the two-pass result, KeepFirst else *)
Selects(w, p) ==
    /\ Size(p) <= Limit
    /\ IF p = TwoPass
       THEN worker[w].fallback # None => Size(p) < Size(worker[w].fallback)
       ELSE Size(p) <= Target

(* Faulty variant of KeepsAsFallback: the last candidate replaces it. *)
KeepsLastAsFallback(w, p) == Size(p) <= Limit /\ p # TwoPass

KeepsAsFallback(w, p) == Size(p) <= Limit /\ worker[w].fallback = None /\ p # TwoPass

(* remove_video_candidate of every loser *)
FilesKept(w, chosen) == worker[w].files \cap {chosen}

(* consider, passlogs.remove and, at the end, take_fallback *)
Consider(w) ==
    /\ worker[w].step = "consider"
    /\ LET p == worker[w].plan
           fallback == IF KeepsAsFallback(w, p) THEN p ELSE worker[w].fallback
           next == PlanAfter(p)
       IN \/ /\ Selects(w, p)
             /\ worker' = [worker EXCEPT ![w].selected = p, ![w].fallback = None,
                               ![w].files = FilesKept(w, p), ![w].passlogs = FALSE,
                               ![w].step = "publish"]
             /\ UNCHANGED job
          \/ /\ ~Selects(w, p) /\ next # None
             /\ worker' = [worker EXCEPT ![w].fallback = fallback, ![w].plan = next,
                               ![w].files = FilesKept(w, fallback), ![w].passlogs = FALSE,
                               ![w].step = "encode"]
             /\ UNCHANGED job
          \/ /\ ~Selects(w, p) /\ next = None /\ fallback # None
             /\ worker' = [worker EXCEPT ![w].selected = fallback, ![w].fallback = None,
                               ![w].files = FilesKept(w, fallback), ![w].passlogs = FALSE,
                               ![w].step = "publish"]
             /\ UNCHANGED job
          \/ /\ ~Selects(w, p) /\ next = None /\ fallback = None
             /\ worker' = Dropped(w)
             /\ job' = IF worker[w].holds THEN SettledFail ELSE job
    /\ UNCHANGED <<source, canonical, litter>>

(* compare_or_conflict: the name is taken by other bytes *)
Conflicts(w) == canonical \notin {None, Content(w, worker[w].selected)}

(* publish_video_candidate: a hard link that fails if the name is taken,    *)
(* identical bytes are reused, and the other candidates are deleted.        *)
Publish(w) ==
    /\ worker[w].step = "publish"
    /\ \/ /\ ~Conflicts(w)
          /\ canonical' = Content(w, worker[w].selected)
          /\ worker' = [worker EXCEPT ![w].files = {}, ![w].step = "record"]
          /\ UNCHANGED job
       \/ /\ Conflicts(w)
          /\ worker' = Dropped(w)
          /\ job' = IF worker[w].holds THEN SettledFail ELSE job
          /\ UNCHANGED canonical
    /\ UNCHANGED <<source, litter>>

(* settle_normalization: complete_asset_normalization does nothing for an   *)
(* attempt without a lease, and the runner completes the job.               *)
Record(w) ==
    /\ worker[w].step = "record"
    /\ job' = IF worker[w].holds
              THEN [job EXCEPT !.state = "succeeded", !.recorded = Content(w, worker[w].selected)] ELSE job
    /\ worker' = Dropped(w)
    /\ UNCHANGED <<source, canonical, litter>>

-----------------------------------------------------------------------------
(* Faults *)

(* The lease expires and recovery requeues the job; the handler goes on     *)
(* until a heartbeat tells.                                                 *)
LoseLease(w) ==
    /\ worker[w].holds
    /\ worker' = [worker EXCEPT ![w].holds = FALSE]
    /\ job' = SettledRetry
    /\ UNCHANGED <<source, canonical, litter>>

(* Shutdown, or a failed heartbeat: the handler's future is dropped. *)
Cancel(w) ==
    /\ worker[w].step # "idle"
    /\ worker' = Dropped(w)
    /\ job' = IF worker[w].holds THEN SettledRetry ELSE job
    /\ UNCHANGED <<source, canonical, litter>>

(* The process is killed: nothing is dropped, and the lease expires. *)
Kill(w) ==
    /\ worker[w].step # "idle"
    /\ litter' = litter \cup worker[w].files
    /\ worker' = Dropped(w)
    /\ job' = IF worker[w].holds THEN SettledRetry ELSE job
    /\ UNCHANGED <<source, canonical>>

Next ==
    \E w \in Workers :
        \/ StartAttempt(w) \/ Encode(w) \/ EncodeFails(w) \/ Consider(w)
        \/ Publish(w) \/ Record(w) \/ LoseLease(w) \/ Cancel(w) \/ Kill(w)

Spec == Init /\ [][Next]_vars

-----------------------------------------------------------------------------
(* Properties *)

(* The plans an undisturbed attempt considers, in order *)
Tried ==
    IF source.twopass
    THEN (IF FirstPlan = Remux THEN <<Remux>> ELSE <<>>) \o <<Rung(1), TwoPass>>
    ELSE (IF FirstPlan = Remux THEN <<Remux>> ELSE <<>>) \o [k \in 1 .. Rungs |-> Rung(k)]

Before(p, q) ==
    \E i, j \in 1 .. Len(Tried) : i < j /\ Tried[i] = p /\ Tried[j] = q

Storable == {Tried[i] : i \in {j \in 1 .. Len(Tried) : Size(Tried[j]) <= Limit}}

(* The documented policy: everything published is storable; the first      *)
(* lossless or constant-quality encode within the target wins; if there is *)
(* none, a storable two-pass encode smaller than the first storable other  *)
(* one, and otherwise original quality, the first storable other one.      *)
Policy(p) ==
    LET others == Storable \ {TwoPass}
        inTarget == {q \in others : Size(q) <= Target}
    IN /\ p \in Storable
       /\ IF inTarget # {} THEN p \in inTarget /\ \A q \in inTarget \ {p} : Before(p, q)
          ELSE IF p = TwoPass
          THEN \A q \in others : (\A r \in others \ {q} : Before(q, r)) => Size(p) < Size(q)
          ELSE /\ \A q \in others \ {p} : Before(p, q)
               /\ TwoPass \in Storable => Size(TwoPass) >= Size(p)

(* Whatever attempts interleave, canonical.mp4 and what the ingest records *)
(* are the encode the policy of execute_video_normalization names, within  *)
(* max_normalized_storage_bytes.                                           *)
CanonicalFollowsPolicy == canonical # None => Policy(canonical[1])

(* "lease-expiry retries converge on one destination": no attempt ever     *)
(* finds other bytes under canonical.mp4 than the ones it would publish.   *)
RetriesConverge == \A w \in Workers : worker[w].step = "publish" => ~Conflicts(w)

=============================================================================
