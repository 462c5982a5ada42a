--------------------------- MODULE IngestProgress ---------------------------
(***************************************************************************)
(* What the ingest pipeline promises about one ingest.  It records its     *)
(* stage results one after the other, never loses one, and starts again at *)
(* most once, from an open duplicate decision.  An ingest that fails       *)
(* before it has its media fails for good; one that has its media only     *)
(* follows what becomes of the upload.                                     *)
(***************************************************************************)
EXTENDS Naturals

VARIABLES
    phase,      \* where the ingest stands, see Phases
    results,    \* how many stage results are recorded
    restarted   \* whether the pipeline was forced to start again

vars == <<phase, results, restarted>>

(* pipeline: a stage is due; decision: an administrator is asked; waiting,  *)
(* stored, unstored: the media is known and its upload pending, done, lost; *)
(* failed: there is no media.                                               *)
Phases == {"pipeline", "decision", "waiting", "stored", "unstored", "failed"}

HasMedia == {"waiting", "stored", "unstored"}

Init == phase = "pipeline" /\ results = 0 /\ restarted = FALSE

(* A stage ends: its result is recorded, and the next stage is due, or the  *)
(* media is known, or the result itself ends the ingest.                    *)
Record ==
    /\ phase = "pipeline"
    /\ results' = results + 1
    /\ phase' \in {"pipeline", "failed"} \cup HasMedia
    /\ UNCHANGED restarted

(* The last stage of a video leaves no result: it finds or makes the media. *)
Identify ==
    /\ phase = "pipeline"
    /\ phase' \in HasMedia
    /\ UNCHANGED <<results, restarted>>

Ask ==
    /\ phase = "pipeline"
    /\ ~restarted
    /\ phase' = "decision"
    /\ UNCHANGED <<results, restarted>>

GiveUp ==
    /\ phase = "pipeline"
    /\ phase' = "failed"
    /\ UNCHANGED <<results, restarted>>

Accept ==
    /\ phase = "decision"
    /\ phase' \in {"waiting", "stored"}
    /\ UNCHANGED <<results, restarted>>

Force ==
    /\ phase = "decision"
    /\ phase' = "pipeline"
    /\ results' = 0
    /\ restarted' = TRUE

FollowStorage ==
    /\ phase \in HasMedia
    /\ phase' \in HasMedia
    /\ UNCHANGED <<results, restarted>>

Next == Record \/ Identify \/ Ask \/ GiveUp \/ Accept \/ Force \/ FollowStorage

Spec == Init /\ [][Next]_vars

=============================================================================
