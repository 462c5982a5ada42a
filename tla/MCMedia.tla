------------------------------- MODULE MCMedia --------------------------------
(***************************************************************************)
(* The worker's media code.  Each behaviour runs one component: the        *)
(* admission of work to the disk (DiskAdmission), the resolution ladder    *)
(* (VideoLadder), the choice of the canonical video (VideoAdaptation), the *)
(* image normaliser (ImageNormalization), the extraction of frames         *)
(* (FrameExtraction) or the alignment of two fingerprints                  *)
(* (SequenceAlignment).  The variables of the others keep the value Off;   *)
(* the disk, which other components do not write in these models, keeps    *)
(* an initial state.                                                       *)
(***************************************************************************)
EXTENDS DiskAdmission, TLC

CONSTANTS None, Off, Encoders

VARIABLES
    part,
    source, ladder, phase, twopass,
    video, encode, worker, canonical, litter,
    small, file, job, att,
    ff, next, frame, other, huge, dir, runner, walk, done, pc, fin, validated,
    index, len1, samples, outcome, guard,
    table, incoming, candidate, scores, directions, at, best, path, evidence,
    classification

(* A profile of 24 x 16 with a floor of 6, and sources up to 40 x 27. *)
Ladder == INSTANCE VideoLadder WITH
    Widths <- 0 .. 40, Heights <- 0 .. 27,
    Rates <- {<<0, 0>>, <<61, 2>>, <<25, 1>>}, Durations <- {0, 3000, 27000},
    MaxWidth <- 24, MaxHeight <- 16, MaxRate <- <<30, 1>>, Minimum <- 6,
    TargetBytes <- 2000, AudioKbps <- 4

Fine == [mp4 |-> TRUE, declared |-> TRUE, inside |-> TRUE,
         capped |-> FALSE, rotated |-> FALSE, aac |-> TRUE]

(* Two workers; one source that can be remuxed and one that cannot; encodes *)
(* below the target, between target and ceiling, or above the ceiling.     *)
Adaptation == INSTANCE VideoAdaptation WITH
    Workers <- Encoders, Probed <- {Fine, [Fine EXCEPT !.declared = FALSE]},
    Rungs <- 2, Bytes <- {1, 3, 4, 6}, Target <- 2, Limit <- 5,
    Repeatable <- TRUE, MaxAttempts <- 2, source <- video, job <- encode

(* Three attempts whose encodes differ, which may overtake each other. *)
Image == INSTANCE ImageNormalization WITH
    MaxAttempts <- 3, Repeatable <- FALSE, Overtaken <- TRUE

(* Three frames, of which the third passes the byte limit. *)
Frames == INSTANCE FrameExtraction WITH Expected <- 3, MaxBytes <- 3

Still(bits, luma, info) ==
    [phash |-> bits, dhash |-> bits, luma |-> luma, u |-> 0, v |-> 0,
     info |-> info]

(* Two rich frames some way off each other, one with just enough content,  *)
(* one with just too little; and two that share almost nothing.            *)
Stills == {Still({}, 100, 10000), Still(0 .. 23, 140, 10000),
           Still({1, 2}, 100, 1000), Still({}, 100, 999)}
FarStills == {Still({}, 0, 10000), Still(0 .. 59, 255, 10000)}

UpTo(S, n) == UNION {[1 .. k -> S] : k \in 1 .. n}

(* The default configuration, with the counts brought down to the length   *)
(* of the sequences.                                                       *)
Alignment == INSTANCE SequenceAlignment WITH
    Sequences1 <- UpTo(Stills, 3) \cup UpTo(FarStills, 4),
    Sequences2 <- UpTo(Stills, 3) \cup UpTo(FarStills, 3),
    Config <- [minIncomingCoverage |-> 7000, minCandidateCoverage |-> 7000,
               minInformative |-> 2, maxMedian |-> 2200, maxHigh |-> 3500,
               minRun |-> 2, maxGaps |-> 1, minScore |-> 6500, gap |-> 1200,
               maxCells |-> 20],
    pc <- table

ASSUME Ladder!LadderProfileAssumption
ASSUME Adaptation!AdaptationAssumption
ASSUME Image!ImageAssumption

-----------------------------------------------------------------------------

ladderVars == <<source, ladder, phase, twopass>>
adaptationVars == <<video, encode, worker, canonical, litter>>
imageVars == <<small, file, job, att>>
frameVars == <<ff, next, frame, other, huge, dir, runner, walk, done, pc, fin,
               validated, index, len1, samples, outcome, guard>>
alignmentVars == <<table, incoming, candidate, scores, directions, at, best, path,
                   evidence, classification>>
mediaVars == <<part, free, left, seen, ladderVars, adaptationVars, imageVars, frameVars,
               alignmentVars>>

DiskOff == free = 0 /\ left = [w \in Workers |-> 0] /\ seen = [w \in Workers |-> 0]
LadderOff == source = Off /\ ladder = Off /\ phase = Off /\ twopass = Off
AdaptationOff ==
    video = Off /\ encode = Off /\ worker = Off /\ canonical = Off /\ litter = Off
ImageOff == small = Off /\ file = Off /\ job = Off /\ att = Off
FramesOff ==
    /\ ff = Off /\ next = Off /\ frame = Off /\ other = Off /\ huge = Off /\ dir = Off
    /\ runner = Off /\ walk = Off /\ done = Off /\ pc = Off /\ fin = Off
    /\ validated = Off /\ index = Off /\ len1 = Off /\ samples = Off /\ outcome = Off
    /\ guard = Off
AlignmentOff ==
    /\ table = Off /\ incoming = Off /\ candidate = Off /\ scores = Off
    /\ directions = Off /\ at = Off /\ best = Off /\ path = Off /\ evidence = Off
    /\ classification = Off

Parts == {"disk", "ladder", "adaptation", "image", "frames", "alignment"}

MediaInit ==
    /\ part \in Parts
    /\ \/ part = "disk" /\ Init
       \/ part # "disk" /\ DiskOff
    /\ \/ part = "ladder" /\ Ladder!Init
       \/ part # "ladder" /\ LadderOff
    /\ \/ part = "adaptation" /\ Adaptation!Init
       \/ part # "adaptation" /\ AdaptationOff
    /\ \/ part = "image" /\ Image!Init
       \/ part # "image" /\ ImageOff
    /\ \/ part = "frames" /\ Frames!Init
       \/ part # "frames" /\ FramesOff
    /\ \/ part = "alignment" /\ Alignment!Init
       \/ part # "alignment" /\ AlignmentOff

MediaNext ==
    \/ /\ part = "disk" /\ Next
       /\ UNCHANGED <<part, ladderVars, adaptationVars, imageVars, frameVars, alignmentVars>>
    \/ /\ part = "ladder" /\ Ladder!Next
       /\ UNCHANGED <<part, vars, adaptationVars, imageVars, frameVars, alignmentVars>>
    \/ /\ part = "adaptation" /\ Adaptation!Next
       /\ UNCHANGED <<part, vars, ladderVars, imageVars, frameVars, alignmentVars>>
    \/ /\ part = "image" /\ Image!Next
       /\ UNCHANGED <<part, vars, ladderVars, adaptationVars, frameVars, alignmentVars>>
    \/ /\ part = "frames" /\ Frames!Next
       /\ UNCHANGED <<part, vars, ladderVars, adaptationVars, imageVars, alignmentVars>>
    \/ /\ part = "alignment" /\ Alignment!Next
       /\ UNCHANGED <<part, vars, ladderVars, adaptationVars, imageVars, frameVars>>

MediaSpec == MediaInit /\ [][MediaNext]_mediaVars

Alike == Permutations(Encoders)

-----------------------------------------------------------------------------

(* The rungs of resolution_ladder are even, within profile and source and  *)
(* not below the floor; they descend to it, keeping the aspect, so no size *)
(* is encoded twice; and the forced encode of two_pass_candidate stays within *)
(* the target on the largest rung that has its bits per pixel.             *)
LadderKeepsPromises ==
    part = "ladder" =>
        /\ Ladder!RungsAreValid /\ Ladder!LadderDescends
        /\ Ladder!LadderEndsAtFloor /\ Ladder!TwoPassKeepsPromises

(* Whatever attempts interleave, canonical.mp4 is the encode that the      *)
(* policy of execute_video_normalization names, within                     *)
(* max_normalized_storage_bytes, and no attempt finds other bytes there    *)
(* than it would publish.                                                  *)
CanonicalFollowsPolicy ==
    part = "adaptation" => Adaptation!CanonicalFollowsPolicy /\ Adaptation!RetriesConverge

(* The digests that complete_asset_normalization recorded for an image are *)
(* those of the files at the output paths as long as these exist, even if  *)
(* an overtaken attempt still cleans up behind another; and canonical and  *)
(* thumbnail come from encodes that agree.                                 *)
RecordedBytesUnchanged ==
    part = "image" => Image!RecordedBytesUnchanged /\ Image!RecordedPairAgrees

(* A fingerprint is built from the frames ffmpeg wrote, whole, in order,   *)
(* none twice and none left out, although the consumer reads the files     *)
(* while they are written; and a failure blames what is true.              *)
SamplesAreFrames == part = "frames" => Frames!SamplesAreFrames /\ Frames!BlamesTruly

(* The best cell of the alignment table has the largest score of any local *)
(* alignment of the two sequences, and the walk back finds an alignment    *)
(* that earns it, which the evidence describes sample by sample            *)
(* (align_sequences).                                                      *)
BestIsOptimal ==
    part = "alignment" =>
        Alignment!BestIsOptimal /\ Alignment!PathEarnsBest /\ Alignment!EvidenceAddsUp

=============================================================================
