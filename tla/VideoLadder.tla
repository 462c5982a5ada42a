----------------------------- MODULE VideoLadder -----------------------------
(***************************************************************************)
(* What NormalizationPlanner decides about a video before anything is      *)
(* encoded: the canonical size, the descending ladder of sizes below it,   *)
(* and the rung and bitrate of a two-pass encode for the byte target.      *)
(* One behaviour plans one source; the ladder grows one rung per step, as  *)
(* the loop of resolution_ladder does.                                     *)
(*                                                                         *)
(* The code scales with f64.  The model uses exact quotients and lets a    *)
(* tie between two even numbers go either way, which is what the rounding  *)
(* error of the float may do.                                              *)
(***************************************************************************)
EXTENDS Integers, Sequences, FiniteSetsExt

CONSTANTS
    Widths, Heights,     \* what a source may have, 0 and 1 included
    Rates,               \* frame rates <<numerator, denominator>>, 0 included
    Durations,           \* duration_ms; 0 stands for an unknown one
    MaxWidth, MaxHeight, MaxRate, Minimum,   \* CanonicalVideoProfile
    TargetBytes, AudioKbps

LadderProfileAssumption ==
    /\ {MaxWidth, MaxHeight, Minimum, TargetBytes, AudioKbps} \subseteq Nat \ {0}
    /\ Minimum <= MaxWidth /\ Minimum <= MaxHeight
    /\ {MaxWidth % 2, MaxHeight % 2, Minimum % 2} = {0}
    /\ MaxRate[1] > 0 /\ MaxRate[2] > 0

VARIABLES
    source,   \* what ffprobe says of the video
    ladder,   \* the rungs found so far
    phase,    \* "plan", "ladder", "choose", "done", "rejected"
    twopass   \* two_pass_candidate's answer: {} or one [width, height, kbps]

vars == <<source, ladder, phase, twopass>>

(***************************************************************************)
(* Arithmetic                                                              *)
(***************************************************************************)
Least(x, y) == IF x < y THEN x ELSE y
Most(x, y) == IF x > y THEN x ELSE y
CeilDiv(n, d) == (n + d - 1) \div d

Even(n) == n - (n % 2)

(* rounded_even_dimension(n / d): the nearest even number, either of two at *)
(* a tie, and at least 2                                                    *)
RoundedEven(n, d) ==
    LET down == 2 * (n \div (2 * d))
        rest == n - down * d
        near == IF rest < d THEN {down} ELSE IF rest > d THEN {down + 2} ELSE {down, down + 2}
    IN {Most(x, 2) : x \in near}

Short(size) == Least(size.width, size.height)

SizesOf(widths, heights) == {[width |-> w, height |-> h] : w \in widths, h \in heights}

(* bounded_dimensions: the scale is the smallest of three quotients *)
BoundedDimensions(w, h) ==
    LET n == IF w <= MaxWidth /\ h <= MaxHeight THEN 1
             ELSE IF MaxWidth * h <= MaxHeight * w THEN MaxWidth ELSE MaxHeight
        d == IF w <= MaxWidth /\ h <= MaxHeight THEN 1
             ELSE IF MaxWidth * h <= MaxHeight * w THEN w ELSE h
        side(x) == {Most(Least(y, Even(x)), 2) : y \in RoundedEven(x * n, d)}
    IN IF w < 2 \/ h < 2 THEN {} ELSE SizesOf(side(w), side(h))

(* requires_frame_rate_cap *)
RequiresFrameRateCap(rate) == rate[2] = 0 \/ rate[1] * MaxRate[2] > MaxRate[1] * rate[2]

EffectiveFrameRate(rate) == IF RequiresFrameRateCap(rate) THEN MaxRate ELSE rate

(* minimum_video_bitrate: 0.06 bits per pixel and frame, rounded up *)
MinimumVideoBitrate(size, rate) ==
    CeilDiv(size.width * size.height * rate[1] * 60000, rate[2] * 1000000)

(***************************************************************************)
(* The planner                                                             *)
(***************************************************************************)
Sources == [width : Widths, height : Heights, rate : Rates, duration : Durations, audio : BOOLEAN]

Init ==
    /\ source \in Sources
    /\ ladder = <<>>
    /\ phase = "plan"
    /\ twopass = {}

(* plan: canonical_dimensions, or MissingVideoDimensions *)
PlanVideo ==
    /\ phase = "plan"
    /\ LET sizes == BoundedDimensions(source.width, source.height) IN
       IF sizes = {}
       THEN phase' = "rejected" /\ UNCHANGED ladder
       ELSE /\ \E size \in sizes : ladder' = <<size>>
            /\ phase' = IF Short(ladder'[1]) <= Minimum THEN "choose" ELSE "ladder"
    /\ UNCHANGED <<source, twopass>>

Top == ladder[1]
Bottom == ladder[Len(ladder)]

(* Three quarters of the last rung, not below the floor, and shrinking *)
NextShort(short) == Least(Most((short * 3 + 2) \div 4, Minimum), short - 2)

(* Faulty variant of ScaledTo: scaled from the rung before, errors and all. *)
ScaledFromBottom(short) ==
    SizesOf(RoundedEven(Bottom.width * short, Short(Bottom)),
          RoundedEven(Bottom.height * short, Short(Bottom)))

(* The canonical size scaled to a short edge *)
ScaledTo(short) ==
    SizesOf(RoundedEven(Top.width * short, Short(Top)), RoundedEven(Top.height * short, Short(Top)))

(* The next rung; one that would fall below the floor becomes the floor. *)
Rungs ==
    LET next == ScaledTo(NextShort(Short(Bottom))) IN
    {size \in next : Short(size) >= Minimum}
        \cup (IF \E size \in next : Short(size) < Minimum THEN ScaledTo(Minimum) ELSE {})

(* One turn of resolution_ladder's loop *)
ExtendLadder ==
    /\ phase = "ladder"
    /\ \E size \in Rungs :
          /\ ladder' = IF size = Bottom THEN ladder ELSE Append(ladder, size)
          /\ phase' = IF size = Bottom \/ Short(size) <= Minimum THEN "choose" ELSE "ladder"
    /\ UNCHANGED <<source, twopass>>

(* The bits per second that the byte target leaves for the whole file, two  *)
(* percent kept for the container                                           *)
TotalBitrate ==
    (((TargetBytes * 8 * (10000 - 200)) \div 10000) * 1000) \div source.duration

AudioBitrate == IF source.audio THEN AudioKbps * 1000 ELSE 0

VideoBitrate == TotalBitrate - AudioBitrate

(* The rungs whose quality floor the bitrate reaches *)
Affordable ==
    {k \in 1 .. Len(ladder) :
        VideoBitrate >= MinimumVideoBitrate(ladder[k], EffectiveFrameRate(source.rate))}

(* two_pass_candidate *)
ChooseTwoPass ==
    /\ phase = "choose"
    /\ twopass' =
          IF source.duration = 0 \/ VideoBitrate < 0 \/ Affordable = {} THEN {}
          ELSE {[width |-> ladder[Min(Affordable)].width,
                 height |-> ladder[Min(Affordable)].height,
                 kbps |-> Most(VideoBitrate \div 1000, 1)]}
    /\ phase' = "done"
    /\ UNCHANGED <<source, ladder>>

Next == PlanVideo \/ ExtendLadder \/ ChooseTwoPass

Spec == Init /\ [][Next]_vars

(***************************************************************************)
(* Properties                                                              *)
(***************************************************************************)

(* validate_candidate_dimensions *)
ValidCandidate(size) ==
    /\ size.width > 0 /\ size.height > 0
    /\ size.width % 2 = 0 /\ size.height % 2 = 0
    /\ size.width <= MaxWidth /\ size.height <= MaxHeight
    /\ Short(size) >= Least(Minimum, Short(Top))
    /\ size.width <= source.width /\ size.height <= source.height

(* plan_quality_candidate and plan_two_pass never refuse a rung that       *)
(* resolution_ladder made: it is even, within profile and source, and not  *)
(* below the effective floor.                                              *)
RungsAreValid == \A k \in 1 .. Len(ladder) : ValidCandidate(ladder[k])

(* Every rung has the aspect of the canonical size, up to the rounding of  *)
(* its two sides, and is smaller than the one before: the worker never     *)
(* encodes a size twice.                                                   *)
LadderDescends ==
    \A k \in 2 .. Len(ladder) :
        /\ Short(ladder[k]) < Short(ladder[k - 1])
        /\ LET skew == ladder[k].width * Top.height - ladder[k].height * Top.width IN
           -(Top.width + Top.height) <= skew /\ skew <= Top.width + Top.height

(* The ladder of a source above the floor ends exactly at the floor.       *)
LadderEndsAtFloor ==
    phase = "done" /\ Short(Top) > Minimum => Short(Bottom) = Minimum

(* A forced encode keeps both promises: audio and video together stay      *)
(* within the target (one kbit/s is the least a command can ask for), at a *)
(* frame rate within the profile, and the rung has its 0.06 bits per pixel *)
(* while no larger rung has.                                               *)
TwoPassKeepsPromises ==
    \A choice \in twopass :
        LET rate == IF source.rate[2] > 0 /\ source.rate[1] * MaxRate[2] <= MaxRate[1] * source.rate[2]
                    THEN source.rate ELSE MaxRate
            enough(size) == TotalBitrate - AudioBitrate >= MinimumVideoBitrate(size, rate)
            size == [width |-> choice.width, height |-> choice.height]
        IN /\ choice.kbps > 1 =>
                 (choice.kbps * 1000 + AudioBitrate) * source.duration <= TargetBytes * 8 * 1000
           /\ \E k \in 1 .. Len(ladder) :
                 /\ ladder[k] = size
                 /\ enough(size)
                 /\ \A j \in 1 .. (k - 1) : ~enough(ladder[j])

=============================================================================
