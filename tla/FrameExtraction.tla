--------------------------- MODULE FrameExtraction ---------------------------
(***************************************************************************)
(* The extraction of a video's sampled frames (crates/media/src/           *)
(* fingerprint.rs): ffmpeg writes numbered frames into a temporary         *)
(* directory while a consumer decodes each one, adds it to the fingerprint *)
(* and removes it.  The process runner (command.rs) watches the size of    *)
(* the directory and the time ffmpeg takes; producer and consumer are two  *)
(* futures of one select, and a guard removes the directory.               *)
(*                                                                         *)
(* A walk over the directory by the runner takes one step for each file,   *)
(* since the consumer removes files meanwhile.  A walk by the consumer is  *)
(* one step: between its start and its end files only grow, so its verdict *)
(* is the one of some moment in between.                                   *)
(***************************************************************************)
EXTENDS Integers, Sequences, FiniteSets, FiniteSetsExt

CONSTANTS
    Expected,    \* expected_count: the number of timestamps of the grid
    MaxBytes     \* max_sequence_bytes

VARIABLES
    ff,          \* ffmpeg: "run", how it exited, "dying" or "killed"
    next,        \* the frame ffmpeg creates next
    frame,       \* what is on disk of each frame
    other,       \* whether an entry is there that is not an expected frame
    huge,        \* a frame beyond the decode limits, or Expected for none
    dir,         \* whether the temporary directory exists
    runner,      \* "watch", "final", "ok" or terminating for a reason
    walk,        \* the runner's pass over the directory: files left, total
    done,        \* producer_done
    pc,          \* the consumer
    fin,         \* producer_finished, as this iteration loaded it
    validated,   \* finished_entries_validated
    index, len1, \* the frame looked at and its first length
    samples,     \* what was pushed to the builder
    outcome,     \* what the extraction returns, Nothing while it runs
    guard        \* the directory guard and the removal it is in

vars == <<ff, next, frame, other, huge, dir, runner, walk, done, pc, fin,
          validated, index, len1, samples, outcome, guard>>

disk == <<frame, other, dir>>
consumer == <<pc, fin, validated, index, len1, samples>>

Nothing == "none"
Frames == 0 .. Expected - 1
Exited == {"ok", "fail", "noisy"}

\* The length of a file, in the units of MaxBytes.
Size(k) == CASE frame[k] = "whole" -> 2 [] frame[k] = "partial" -> 1
             [] OTHER -> 0
SequenceDirectorySize == MapThenSumSet(Size, Frames)
NoWalk == [left |-> {}, total |-> 0]
StartWalk == [left |-> Frames, total |-> 0]

Init ==
    /\ ff = "run" /\ next = 0
    /\ frame = [k \in Frames |-> "absent"] /\ other = FALSE /\ dir = TRUE
    /\ huge \in 0 .. Expected
    /\ runner = "watch" /\ walk = StartWalk /\ done = FALSE
    /\ pc = "load" /\ fin = FALSE /\ validated = FALSE
    /\ index = 0 /\ len1 = 0 /\ samples = <<>>
    /\ outcome = Nothing /\ guard = "armed"

-----------------------------------------------------------------------------
\* ffmpeg: external.

Writing == {k \in Frames : frame[k] \in {"empty", "partial"}}

CreateFrame ==
    /\ dir /\ next < Expected /\ Writing = {}
    /\ frame' = [frame EXCEPT ![next] = "empty"] /\ next' = next + 1
    /\ UNCHANGED other

GrowFrame ==
    /\ dir
    /\ \E k \in Writing :
         frame' = [frame EXCEPT ![k] = IF @ = "empty" THEN "partial"
                                       ELSE "whole"]
    /\ UNCHANGED <<other, next>>

WriteOther ==
    dir /\ ~other /\ other' = TRUE /\ UNCHANGED <<frame, next>>

FfmpegWrites ==
    /\ ff = "run"
    /\ CreateFrame \/ GrowFrame \/ WriteOther
    /\ UNCHANGED <<ff, huge, dir, runner, walk, done, consumer, outcome, guard>>

\* A killed process may still finish the one call it is in.
FfmpegDies ==
    /\ ff = "dying"
    /\ ff' = "killed"
    /\ CreateFrame \/ GrowFrame \/ WriteOther \/ UNCHANGED <<frame, next, other>>
    /\ UNCHANGED <<huge, dir, runner, walk, done, consumer, outcome, guard>>

\* It exits with success only between two frames, and with fewer of them than
\* the grid has when the video ends early.
FfmpegExits ==
    /\ ff = "run"
    /\ \/ Writing = {} /\ ff' \in {"ok", "noisy"}
       \/ ff' = "fail"
    /\ UNCHANGED <<next, huge, disk, runner, walk, done, consumer, outcome,
                   guard>>

-----------------------------------------------------------------------------
\* run_process_command, with the directory as its output limit.  An error of
\* the producer or of the consumer ends the extraction in the poll in which it
\* comes up: the other future is dropped, which kills ffmpeg, and the guard
\* starts to remove the directory.

Kill == IF ff = "run" THEN "dying" ELSE ff

Return(kind) ==
    /\ outcome' = kind /\ ff' = Kill /\ guard' = "unlink"
    /\ UNCHANGED <<next, huge, disk, runner, walk, done, consumer>>

RunnerWalks ==
    /\ outcome = Nothing /\ runner \in {"watch", "final"} /\ walk.left # {}
    /\ \E k \in walk.left :
         walk' = [left |-> walk.left \ {k}, total |-> walk.total + Size(k)]
    /\ UNCHANGED <<ff, next, huge, disk, runner, done, consumer, outcome,
                   guard>>

MonitorOutputLimit ==
    /\ outcome = Nothing /\ runner = "watch" /\ walk.left = {}
    /\ IF walk.total > MaxBytes
       THEN runner' = "limit" /\ walk' = NoWalk
       ELSE walk' = StartWalk /\ UNCHANGED runner
    /\ UNCHANGED <<ff, next, huge, disk, done, consumer, outcome, guard>>

RunnerTimesOut ==
    /\ outcome = Nothing /\ runner = "watch" /\ ff = "run"
    /\ runner' = "timeout" /\ walk' = NoWalk
    /\ UNCHANGED <<ff, next, huge, disk, done, consumer, outcome, guard>>

\* TERM, KILL and wait: ffmpeg may write until it is dead.
Terminated ==
    /\ outcome = Nothing /\ runner \in {"limit", "timeout"}
    /\ outcome' = runner /\ guard' = "unlink"
    /\ ff' = IF ff = "run" THEN "killed" ELSE ff
    /\ UNCHANGED <<next, huge, disk, runner, walk, done, consumer>>

RunnerSeesExit ==
    /\ outcome = Nothing /\ runner = "watch" /\ ff \in Exited
    /\ runner' = "final" /\ walk' = StartWalk
    /\ UNCHANGED <<ff, next, huge, disk, done, consumer, outcome, guard>>

RunnerReturns ==
    /\ outcome = Nothing /\ runner = "final" /\ walk.left = {}
    /\ \/ /\ walk.total <= MaxBytes
          /\ runner' = "ok" /\ walk' = NoWalk /\ done' = TRUE
          /\ UNCHANGED <<ff, next, huge, disk, consumer, outcome, guard>>
       \/ walk.total > MaxBytes /\ Return("limit")

-----------------------------------------------------------------------------
\* consume_sequence_frames.

Consuming(at) == outcome = Nothing /\ pc = at
Elsewhere == <<ff, next, huge, runner, walk, done, outcome, guard>>

TooLarge == SequenceDirectorySize > MaxBytes

\* The entries were already examined after ffmpeg was done.
Examined == fin /\ validated

LoadDone ==
    /\ Consuming("load")
    /\ fin' = done
    /\ pc' = IF index < Expected THEN "check" ELSE "drain"
    /\ UNCHANGED <<Elsewhere, disk, validated, index, len1, samples>>

CheckEntries ==
    /\ Consuming("check")
    /\ \/ /\ Examined
          /\ pc' = "stat"
          /\ UNCHANGED <<Elsewhere, disk, fin, validated, index, len1, samples>>
       \/ /\ ~Examined /\ ~TooLarge /\ ~other
          /\ pc' = "stat" /\ validated' = fin
          /\ UNCHANGED <<Elsewhere, disk, fin, index, len1, samples>>
       \/ ~Examined /\ TooLarge /\ (fin \/ ~other)
          /\ Return("sequence_limit")
       \/ ~Examined /\ other /\ (~fin \/ ~TooLarge)
          /\ Return("unexpected")

\* Mutant: producer_done is loaded after the look at the frame.
NotYetLateLook ==
    \/ /\ ~done /\ pc' = "load"
       /\ UNCHANGED <<Elsewhere, disk, fin, validated, index, len1, samples>>
    \/ done /\ Return("frame_count")

\* The frame is not there yet: wait, unless ffmpeg was done before the look.
NotYet ==
    \/ /\ ~fin /\ pc' = "load"
       /\ UNCHANGED <<Elsewhere, disk, fin, validated, index, len1, samples>>
    \/ fin /\ Return("frame_count")

FirstLook ==
    /\ Consuming("stat")
    /\ \/ frame[index] \in {"absent", "gone"} /\ NotYet
       \/ frame[index] = "empty" /\ ~fin /\ NotYet
       \/ frame[index] = "empty" /\ fin /\ Return("invalid_output")
       \/ /\ Size(index) > 0
          /\ len1' = Size(index) /\ pc' = "stat2"
          /\ UNCHANGED <<Elsewhere, disk, fin, validated, index, samples>>

SecondLook ==
    /\ Consuming("stat2")
    /\ \/ Size(index) # len1 /\ NotYet
       \/ /\ Size(index) = len1 /\ pc' = "decode"
          /\ UNCHANGED <<Elsewhere, disk, fin, validated, index, len1, samples>>

\* A truncated frame does not decode; one beyond the limits is refused once
\* its header is there.
DecodeResults(k) ==
    (IF huge = k THEN {"limit"} ELSE {})
    \cup (IF huge # k /\ frame[k] = "whole" THEN {"image"} ELSE {})
    \cup (IF frame[k] = "partial" THEN {"truncated"} ELSE {})

ConsumeFrame(result) ==
    /\ Consuming("decode")
    /\ result \in DecodeResults(index)
    /\ \/ /\ result = "image"
          /\ samples' = Append(samples, [of |-> index, as |-> frame[index]])
          /\ pc' = "remove"
          /\ UNCHANGED <<Elsewhere, disk, fin, validated, index, len1>>
       \/ result = "limit" /\ Return("frame_limit")
       \/ /\ result = "truncated" /\ ~fin
          /\ pc' = "load"
          /\ UNCHANGED <<Elsewhere, disk, fin, validated, index, len1, samples>>
       \/ result = "truncated" /\ fin /\ Return("decode")

DecodeFrame == \E r \in {"image", "limit", "truncated"} : ConsumeFrame(r)

RemoveFrame ==
    /\ Consuming("remove")
    /\ frame' = [frame EXCEPT ![index] = "gone"]
    /\ index' = index + 1 /\ pc' = "load" /\ len1' = 0
    /\ UNCHANGED <<Elsewhere, other, dir, fin, validated, samples>>

\* All frames are in: watch the directory until ffmpeg is done, then once more.
Drain ==
    /\ Consuming("drain")
    /\ \/ other /\ ~Examined /\ Return("unexpected")
       \/ (~other \/ Examined) /\ TooLarge /\ Return("sequence_limit")
       \/ /\ ~other \/ Examined
          /\ ~TooLarge
          /\ pc' = IF fin THEN "ok" ELSE "load"
          /\ UNCHANGED <<Elsewhere, disk, fin, validated, index, len1, samples>>

\* Any look at the directory or at a file may fail.
ConsumerIoFails ==
    /\ outcome = Nothing /\ pc \in {"check", "stat", "stat2", "remove", "drain"}
    /\ Return("io")

-----------------------------------------------------------------------------
\* run_and_consume_sequence and the directory guard.

Conclude ==
    /\ outcome = Nothing /\ runner = "ok" /\ pc = "ok"
    /\ Return(CASE ff = "noisy" -> "output_limit"
              [] ff = "fail" -> "process_failed"
              [] ff = "ok" -> IF Len(samples) # Expected THEN "grid" ELSE "ok")

\* The future is dropped: the producer first, then the guard, whose Drop
\* tries once.
Cancel ==
    /\ outcome = Nothing
    /\ outcome' = "cancelled" /\ ff' = Kill /\ guard' = "drop_unlink"
    /\ UNCHANGED <<next, huge, disk, runner, walk, done, consumer>>

\* remove_dir_all: the entries, then the directory, which must be empty.
Unlink ==
    /\ guard \in {"unlink", "drop_unlink"}
    /\ frame' = [k \in Frames |-> IF frame[k] = "absent" THEN "absent"
                                  ELSE "gone"]
    /\ other' = FALSE
    /\ guard' = IF guard = "unlink" THEN "rmdir" ELSE "drop_rmdir"
    /\ UNCHANGED <<ff, next, huge, dir, runner, walk, done, consumer, outcome>>

Empty == ~other /\ \A k \in Frames : frame[k] \in {"absent", "gone"}

\* cleanup(): a failed removal is an error, and leaves the guard armed for
\* its Drop.
Cleanup ==
    /\ guard = "rmdir"
    /\ dir' = ~Empty
    /\ guard' = IF Empty THEN "released" ELSE "drop_unlink"
    /\ outcome' = IF ~Empty /\ outcome = "ok" THEN "directory" ELSE outcome
    /\ UNCHANGED <<ff, next, frame, other, huge, runner, walk, done, consumer>>

DropGuard ==
    /\ guard = "drop_rmdir"
    /\ dir' = ~Empty
    /\ guard' = "released"
    /\ UNCHANGED <<ff, next, frame, other, huge, runner, walk, done, consumer,
                   outcome>>

Next ==
    \/ FfmpegWrites \/ FfmpegDies \/ FfmpegExits
    \/ RunnerWalks \/ MonitorOutputLimit \/ RunnerTimesOut \/ Terminated
    \/ RunnerSeesExit \/ RunnerReturns
    \/ LoadDone \/ CheckEntries \/ FirstLook \/ SecondLook \/ DecodeFrame
    \/ RemoveFrame \/ Drain \/ ConsumerIoFails
    \/ Conclude \/ Cancel \/ Unlink \/ Cleanup \/ DropGuard

Spec == Init /\ [][Next]_vars

-----------------------------------------------------------------------------
\* The fingerprint is built from the frames ffmpeg wrote, each one whole, in
\* their order, none twice and none left out, although the consumer reads the
\* files while they are written; a fingerprint is only returned with all the
\* frames of the grid and after ffmpeg succeeded.
SamplesAreFrames ==
    /\ \A k \in DOMAIN samples : samples[k] = [of |-> k - 1, as |-> "whole"]
    /\ outcome = "ok" => Len(samples) = Expected /\ ff = "ok"

\* The consumer blames what is true: it reports too few frames only when ffmpeg
\* ended before the last one, and an unreadable frame only when ffmpeg failed
\* in the middle of it.  A frame that appears just before ffmpeg ends is not
\* missed, and one seen half written is looked at again.
BlamesTruly ==
    /\ outcome = "frame_count" => ff \in Exited /\ next < Expected
    /\ outcome \in {"decode", "invalid_output"} => ff = "fail"

=============================================================================
