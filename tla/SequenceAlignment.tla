-------------------------- MODULE SequenceAlignment --------------------------
(***************************************************************************)
(* The temporal comparison of two videos (crates/media/src/                *)
(* sequence_alignment.rs): a local alignment of their sequences of sampled *)
(* frames, the evidence read off the best alignment and the verdict drawn  *)
(* from the evidence.                                                      *)
(*                                                                         *)
(* The table is filled cell by cell in the order of the two loops, then    *)
(* walked back from its best cell.  A hash is the set of its one bits; the *)
(* sequences here are shorter than the 2048 samples at which the sampling  *)
(* interval starts to grow, so both are sampled every 500 ms.              *)
(***************************************************************************)
EXTENDS Integers, Sequences, FiniteSets, FiniteSetsExt, SequencesExt

CONSTANTS
    Sequences1,   \* the incoming sequences of samples compared
    Sequences2,   \* the candidate sequences
    Config        \* the SequenceAlignmentConfig

VARIABLES
    pc,           \* "fill", "back", "evidence", "done" or "refused"
    incoming, candidate,
    scores, directions,
    at,           \* the cell the loop, or the walk back, is at
    best,         \* the best cell so far and its score
    path,         \* the steps of the walk back, last first
    evidence, classification

vars == <<pc, incoming, candidate, scores, directions, at, best, path,
          evidence, classification>>

InfoThreshold == 1000
Interval == 500
Nothing == "none"

Floor0(x) == IF x > 0 THEN x ELSE 0
AbsDiff(a, b) == IF a > b THEN a - b ELSE b - a
DivCeil(a, b) == (a + b - 1) \div b

PairDistanceBps(l, r) ==
    LET bits(a, b) == (Cardinality((a \ b) \cup (b \ a)) * 10000) \div 64
        colour == (AbsDiff(l.luma, r.luma) * 10000) \div 255
                  + (AbsDiff(l.u, r.u) * 10000) \div 255
                  + (AbsDiff(l.v, r.v) * 10000) \div 255
    IN  Min({10000, (4 * bits(l.phash, r.phash) + 4 * bits(l.dhash, r.dhash)
                     + 2 * (colour \div 3)) \div 10})

Informative(s) == s.info >= InfoThreshold

PairScore(l, r) ==
    LET information == Min({l.info, r.info})
        weight == IF information < InfoThreshold THEN 0
                  ELSE 4600 + ((information - InfoThreshold) * 5400) \div 9000
    IN  ((10000 - PairDistanceBps(l, r)) * weight) \div 10000 - 4500

ValidConfig ==
    /\ Config.minIncomingCoverage <= 10000
    /\ Config.minCandidateCoverage <= 10000
    /\ Config.minInformative # 0
    /\ Config.maxMedian <= 10000
    /\ Config.maxHigh <= 10000
    /\ Config.minRun # 0
    /\ Config.minScore <= 10000
    /\ Config.gap # 0
    /\ Config.maxCells # 0

Cells == (0 .. Len(incoming)) \X (0 .. Len(candidate))
Refused ==
    \/ ~ValidConfig
    \/ incoming = <<>> \/ candidate = <<>>
    \/ Cardinality(Cells) > Config.maxCells

Init ==
    /\ incoming \in Sequences1 /\ candidate \in Sequences2
    /\ pc = IF Refused THEN "refused" ELSE "fill"
    /\ scores = [c \in Cells |-> 0]
    /\ directions = [c \in Cells |-> "stop"]
    /\ at = <<1, 1>>
    /\ best = <<0, 0, 0>>
    /\ path = <<>>
    /\ evidence = Nothing /\ classification = Nothing

\* Mutant: the two gap directions are swapped.
EntrySwapped(i, j) ==
    LET diagonal == scores[<<i - 1, j - 1>>]
                    + PairScore(incoming[i], candidate[j])
        up == scores[<<i - 1, j>>] - Config.gap
        left == scores[<<i, j - 1>>] - Config.gap
    IN  IF diagonal > 0 /\ diagonal >= up /\ diagonal >= left
        THEN [score |-> diagonal, direction |-> "match"]
        ELSE IF up > 0 /\ up >= left
        THEN [score |-> up, direction |-> "left"]
        ELSE IF left > 0
        THEN [score |-> left, direction |-> "up"]
        ELSE [score |-> 0, direction |-> "stop"]

\* The three ways into a cell, and the order in which ties are broken.
Entry(i, j) ==
    LET diagonal == scores[<<i - 1, j - 1>>]
                    + PairScore(incoming[i], candidate[j])
        up == scores[<<i - 1, j>>] - Config.gap
        left == scores[<<i, j - 1>>] - Config.gap
    IN  IF diagonal > 0 /\ diagonal >= up /\ diagonal >= left
        THEN [score |-> diagonal, direction |-> "match"]
        ELSE IF up > 0 /\ up >= left
        THEN [score |-> up, direction |-> "up"]
        ELSE IF left > 0
        THEN [score |-> left, direction |-> "left"]
        ELSE [score |-> 0, direction |-> "stop"]

NextCell ==
    IF at[2] < Len(candidate) THEN <<at[1], at[2] + 1>> ELSE <<at[1] + 1, 1>>

FillCell ==
    /\ pc = "fill"
    /\ at[1] <= Len(incoming)
    /\ LET e == Entry(at[1], at[2])
       IN  /\ scores' = [scores EXCEPT ![at] = e.score]
           /\ directions' = [directions EXCEPT ![at] = e.direction]
           /\ best' = IF e.score > best[3] THEN <<at[1], at[2], e.score>>
                      ELSE best
    /\ at' = NextCell
    /\ UNCHANGED <<pc, incoming, candidate, path, evidence, classification>>

StartWalk ==
    /\ pc = "fill"
    /\ at[1] > Len(incoming)
    /\ pc' = "back" /\ at' = <<best[1], best[2]>>
    /\ UNCHANGED <<incoming, candidate, scores, directions, best, path,
                   evidence, classification>>

Gap == [kind |-> "gap"]
MatchAt(i, j) ==
    [kind |-> "match", incoming |-> i - 1, candidate |-> j - 1,
     distance |-> PairDistanceBps(incoming[i], candidate[j])]

WalkEnds ==
    at[1] = 0 \/ at[2] = 0 \/ scores[at] = 0 \/ directions[at] = "stop"

WalkBack ==
    /\ pc = "back" /\ ~WalkEnds
    /\ CASE directions[at] = "match" ->
              /\ path' = Append(path, MatchAt(at[1], at[2]))
              /\ at' = <<at[1] - 1, at[2] - 1>>
         [] directions[at] = "up" ->
              path' = Append(path, Gap) /\ at' = <<at[1] - 1, at[2]>>
         [] directions[at] = "left" ->
              path' = Append(path, Gap) /\ at' = <<at[1], at[2] - 1>>
    /\ UNCHANGED <<pc, incoming, candidate, scores, directions, best,
                   evidence, classification>>

\* path.reverse()
EndWalk ==
    /\ pc = "back" /\ WalkEnds
    /\ pc' = "evidence" /\ path' = Reverse(path)
    /\ UNCHANGED <<incoming, candidate, scores, directions, at, best,
                   evidence, classification>>

-----------------------------------------------------------------------------
\* The evidence read off the path.

BasisPoints(n, d) == IF d = 0 THEN 0 ELSE (Min({n, d}) * 10000) \div d

\* Without values the evidence takes 10000, the code's unwrap_or.
Percentile(values, p) ==
    IF values = <<>> THEN 10000
    ELSE LET index == DivCeil((Len(values) - 1) * p, 100)
         IN  SortSeq(values, <)[index + 1]

Matches == SelectSeq(path, LAMBDA s : s.kind = "match")

InformativeMatches ==
    SelectSeq(Matches, LAMBDA m : /\ Informative(incoming[m.incoming + 1])
                                  /\ Informative(candidate[m.candidate + 1])
                                  /\ m.distance <= 8000)

\* One match follows the other in both sequences and both are close.
Consecutive(a, b) ==
    /\ b.incoming = a.incoming + 1 /\ b.candidate = a.candidate + 1
    /\ a.distance <= 3500 /\ b.distance <= 3500

LongestRun(ms) ==
    IF ms = <<>> THEN 0
    ELSE 1 + Max({n \in 0 .. Len(ms) - 1 :
                    \E k \in 1 .. Len(ms) - n :
                      \A x \in k .. k + n - 1 : Consecutive(ms[x], ms[x + 1])})

GapCount ==
    Cardinality({x \in DOMAIN path :
                   /\ path[x].kind = "gap"
                   /\ x = 1 \/ path[x - 1].kind # "gap"})

AlignmentScoreBps(score, count, median, coverage) ==
    IF count = 0 \/ score <= 0 THEN 0
    ELSE Min({10000, (Min({score, 10000}) * 4) \div 10
                     + (Floor0(10000 - median) * 4) \div 10
                     + (coverage * 2) \div 10})

EvidenceFromPath ==
    LET ms == Matches
        informative == InformativeMatches
        distances == [x \in DOMAIN informative |-> informative[x].distance]
        median == Percentile(distances, 50)
        inCov == BasisPoints(Len(ms), Len(incoming))
        candCov == BasisPoints(Len(ms), Len(candidate))
        some == ms # <<>>
    IN  [offset |-> IF some THEN (Head(ms).candidate - Head(ms).incoming)
                                 * Interval
                    ELSE 0,
         informative |-> Len(informative),
         incomingCoverage |-> inCov, candidateCoverage |-> candCov,
         median |-> median,
         high |-> Percentile(distances, 95),
         run |-> LongestRun(ms),
         incomingPrefix |-> IF some THEN Head(ms).incoming ELSE Len(incoming),
         incomingSuffix |-> IF some THEN Len(incoming) - (Last(ms).incoming + 1)
                            ELSE Len(incoming),
         candidatePrefix |-> IF some THEN Head(ms).candidate
                             ELSE Len(candidate),
         candidateSuffix |-> IF some
                             THEN Len(candidate) - (Last(ms).candidate + 1)
                             ELSE Len(candidate),
         gaps |-> GapCount,
         score |-> AlignmentScoreBps(best[3], Len(informative), median,
                                     Min({inCov, candCov}))]

Classify(e) ==
    IF /\ e.informative >= Config.minInformative
       /\ e.incomingCoverage >= Config.minIncomingCoverage
       /\ e.candidateCoverage >= Config.minCandidateCoverage
       /\ e.median <= Config.maxMedian
       /\ e.high <= Config.maxHigh
       /\ e.run >= Config.minRun
       /\ e.gaps <= Config.maxGaps
       /\ e.score >= Config.minScore
    THEN "strong_duplicate"
    ELSE IF e.informative > 0 THEN "partial_match" ELSE "not_duplicate"

Conclude ==
    /\ pc = "evidence"
    /\ pc' = "done"
    /\ evidence' = EvidenceFromPath
    /\ classification' = Classify(EvidenceFromPath)
    /\ UNCHANGED <<incoming, candidate, scores, directions, at, best, path>>

Next == FillCell \/ StartWalk \/ WalkBack \/ EndWalk \/ Conclude

Spec == Init /\ [][Next]_vars

-----------------------------------------------------------------------------
\* What the code promises.

\* Every local alignment matches an increasing choice I of incoming samples
\* with an equally long increasing choice J of candidate samples, and pays
\* for each sample it skips between its first and its last match.
Skipped(S) == Max(S) - Min(S) + 1 - Cardinality(S)
Pairs(I, J) ==
    LET i == SetToSortSeq(I, <)
        j == SetToSortSeq(J, <)
    IN  {<<i[x], j[x]>> : x \in DOMAIN i}
Earned(pairs) ==
    MapThenSumSet(LAMBDA p : PairScore(incoming[p[1]], candidate[p[2]]), pairs)
AlignmentScores ==
    {Earned(Pairs(q[1], q[2])) - Config.gap * (Skipped(q[1]) + Skipped(q[2])) :
       q \in {r \in (SUBSET DOMAIN incoming) \X (SUBSET DOMAIN candidate) :
                r[1] # {} /\ Cardinality(r[1]) = Cardinality(r[2])}}

\* The score of the best cell is the largest score of any local alignment of
\* the two sequences, zero when none is positive: filling the table cell by
\* cell, with its order of ties and its cut at zero, misses no alignment.
BestIsOptimal == pc = "back" => best[3] = Max({0} \cup AlignmentScores)

\* The walk back finds an alignment that earns exactly the best score, whose
\* matches go forward in both sequences: the directions kept while the table
\* is filled agree with the scores kept beside them.
PathEarnsBest ==
    pc = "evidence" =>
        LET ms == Matches
        IN  /\ \A x \in 1 .. Len(ms) - 1 :
                  /\ ms[x].incoming < ms[x + 1].incoming
                  /\ ms[x].candidate < ms[x + 1].candidate
            /\ Earned({<<m.incoming + 1, m.candidate + 1>> : m \in Range(ms)})
               - Config.gap * (Len(path) - Len(ms)) = best[3]

\* The evidence describes one stretch of each video: its unmatched prefix, the
\* samples it matches, the ones it skips and its unmatched suffix make up the
\* whole sequence, and every gap counted is a jump between two matches, so
\* the path neither starts nor ends in a gap.
EvidenceAddsUp ==
    (pc = "done" /\ Matches # <<>>) =>
        LET ms == Matches
        IN  /\ evidence.incomingPrefix + evidence.incomingSuffix
               + evidence.candidatePrefix + evidence.candidateSuffix
               + 2 * Len(ms) + (Len(path) - Len(ms))
               = Len(incoming) + Len(candidate)
            /\ evidence.gaps =
                 Cardinality({x \in 1 .. Len(ms) - 1 :
                    \/ ms[x + 1].incoming # ms[x].incoming + 1
                    \/ ms[x + 1].candidate # ms[x].candidate + 1})

=============================================================================
