------------------------------- MODULE MemSampler -------------------------------
(***************************************************************************)
(* The memory sampler of one run (resmon/mem.go): a sample every tick of   *)
(* its loop until Stop, which reduces the series to maxSeriesPoints        *)
(* points.  downsample picks points at equal distances and then moves, for *)
(* the first, the last and the peak sample, the nearest picked point onto  *)
(* it; it takes these anchors in the order of a Go map, that is in any     *)
(* order.  Samples are numbered from 0, as in the code.                    *)
(*                                                                         *)
(* An operator named ...Mutant is the operator after it as a plausible bug *)
(* would have it; the specification does not use it.                       *)
(***************************************************************************)
EXTENDS Integers, Sequences, SequencesExt

CONSTANTS MaxSeriesPoints,  \* maxSeriesPoints
          Rss,              \* readings of procRssMB
          MaxSamples        \* bound: ticks of a run

ASSUME MemSamplerAssumption ==
  /\ MaxSeriesPoints \in Nat \ {0, 1}
  /\ Rss \subseteq Nat /\ MaxSamples \in Nat

VARIABLES samps,    \* the readings so far
          pc,       \* "sampling", "placing" (in downsample), or "stopped"
          picks,    \* slot -> picked sample
          anchors,  \* anchors that have not been placed yet
          series    \* the numbers of the samples in the reduced series

vars == <<samps, pc, picks, anchors, series>>

Init ==
  /\ samps = <<>> /\ pc = "sampling"
  /\ picks = <<>> /\ anchors = {} /\ series = <<>>

n == Len(samps)
Samples == 0..(n - 1)
Reading(i) == samps[i + 1]

\* tick, from loop.
Tick ==
  /\ pc = "sampling" /\ n < MaxSamples
  /\ \E rss \in Rss : samps' = Append(samps, rss)
  /\ UNCHANGED <<pc, picks, anchors, series>>

\* The first sample with the highest reading.
Peak == Min({i \in Samples : \A j \in Samples : Reading(j) <= Reading(i)})

Slots == 0..(MaxSeriesPoints - 1)
EqualDistancesMutant == [i \in Slots |-> i * (n \div (MaxSeriesPoints - 1))]
EqualDistances == [i \in Slots |-> (i * (n - 1)) \div (MaxSeriesPoints - 1)]

\* Stop: the loop has ended; a short series is kept as it is.
StopShort ==
  /\ pc = "sampling" /\ n <= MaxSeriesPoints
  /\ series' = [i \in 1..n |-> i - 1]
  /\ pc' = "stopped"
  /\ UNCHANGED <<samps, picks, anchors>>

StopLongMutant ==
  /\ pc = "sampling" /\ n > MaxSeriesPoints
  /\ picks' = EqualDistances
  /\ anchors' = {0, n - 1}
  /\ pc' = "placing"
  /\ UNCHANGED <<samps, series>>
StopLong ==
  /\ pc = "sampling" /\ n > MaxSeriesPoints
  /\ picks' = EqualDistances
  /\ anchors' = {0, n - 1, Peak}
  /\ pc' = "placing"
  /\ UNCHANGED <<samps, series>>

Distance(i, j) == IF i < j THEN j - i ELSE i - j

\* The slot nearest to a sample; the first of two that are equally near.
Nearest(k) ==
  Min({i \in Slots : \A j \in Slots : Distance(picks[i], k) <= Distance(picks[j], k)})

PlaceAnchor(k) ==
  /\ pc = "placing"
  /\ picks' = [picks EXCEPT ![Nearest(k)] = k]
  /\ anchors' = anchors \ {k}
  /\ UNCHANGED <<samps, pc, series>>

\* The picked samples in the order of their slots, each once.
Unseen(out, p) == IF \E i \in DOMAIN out : out[i] = p THEN out ELSE Append(out, p)
DropDuplicates ==
  /\ pc = "placing" /\ anchors = {}
  /\ series' = FoldLeft(Unseen, <<>>, [i \in 1..MaxSeriesPoints |-> picks[i - 1]])
  /\ pc' = "stopped"
  /\ UNCHANGED <<samps, picks, anchors>>

Next == \/ Tick \/ StopShort \/ StopLong
        \/ \E k \in anchors : PlaceAnchor(k)
        \/ DropDuplicates

Spec == Init /\ [][Next]_vars

-------------------------------------------------------------------------------
TypeOK ==
  /\ samps \in Seq(Rss) /\ n <= MaxSamples
  /\ pc \in {"sampling", "placing", "stopped"}
  /\ pc = "placing" => picks \in [Slots -> Samples]
  /\ anchors \subseteq Samples /\ series \in Seq(Samples)

(***************************************************************************)
(* Moving picked points onto the anchors, in whatever order, never puts    *)
(* the reduced series out of order or makes two of its points one: it has  *)
(* as many points as it may, in the order they were taken (mem.go:192-217).*)
(***************************************************************************)
SeriesInOrder ==
  pc = "stopped" =>
    /\ Len(series) = IF n < MaxSeriesPoints THEN n ELSE MaxSeriesPoints
    /\ \A i \in DOMAIN series : series[i] \in Samples
    /\ \A i, j \in DOMAIN series : i < j => series[i] < series[j]

\* The samples that are to be kept, those of them that are, and whether two of
\* them are so close that one picked point may be the nearest of both.
Anchors == {0, n - 1, Peak}
Kept == Anchors \cap Range(series)
Close(k, l) == 2 * Distance(k, l) * (MaxSeriesPoints - 1) <= (n - 1) + MaxSeriesPoints

(***************************************************************************)
(* The first, the last and the peak sample are in the reduced series,      *)
(* unless the peak comes so soon after the first or so shortly before the  *)
(* last that both are nearest to one point, and even then at most one of   *)
(* the three is missing (mem.go:191-206).                                  *)
(***************************************************************************)
DistantAnchorsKept ==
  pc = "stopped" /\ n > 0 =>
    /\ Cardinality(Kept) >= Cardinality(Anchors) - 1
    /\ (\A k, l \in Anchors : k # l => ~Close(k, l)) => Kept = Anchors

(***************************************************************************)
(* "the first, last and peak-RSS samples are always preserved as anchor    *)
(* indexes" (mem.go:176-177).                                              *)
(***************************************************************************)
AnchorsKept == pc = "stopped" /\ n > 0 => Kept = Anchors
===============================================================================
