----------------------------- MODULE Binarization -----------------------------
(***************************************************************************)
(* The binarization of one feature in the five modes of --binarization:    *)
(* IBinarizer::BestSplit (library/grid_creator) and BinarizeFeature.  The  *)
(* dynamic program of minEntropy and maxSumLog is module OptimalSplit;     *)
(* here, as mode "optimal", its thresholds are any positions that make as  *)
(* many bins as can be.                                                    *)
(*                                                                         *)
(* medianInBin keeps a priority queue of bins, each a range of positions   *)
(* of the sorted values, and splits its top at its best position until     *)
(* there are enough.  The score log(a) + log(b) of a split into a and b    *)
(* values is represented by a * b, so that 0.0 is 1.  Among bins of equal  *)
(* score any may be on top.                                                *)
(***************************************************************************)
EXTENDS Borders

CONSTANTS
  Vectors,           \* values of a feature: functions from 0 .. n-1, n > 0
  BordersCounts,     \* values of -x
  Modes              \* "median", "medianPlusUniform", "medianInBin" and "optimal"

ASSUME BinarizationAssumption ==
  /\ \A v \in Vectors :
       /\ Size(v) \in Nat \ {0}
       /\ v \in [0 .. (Size(v) - 1) -> {d \in Double.numbers : -Limit <= d /\ d <= Limit}]
  /\ BordersCounts \subseteq Nat

VARIABLES
  feature,           \* the values as they were read, doubles
  values,            \* the same as sorted floats
  bordersCount, mode,
  splits,            \* the priority queue of medianInBin
  thresholds,        \* the result of the dynamic program
  done, borders

inputVars == <<feature, values, bordersCount, mode>>
gridVars == <<inputVars, splits, thresholds, done, borders>>

\* yvector<float>(feature.begin(), feature.end()), sorted: at p the least value
\* that more than p values do not exceed.
SortedFloats(f) ==
  LET float == [i \in DOMAIN f |-> Rounded(f[i])]
  IN  [p \in DOMAIN f |->
         Min({v \in {float[i] : i \in DOMAIN f} : Cardinality({i \in DOMAIN f : float[i] <= v}) > p})]

\* Mutant: the first value equal to the median is always taken.
FeatureBinLower(start, end) ==
  LET mid == (start + end) \div 2
      lb  == Min({p \in start .. mid : p = mid \/ values[p] >= values[mid]})
  IN  [start |-> start, end |-> end, split |-> lb, score |-> IF lb # start THEN (lb - start) * (end - lb) ELSE 1]

\* TFeatureBin with UpdateBestSplitProperties: the split lies before the first
\* or behind the last value equal to the median of the bin.
FeatureBin(start, end) ==
  LET mid   == (start + end) \div 2
      lb    == Min({p \in start .. mid : p = mid \/ values[p] >= values[mid]})
      up    == Min({p \in mid .. end : p = end \/ values[p] > values[mid]})
      left  == IF lb # start THEN (lb - start) * (end - lb) ELSE 1
      right == IF up # end THEN (up - start) * (end - up) ELSE 1
  IN  [start |-> start, end |-> end,
       split |-> IF left >= right THEN lb ELSE up,
       score |-> IF left >= right THEN left ELSE right]

CanSplit(bin) == bin.split \notin {bin.start, bin.end}

\* TFeatureBin::Split, the part it returns and the part it keeps.
Halves(bin) == {FeatureBin(bin.start, bin.split), FeatureBin(bin.split, bin.end)}

IsLast(bin) == bin.end = Size(values)

Border(bin) == SumOfHalves(values[bin.end - 1], values[IF IsLast(bin) THEN bin.end - 1 ELSE bin.end])

\* The top of the priority queue.
IsTop(bin) == \A other \in splits : other.score <= bin.score

-----------------------------------------------------------------------------
GridInit ==
  /\ feature \in Vectors /\ values = SortedFloats(feature)
  /\ bordersCount \in BordersCounts /\ mode \in Modes
  /\ splits = {} /\ thresholds = {} /\ done = FALSE /\ borders = {}

Median ==
  /\ ~done /\ mode = "median"
  /\ borders' = GenerateMedianBorders(values, bordersCount)
  /\ done' = TRUE
  /\ UNCHANGED <<inputVars, splits, thresholds>>

Uniform ==
  /\ ~done /\ mode = "medianPlusUniform"
  /\ borders' = MedianPlusUniform(values, bordersCount)
  /\ done' = TRUE
  /\ UNCHANGED <<inputVars, splits, thresholds>>

Optimal ==
  LET features == Features(values)
      last     == Size(features) - 1
  IN  /\ ~done /\ mode = "optimal"
      /\ thresholds' \in kSubset(Min({bordersCount, last}), 0 .. (last - 1))
      /\ borders' = BordersBehind(thresholds', features)
      /\ done' = TRUE
      /\ UNCHANGED <<inputVars, splits>>

\* The queue of BestSplit starts with all values in one bin.
FirstBin ==
  /\ ~done /\ mode = "medianInBin" /\ splits = {}
  /\ splits' = {FeatureBin(0, Size(values))}
  /\ UNCHANGED <<inputVars, thresholds, done, borders>>

\* One turn of its loop.
Split ==
  /\ ~done /\ mode = "medianInBin"
  /\ Cardinality(splits) <= bordersCount
  /\ \E top \in splits :
       /\ IsTop(top) /\ CanSplit(top)
       /\ splits' = (splits \ {top}) \cup Halves(top)
  /\ UNCHANGED <<inputVars, thresholds, done, borders>>

\* Mutant: the loop ends when any bin cannot be split.
StopAtAny ==
  /\ ~done /\ mode = "medianInBin" /\ splits # {}
  /\ Cardinality(splits) <= bordersCount => \E bin \in splits : ~CanSplit(bin)
  /\ borders' = {Border(bin) : bin \in {b \in splits : ~IsLast(b)}}
  /\ done' = TRUE
  /\ UNCHANGED <<inputVars, splits, thresholds>>

\* Enough bins, or the top cannot be split: a border at the end of every bin
\* but the last.
Stop ==
  /\ ~done /\ mode = "medianInBin" /\ splits # {}
  /\ Cardinality(splits) <= bordersCount => \E top \in splits : IsTop(top) /\ ~CanSplit(top)
  /\ borders' = {Border(bin) : bin \in {b \in splits : ~IsLast(b)}}
  /\ done' = TRUE
  /\ UNCHANGED <<inputVars, splits, thresholds>>

BestSplit == Median \/ Uniform \/ Optimal \/ FirstBin \/ Split \/ Stop

-----------------------------------------------------------------------------
(***************************************************************************)
(* Properties                                                              *)
(***************************************************************************)

\* The bin of a border, as BinarizeFeature makes it: the examples above it.
Bin(b) == {i \in DOMAIN feature : feature[i] > b}

\* One of the borders at equal distances was rounded to the first value, or
\* beyond the last.
UniformOff ==
  LET half == bordersCount \div 2
  IN  /\ mode = "medianPlusUniform"
      /\ \E i \in 1 .. half : ~(/\ Front(values) < UniformValue(i, values, half)
                               /\ UniformValue(i, values, half) <= Back(values))

\* Every border is worth its bin, in every mode: there are at most -x of them;
\* each that is not itself a value separates some examples from others, and no
\* two of these separate the same ones, whichever quantiles and distances fall
\* together; a border is itself a value only where two values are neighbours as
\* floats, and then RegularBorder makes it the smaller one, so that it is below
\* one of them.  The exception are the borders at equal distances when
\* RegularBorder is asked for one outside of the values.
BinsInformative ==
  LET held  == {values[p] : p \in DOMAIN values}
      clear == borders \ held
  IN  done =>
        /\ Cardinality(borders) <= bordersCount
        /\ \A b \in clear : Bin(b) \in {{}, DOMAIN feature} => UniformOff
        /\ \A b, c \in clear : b # c => Bin(b) # Bin(c)
        /\ \A b \in borders \cap held :
             \/ UniformOff
             \/ \E v \in held \ {b} :
                  /\ \A f \in Float.numbers : ~(b < f /\ f < v) /\ ~(v < f /\ f < b)
                  /\ mode \in {"median", "medianPlusUniform"} => b < v

\* Positions in a bin at which different values meet.
Cuts(start, end) == {p \in (start + 1) .. (end - 1) : values[p - 1] # values[p]}

\* Looking only at the two ends of the run of the median is enough: no cut of
\* the bin makes two parts with a larger product of sizes, and a bin that
\* cannot be split has one value only.
MedianIsBest ==
  \A bin \in splits :
    /\ CanSplit(bin) <=> Cuts(bin.start, bin.end) # {}
    /\ CanSplit(bin) => bin.split \in Cuts(bin.start, bin.end)
    /\ \A p \in Cuts(bin.start, bin.end) : (p - bin.start) * (bin.end - p) <= bin.score

\* A pair scores log(1) + log(1), no more than a bin that cannot be split; the
\* loop may stop with fewer borders than asked for, but only pairs are left.
OnlyPairsLeft ==
  done /\ mode = "medianInBin" /\ Cardinality(splits) <= bordersCount =>
    \A bin \in splits : CanSplit(bin) => bin.end - bin.start = 2

=============================================================================
