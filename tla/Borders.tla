------------------------------- MODULE Borders --------------------------------
(***************************************************************************)
(* The borders the grid creator puts between the values of a feature       *)
(* (library/grid_creator/binarization.cpp): quantiles, equal distances,    *)
(* and positions found by a dynamic program.                               *)
(*                                                                         *)
(* values is the sorted vector, a function from 0 .. n-1.                  *)
(*                                                                         *)
(* A number is an integer, in units of the least positive double.  Float   *)
(* and Double are the formats: the numbers each of them has, and those     *)
(* with an even significand, which a tie is rounded to.  Every operation   *)
(* of the code on floats is rounded.                                       *)
(***************************************************************************)
EXTENDS Integers, FiniteSets, FiniteSetsExt

CONSTANTS
  Float, Double,     \* records of sets: numbers and even
  One,               \* the number 1
  Limit              \* a float; numbers up to it can be doubled

ASSUME FormatAssumption ==
  /\ Float.numbers \subseteq Double.numbers /\ Double.numbers \subseteq Int
  /\ One \in Nat \ {0} /\ Limit \in Float.numbers \cap Nat /\ -Limit \in Float.numbers
  /\ \A f \in Float.numbers : -Limit <= f /\ f <= Limit => 2 * f \in Float.numbers

Size(values) == Cardinality(DOMAIN values)
Front(values) == values[0]
Back(values) == values[Size(values) - 1]

\* num / den as a number of the format: the nearest one, of two the even one.
Nearest(format, num, den) ==
  LET Far(f)  == IF f * den < num THEN num - f * den ELSE f * den - num
      least   == Min({Far(f) : f \in format.numbers})
      nearest == {f \in format.numbers : Far(f) = least}
  IN  CHOOSE f \in nearest : f \in format.even \/ nearest \cap format.even = {}

\* An exact result as a float.
Rounded(num) == Nearest(Float, num, 1)

\* The mean of two floats: their sum, and half of it.
Midpoint(a, b) == Nearest(Float, Rounded(a + b), 2)

\* The mean of two floats as medianInBin takes it: the sum of their halves.
SumOfHalves(a, b) == Rounded(Nearest(Float, a, 2) + Nearest(Float, b, 2))

\* Means lie between, and are one of the two only if they are neighbours: there
\* is no float between them.
ASSUME MeanAssumption ==
  \A a, b \in {f \in Float.numbers : -Limit <= f /\ f <= Limit} : a < b =>
    \A mean \in {Midpoint(a, b), SumOfHalves(a, b)} :
      /\ a <= mean /\ mean <= b
      /\ mean \in {a, b} => \A f \in Float.numbers : ~(a < f /\ f < b)

\* The borders for values beyond the last and before the first.
AlwaysFalse(values) == Max({Rounded(2 * Back(values)), Rounded(Back(values) + One)})
AlwaysTrue(values) == Min({Nearest(Float, Front(values), 2), Rounded(2 * Front(values))})

\* Mutant: the rounding to the wrong side is not undone.
RegularBorderRounded(p, values) ==
  IF p = Size(values) THEN AlwaysFalse(values)
  ELSE IF p = 0 THEN AlwaysTrue(values)
  ELSE Midpoint(values[p], values[p - 1])

\* RegularBorder, p being the position of lowerBound: a border above or below
\* all values, or the one between a value and the one before it.
RegularBorder(p, values) ==
  IF p = Size(values) THEN AlwaysFalse(values)
  ELSE IF p = 0 THEN AlwaysTrue(values)
  ELSE LET res == Midpoint(values[p], values[p - 1])
       IN  IF res = values[p] THEN values[p - 1] ELSE res

\* LowerBound(values.begin(), values.end(), x) - values.begin().
Position(x, values) == Min({p \in DOMAIN values : values[p] >= x} \cup {Size(values)})

\* A border before the first value equal to each of the quantiles.
GenerateMedianBorders(values, bordersCount) ==
  LET n        == Size(values)
      quantile == [i \in 0 .. (bordersCount - 1) |->
                     values[Min({((i + 1) * n) \div (bordersCount + 1), n - 1})]]
  IN  IF n = 0 \/ Front(values) = Back(values) THEN {}
      ELSE {RegularBorder(Position(quantile[i], values), values) :
              i \in {b \in DOMAIN quantile : quantile[b] # Front(values)}}

\* minValue + i * (maxValue - minValue) / (halfBorders + 1), rounded four times.
UniformValue(i, values, half) ==
  LET range == Rounded(Back(values) - Front(values))
  IN  Rounded(Front(values) + Nearest(Float, Rounded(i * range), half + 1))

\* Half of the borders at quantiles, half at equal distances.
MedianPlusUniform(values, bordersCount) ==
  LET half == bordersCount \div 2
  IN  IF Front(values) = Back(values) THEN {}
      ELSE GenerateMedianBorders(values, bordersCount - half)
             \cup {RegularBorder(Position(UniformValue(i, values, half), values), values) : i \in 1 .. half}

\* SplitWithGuaranteedOptimum: the distinct values, in order.
Features(values) ==
  LET distinct == {values[p] : p \in DOMAIN values}
  IN  [r \in 0 .. (Cardinality(distinct) - 1) |->
         CHOOSE v \in distinct : Cardinality({u \in distinct : u < v}) = r]

\* BestSplit: a border behind every threshold but the last position.
BordersBehind(thresholds, features) ==
  {Midpoint(features[t], features[t + 1]) : t \in {u \in thresholds : u + 1 # Size(features)}}

=============================================================================
