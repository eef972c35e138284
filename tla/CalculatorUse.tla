---------------------------- MODULE CalculatorUse -----------------------------
(***************************************************************************)
(* How the selection uses the calculators: the label and one bin for the   *)
(* mutual information of the first round (cmicot/lib/selection.cpp), then  *)
(* the two TCmiCalculators of a call of TCachingBinScorer::Evaluate        *)
(* (caching_bin_scorer.cpp; TParallelMiximizer, miximizers.cpp, adds the   *)
(* same bins).  Which bins the loops choose is module Evaluate's matter:   *)
(* here any bin may be chosen.                                             *)
(***************************************************************************)
EXTENDS EntropyCalculator, Sequences

CONSTANTS
  Bins,          \* contents of bins: functions from Examples to {0, 1}
  Labels,        \* labels: sequences of bins
  StepCounts     \* values of -t

ASSUME UseAssumption ==
  /\ Bins \subseteq [Examples -> {0, 1}]
  /\ \A l \in Labels : l # <<>> /\ \A i \in DOMAIN l : l[i] \in Bins
  /\ StepCounts \subseteq Nat \ {0}

VARIABLES
  label, evalBin, stepCount,
  pc,              \* "mutual", "maximize", "minimize", "done", "aborted"
  mi, cmi,         \* the calculators of the running phase
  helpers, worst   \* bins of the maximizing and of the minimizing steps

input == <<label, evalBin, stepCount>>
vars == <<input, pc, mi, cmi, helpers, worst>>

\* The number of bins added to the TCmiCalculator so far.
Added == cmi.firstSecondCondition.binCount

Init ==
  /\ label \in Labels
  /\ evalBin \in Bins
  /\ stepCount \in StepCounts
  /\ pc = "mutual"
  /\ mi = NewCalculator /\ cmi = NewCmi
  /\ helpers = <<>> /\ worst = <<>>

\* A bin is added to the four calculators, or a Y_VERIFY of AddBin ends the program.
Add(S, next) ==
  IF CanAddTo(cmi, S) THEN cmi' = next /\ pc' = pc ELSE cmi' = cmi /\ pc' = "aborted"

LabelMutual ==
  /\ pc = "mutual" /\ mi.binCount < Len(label)
  /\ IF CanAddBin(mi) THEN mi' = AddBin(mi, label[mi.binCount + 1]) /\ pc' = pc
                      ELSE mi' = mi /\ pc' = "aborted"
  /\ UNCHANGED <<input, cmi, helpers, worst>>

\* The first round is over, a later one calls Evaluate.
BeginEvaluate ==
  /\ pc = "mutual" /\ mi.binCount = Len(label)
  /\ pc' = "maximize"
  /\ UNCHANGED <<input, mi, cmi, helpers, worst>>

LabelCmi ==
  /\ pc \in {"maximize", "minimize"} /\ Added < Len(label)
  /\ Add(WithFirst, AddFirstVariableBin(cmi, label[Added + 1]))
  /\ UNCHANGED <<input, mi, helpers, worst>>

AddEvalBin ==
  /\ pc \in {"maximize", "minimize"} /\ Added = Len(label)
  /\ Add(WithSecond, AddSecondVariableBin(cmi, evalBin))
  /\ UNCHANGED <<input, mi, helpers, worst>>

MaximizeStep(b) ==
  /\ pc = "maximize" /\ Added > Len(label) /\ Len(helpers) < stepCount - 1
  /\ Add(WithCondition, AddConditionBin(cmi, b))
  /\ helpers' = Append(helpers, b)
  /\ UNCHANGED <<input, mi, worst>>

\* Mutant: the calculator of the maximizing phase is used again.
StartMinimizeWithOld ==
  /\ pc = "maximize" /\ Added > Len(label) /\ Len(helpers) = stepCount - 1
  /\ pc' = "minimize"
  /\ UNCHANGED <<input, mi, cmi, helpers, worst>>

StartMinimize ==
  /\ pc = "maximize" /\ Added > Len(label) /\ Len(helpers) = stepCount - 1
  /\ pc' = "minimize"
  /\ cmi' = NewCmi
  /\ UNCHANGED <<input, mi, helpers, worst>>

\* The condition grows by the bin, then the second variable by the helper of
\* the same step, if there is one.
MinimizeStep(b) ==
  LET next == AddConditionBin(cmi, b)
      k    == Len(worst) + 1
  IN  /\ pc = "minimize" /\ Added > Len(label) /\ k <= stepCount
      /\ IF k > Len(helpers) \/ ~CanAddTo(cmi, WithCondition)
         THEN Add(WithCondition, next)
         ELSE IF CanAddTo(next, WithSecond)
              THEN cmi' = AddSecondVariableBin(next, helpers[k]) /\ pc' = pc
              ELSE cmi' = next /\ pc' = "aborted"
      /\ worst' = Append(worst, b)
      /\ UNCHANGED <<input, mi, helpers>>

\* The score is GetValue.
Finish ==
  /\ pc = "minimize" /\ Len(worst) = stepCount
  /\ pc' = "done"
  /\ UNCHANGED <<input, mi, cmi, helpers, worst>>

Next ==
  \/ LabelMutual \/ BeginEvaluate \/ LabelCmi \/ AddEvalBin
  \/ \E b \in Bins : MaximizeStep(b) \/ MinimizeStep(b)
  \/ StartMinimize \/ Finish

Spec == Init /\ [][Next]_vars

-----------------------------------------------------------------------------
(***************************************************************************)
(* Properties                                                              *)
(***************************************************************************)

SetOf(s) == {s[i] : i \in DOMAIN s}

\* The entropy of a set of bins by its definition, on the same scale.
DefinedEntropy(S) ==
  LET agree(i) == {j \in Examples : \A b \in S : b[i] = b[j]}
      term(i)  == Log2[ExampleCount] - Log2[Cardinality(agree(i))]
  IN  MapThenSumSet(term, Examples)

DefinedCmi(F, S, C) ==
  DefinedEntropy(F \cup C) - DefinedEntropy(C) - DefinedEntropy(F \cup S \cup C)
    + DefinedEntropy(S \cup C)

\* The second variable and the condition, as the loops mean them.
Second ==
  {evalBin} \cup IF pc = "maximize" THEN {}
                 ELSE {helpers[k] : k \in {i \in DOMAIN helpers : i <= Len(worst)}}
Condition == SetOf(IF pc = "maximize" THEN helpers ELSE worst)

InLoop == pc \in {"maximize", "minimize", "done"} /\ Added > Len(label)

\* A range of all words, from an example without any bin to one with every bin,
\* has size 0, and TVectorCounter writes past its vector.
FullRange(lo, hi) == Word(hi - lo + 1) = 0
Counts(c) == ~FullRange(Smallest(c.values), Largest(c.values))
CountsWithExtraBin(c) == CanAddBin(c) /\ ~FullRange(2 * Smallest(c.values), 2 * Largest(c.values) + 1)

\* What bins are compared by is the information it is meant to be, whichever
\* of the two counters each entropy uses, up to the last bin that AddBin takes
\* and unless the words have the full range: in the first round the mutual
\* information of bin and label, in Evaluate the conditional mutual information
\* of the bins added so far and the candidate; and so is the score at the end.
InformationExact ==
  /\ pc = "mutual" /\ mi.binCount = Len(label) /\ Counts(mi) /\ CountsWithExtraBin(mi) =>
       \A b \in Bins :
         GetValueWithSecondVariableBin(mi, b) = DefinedCmi(SetOf(label), {b}, {})
  /\ InLoop /\ (\A k \in DOMAIN cmi : CountsWithExtraBin(cmi[k])) =>
       \A b \in Bins :
         GetValueWithConditionBin(cmi, b) = DefinedCmi(SetOf(label), Second, Condition \cup {b})
  /\ InLoop /\ (\A k \in DOMAIN cmi : Counts(cmi[k])) =>
       GetValue(cmi) = DefinedCmi(SetOf(label), Second, Condition)

\* Evaluate ends exactly if the label and twice the number of steps are at
\* most MAX_BIN_COUNT bins, and otherwise a Y_VERIFY ends the program.
AbortsIffTooManyBins ==
  /\ pc = "done" => Len(label) + 2 * stepCount <= MaxBinCount
  /\ pc = "aborted" => Len(label) + 2 * stepCount > MaxBinCount

\* README.md of -t: "The maximum possible value is currently 64", which is
\* MAX_BIN_COUNT.  Up to it no Y_VERIFY of AddBin ends the program.
StepCountsUpToMaximumWork == stepCount <= MaxBinCount => pc # "aborted"

=============================================================================
