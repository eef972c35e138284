---------------------------- MODULE SlowSelection ----------------------------
(***************************************************************************)
(* The selection without a cache: FeatureSelection                         *)
(* (cmicot/lib/selection.cpp) over GetBinScore (bin_score.cpp) and         *)
(* TParallelMiximizer (miximizers.cpp).  The program keeps it as the       *)
(* definition FastFeatureSelection is tested against.  The parallel        *)
(* evaluation of binValue writes nothing, so each phase is a function.     *)
(*                                                                         *)
(* A phase is the sequence of its steps; steps[k] are the first k of them. *)
(***************************************************************************)
EXTENDS Evaluate

\* The bins a sequence of steps has used.
BinsOf(steps) == {steps[i].bin : i \in DOMAIN steps}

\* DoMaximizePhase(bg, e) with maxSteps steps; D are the enabled bins of bg.
DoMaximizePhase(p, D, e, maxSteps) ==
  LET steps[k \in 0 .. maxSteps] ==
        IF k = 0 THEN <<>>
        ELSE LET before == BinsOf(steps[k - 1])
                 best   == CHOOSE b \in D : IsMaxElementBy(p, {e}, before, D \ before, b)
             IN  Append(steps[k - 1],
                        [bin |-> best, cmi |-> BinValue(p, {e}, before, best)])
  IN  steps[maxSteps]

\* DoMinimizePhase(bg, e, helpers) with minSteps steps.
DoMinimizePhase(p, D, e, helpers, minSteps) ==
  LET secondVariable(k) == {e} \cup {helpers[i].bin : i \in {j \in DOMAIN helpers : j < k}}
      steps[k \in 0 .. minSteps] ==
        IF k = 0 THEN <<>>
        ELSE LET before == BinsOf(steps[k - 1])
                 best   == CHOOSE b \in D :
                             IsMinElementBy(p, secondVariable(k), before, D \ before, b)
             IN  Append(steps[k - 1],
                        [bin |-> best, cmi |-> BinValue(p, secondVariable(k), before, best)])
  IN  steps[minSteps]

\* The TBinScore of two phases: the score is the value of the last step.
BinScore(helpers, worst) == [score |-> worst[Len(worst)].cmi, max |-> helpers, min |-> worst]

\* The second part of GetBinScore: the feature of the evaluated bin is disabled.
MinimizingScore(p, bg, e, helpers, stepCount) ==
  LET without == SetFeatureEnabled(FeatureSet, bg, GetFeatureIndexByBinIndex(FeatureSet, e), FALSE)
  IN  BinScore(helpers, DoMinimizePhase(p, without.enabled, e, helpers, stepCount))

\* GetBinScore: the evaluated bin is enabled for the first phase.
GetBinScore(p, bg, e, stepCount) ==
  LET withBin == SetBinEnabled(bg, e, TRUE)
  IN  MinimizingScore(p, withBin, e, DoMaximizePhase(p, withBin.enabled, e, stepCount - 1), stepCount)

\* MaxElementBy over bins in increasing order: the first with the largest value.
FirstMaxBin(values) ==
  CHOOSE b \in DOMAIN values :
    \A x \in DOMAIN values : values[x] < values[b] \/ (values[x] = values[b] /\ b <= x)

\* A feature is enabled and reported.
Report(bg, ranking, f) ==
  [bg |-> SetFeatureEnabled(FeatureSet, bg, f, TRUE), ranking |-> Append(ranking, f)]

\* The kernel for every bin that is not enabled.
Scores(p, bg, stepCount) ==
  [b \in DisabledBinIndexes(FeatureSet, bg) |-> GetBinScore(p, bg, b, stepCount).score]

\* One round of the loop.
Round(p, bg, ranking, evalStepCount) ==
  LET n == StepCountFor(EnabledBinIndexes(bg), evalStepCount)
  IN  Report(bg, ranking, GetFeatureIndexByBinIndex(FeatureSet, FirstMaxBin(Scores(p, bg, n))))

\* FeatureSelection: all features, in the order they are reported.
FeatureSelection(p, evalStepCount) ==
  LET information == [b \in Bins |-> Cmi(p, {b}, {})]
      state[k \in 1 .. GetFeatureCount(FeatureSet)] ==
        IF k = 1
        THEN Report(DisableAll(NewBackground(FeatureSet)), <<>>,
                    GetFeatureIndexByBinIndex(FeatureSet, FirstMaxBin(information)))
        ELSE Round(p, state[k - 1].bg, state[k - 1].ranking, evalStepCount)
  IN  state[GetFeatureCount(FeatureSet)].ranking

=============================================================================
