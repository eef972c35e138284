---------------------------- MODULE FeatureScore ------------------------------
(***************************************************************************)
(* The scores of whole features (cmicot/lib/feature_score.cpp) beside the  *)
(* selection, which scores bins.                                           *)
(***************************************************************************)
EXTENDS SelectionReference

\* GetFeatureScore with the scorer of FeatureSelection and no normalization:
\* the largest score of a bin of the feature.
GetFeatureScore(p, background, f, stepCount) ==
  LET scores == {GetBinScore(p, background, b, stepCount).score : b \in FeatureBins(f)}
  IN  CHOOSE s \in scores : \A x \in scores : x <= s

\* The kernel of GetCmimScore.
CmimKernel(p, f, index) == Cmi(p, FeatureBins(f), FeatureBins(index))

\* Mutant: positions are counted from 1.
FirstMinimumFromOne(values) ==
  CHOOSE i \in DOMAIN values :
    \A j \in DOMAIN values : values[i] < values[j] \/ (values[i] = values[j] /\ i <= j)

\* ParallelMinElementBy: the first position, from 0, of the smallest value.
FirstMinimum(values) ==
  (CHOOSE i \in DOMAIN values :
     \A j \in DOMAIN values : values[i] < values[j] \/ (values[i] = values[j] /\ i <= j)) - 1

\* GetCmimScore: the position in the range of the enabled features is used as
\* the index of a feature.
GetCmimScore(p, background, f) ==
  LET without     == SetFeatureEnabled(FeatureSet, background, f, FALSE)
      searchRange == Ascending(EnabledFeatureIndexes(FeatureSet, without))
      best        == FirstMinimum([i \in DOMAIN searchRange |-> CmimKernel(p, f, searchRange[i])])
  IN  IF searchRange = <<>> THEN [score |-> 0, minimizingFeatureIndex |-> 0]
      ELSE [score |-> CmimKernel(p, f, best), minimizingFeatureIndex |-> best]

-----------------------------------------------------------------------------
(***************************************************************************)
(* Properties                                                              *)
(***************************************************************************)

\* The feature FastFeatureSelection reports, chosen by its best bin, has the
\* largest GetFeatureScore of all that are left, as long as the number of
\* steps has not grown and no bin has two equally good steps.
BestFeatureReported ==
  [][phase = "pick" /\ phase' = "round" /\ Cardinality(FeatureBins(ranking[1])) >= EvalStepCount =>
       LET n     == StepCountFor(enabled, EvalStepCount)
           score == [f \in {g \in AllFeatureIndexes(FeatureSet) : ~IsFeatureEnabled(FeatureSet, Background, g)} |->
                       GetFeatureScore(pool, Background, f, n)]
       IN  \/ \E e \in Bins \ enabled : Contested(e, GetBinScore(pool, Background, e, n))
           \/ \A f \in DOMAIN score : score[f] <= score[ranking'[Len(ranking')]]]_vars

\* GetCmimScore is the least information of the feature given any one enabled
\* feature if features 0, 1, ... are the ones enabled: positions in the list
\* of enabled features are then their indexes.
CmimOfFirstFeatures ==
  phase = "pick" =>
    \A f \in AllFeatureIndexes(FeatureSet) :
      LET others == EnabledFeatureIndexes(FeatureSet, Background)
          cmim   == GetCmimScore(pool, Background, f)
      IN  f \notin others /\ others = 0 .. (Cardinality(others) - 1) =>
            /\ cmim.minimizingFeatureIndex \in others
            /\ cmim.score = CmimKernel(pool, f, cmim.minimizingFeatureIndex)
            /\ \A g \in others : cmim.score <= CmimKernel(pool, f, g)

=============================================================================
