-------------------------- MODULE SelectionReference -------------------------
(***************************************************************************)
(* FastFeatureSelection beside the selection it is meant to speed up.      *)
(***************************************************************************)
EXTENDS Selection, SlowSelection

\* The test FastIsOK of cmicot/lib/selection_ut.cpp: the fast selection
\* reports the same features in the same order as the one without a cache.
FastEqualsSlow ==
  phase = "end" /\ FeatureCount >= GetFeatureCount(FeatureSet) =>
    ranking = FeatureSelection(pool, EvalStepCount)

\* Some step of the slow evaluation r of bin e has more than one best bin.
Contested(e, r) ==
  LET before(s, k) == {s[i].bin : i \in 1 .. (k - 1)}
  IN  \/ \E k \in DOMAIN r.max : \E b \in (enabled \cup {e}) \ before(r.max, k) :
           /\ b # r.max[k].bin
           /\ BinValue(pool, {e}, before(r.max, k), b) = r.max[k].cmi
      \/ \E k \in DOMAIN r.min : \E b \in enabled \ before(r.min, k) :
           /\ b # r.min[k].bin
           /\ BinValue(pool, {e} \cup before(r.max, k), before(r.min, k), b) = r.min[k].cmi

\* The slot holds the steps and the score of r, whose steps are numbered from 1.
Holds(slot, r) ==
  /\ slot.score = r.score
  /\ \A k \in DOMAIN r.max : slot.max[k - 1] = r.max[k]
  /\ \A k \in DOMAIN r.min : slot.min[k - 1] = r.min[k]

HoldsUnlessContested(e, slot, r) == Contested(e, r) \/ Holds(slot, r)

\* The steps and the score of bin e, when the values are collected.
ScoreEqualsSlow(e) ==
  phase = "pick" /\ e \notin enabled /\ Cardinality(FeatureBins(ranking[1])) >= EvalStepCount =>
    HoldsUnlessContested(e, slots[e],
      GetBinScore(pool, Background, e, StepCountFor(enabled, EvalStepCount)))

\* The test ResultDoesntDifferFromEvalScorer of
\* cmicot/lib/caching_bin_scorer_ut.cpp, which keeps the number of steps
\* fixed: as long as the number of steps has not grown since the first round,
\* the threads leave in every slot the steps and the score that the scorer
\* without a cache computes from scratch, unless several bins are equally
\* good.
ScoresEqualSlow == \A e \in Bins : ScoreEqualsSlow(e)

=============================================================================
