------------------------------ MODULE Evaluate -------------------------------
(***************************************************************************)
(* The pieces TCachingBinScorer::Evaluate                                  *)
(* (cmicot/lib/caching_bin_scorer.cpp) is made of, as operators on         *)
(*                                                                         *)
(*   mx, mn     MaximizingSteps and MinimizingSteps of Cache[evalBinIndex] *)
(*              (functions on 0..n-1), which survive from call to call;    *)
(*   background, toProcess                                                 *)
(*              the enabled bins of the local copy of the background and   *)
(*              of binsToProcess;                                          *)
(*   second, condition                                                     *)
(*              the bins added to the TCmiCalculator of the running loop.  *)
(*                                                                         *)
(* Cmi(p, S, C) is what a TCmiCalculator returns when its first variable   *)
(* is the label of pool p, its second variable the bins S and its          *)
(* condition the bins C: the conditional mutual information, as an         *)
(* integer on a scale of its own.  A bin added twice changes no entropy,   *)
(* so S and C are sets.  The score is kept unnormalised: dividing by the   *)
(* (constant, positive) entropy of the label changes no comparison.        *)
(***************************************************************************)
EXTENDS BinFeatureSet

CONSTANTS
  FeatureSet,    \* the TBinFeatureSet the pool is cut into
  Pools,         \* the pools (contents of the bins, label)
  Cmi(_, _, _)

Bins == AllBinIndexes(FeatureSet)

\* The feature set was built by AddFeature from an empty one and has a bin.
ASSUME FeatureSetAssumption ==
  /\ FeatureSet.binCount \in Nat \ {0}
  /\ FeatureSet.start \in Seq(0 .. FeatureSet.binCount)
  /\ FeatureSet.start # <<>> /\ FeatureSet.start[1] = 0
  /\ \A i, j \in DOMAIN FeatureSet.start : i <= j => FeatureSet.start[i] <= FeatureSet.start[j]

\* What MinimizingSteps is reset to: more than any value of a bin.
ResetValue == 100000

\* The two facts about conditional mutual information that the code relies
\* on: it lies strictly between the sentinels -1.0 and 100000.0, and a bin
\* says nothing about the label once it is part of the condition.
ASSUME CmiAssumption ==
  \A p \in Pools : \A S, C \in SUBSET Bins :
    /\ Cmi(p, S, C) \in Nat
    /\ Cmi(p, S, C) < ResetValue
    /\ \A e \in C : Cmi(p, {e}, C) = 0

-----------------------------------------------------------------------------
\* TStepResult and the three sentinels of the code.

UnsetMax == [bin |-> -1, cmi |-> -1]
UnsetMin == [bin |-> -1, cmi |-> 1000000]
ResetMin == [bin |-> -1, cmi |-> ResetValue]

StepResults == [bin : Bins \cup {-1}, cmi : Int]

\* The vectors of a slot of the cache that was never used.
EmptyVector == [i \in {} |-> UnsetMax]

\* Mutant: one element too many.
ResizeTooLong(v, n, x) == [i \in 0 .. n |-> IF i \in DOMAIN v THEN v[i] ELSE x]

\* vector::resize(n, x)
Resize(v, n, x) == [i \in 0 .. (n - 1) |-> IF i \in DOMAIN v THEN v[i] ELSE x]

\* v[k] = x, then Fill(v.begin() + k + 1, v.end(), y)
StoreAndReset(v, k, x, y) ==
  [i \in DOMAIN v |-> IF i < k THEN v[i] ELSE IF i = k THEN x ELSE y]

\* Fill(v.begin() + k + 1, v.end(), y)
ResetAfter(v, k, y) == [i \in DOMAIN v |-> IF i <= k THEN v[i] ELSE y]

\* The bins of the first k steps.
BinsBefore(v, k) == {v[i].bin : i \in {j \in DOMAIN v : j < k}}

-----------------------------------------------------------------------------
\* The call: prologue

\* The number of steps the kernel of the selection asks for.
StepCountFor(enabled, evalStepCount) ==
  IF Cardinality(enabled) < evalStepCount THEN Cardinality(enabled) ELSE evalStepCount

\* Mutant: as many bins as are needed are not enough.
NotEnoughBinsTooStrict(background, stepCount) == Cardinality(background) <= stepCount + 1

\* The check that throws "Not enough enabled bins".
NotEnoughBins(background, stepCount) == Cardinality(background) < stepCount + 1

-----------------------------------------------------------------------------
\* binValue, and the first extreme element by it

BinValue(p, second, condition, b) == Cmi(p, second, condition \cup {b})

IsMaxElementBy(p, second, condition, S, b) ==
  /\ b \in S
  /\ \A x \in S :
       \/ BinValue(p, second, condition, x) < BinValue(p, second, condition, b)
       \/ BinValue(p, second, condition, x) = BinValue(p, second, condition, b) /\ b <= x

IsMinElementBy(p, second, condition, S, b) ==
  /\ b \in S
  /\ \A x \in S :
       \/ BinValue(p, second, condition, x) > BinValue(p, second, condition, b)
       \/ BinValue(p, second, condition, x) = BinValue(p, second, condition, b) /\ b <= x

-----------------------------------------------------------------------------
\* One iteration (step k) of the maximizing loop that found bin b with value c.

\* Mutant: the helpers of the earlier steps stay candidates.
MaxCandidatesWithHelpers(toProcess, mx, k) == toProcess

\* The helpers of the earlier steps are taken out of the candidates.
MaxCandidates(toProcess, mx, k) == toProcess \ BinsBefore(mx, k)

MaxImproves(mx, k, c) == c > mx[k].cmi

MaxStepMax(mx, k, b, c) ==
  IF MaxImproves(mx, k, c) THEN StoreAndReset(mx, k, [bin |-> b, cmi |-> c], UnsetMax) ELSE mx

\* Mutant: the minimizing steps are not reset.
MaxStepMinKept(mx, mn, k, c) == mn

\* The minimizing steps after k depend on the helper that changed.
MaxStepMin(mx, mn, k, c) == IF MaxImproves(mx, k, c) THEN ResetAfter(mn, k, ResetMin) ELSE mn

\* Mutant: after a change only the bins enabled last are looked at.
MaxStepToProcessKept(mx, k, c, toProcess, background) == toProcess

\* After a change every enabled bin is looked at again.
MaxStepToProcess(mx, k, c, toProcess, background) ==
  IF MaxImproves(mx, k, c) THEN background ELSE toProcess

-----------------------------------------------------------------------------
\* One iteration (step k) of the minimizing loop that found bin b with value c.

MinImproves(mn, k, c) == c < mn[k].cmi

MinStepMin(mn, k, b, c) ==
  IF MinImproves(mn, k, c) THEN StoreAndReset(mn, k, [bin |-> b, cmi |-> c], ResetMin) ELSE mn

\* Mutant: after a change only the bins enabled last are looked at.
MinStepToProcessKept(mn, k, c, toProcess, background, chosen) == toProcess \ {chosen}

\* The bin of the step, new or cached, leaves both backgrounds.
MinStepToProcess(mn, k, c, toProcess, background, chosen) ==
  (IF MinImproves(mn, k, c) THEN background ELSE toProcess) \ {chosen}

\* The helper of the same step, if there is one, joins the second variable.
MinStepSecond(mx, k, second) ==
  second \cup (IF k \in DOMAIN mx THEN {mx[k].bin} ELSE {})

=============================================================================
