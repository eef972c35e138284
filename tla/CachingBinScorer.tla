-------------------------- MODULE CachingBinScorer ---------------------------
(***************************************************************************)
(* One slot of the cache of TCachingBinScorer over its whole life: the     *)
(* selection evaluates a bin that is not enabled yet, enables the bins of  *)
(* one more feature, evaluates the bin again, and so on.  Every iteration  *)
(* of the two loops of Evaluate is a step.                                 *)
(*                                                                         *)
(* The order of the calls is that of FastFeatureSelection                  *)
(* (cmicot/lib/selection.cpp): the bin is evaluated once for every         *)
(* background, with Min(number of enabled bins, EvalStepCount) steps.      *)
(* Which feature is enabled next is left open.                             *)
(***************************************************************************)
EXTENDS Evaluate

CONSTANT EvalStepCount      \* option -t

ASSUME EvalStepCountAssumption == EvalStepCount \in Nat \ {0}

VARIABLES
  pool, evalBin,      \* the input and the bin the slot belongs to: never changed
  enabled, last,      \* the background of the selection
  maxSteps, minSteps, score,        \* Cache[evalBin]
  pc,                 \* where the call is: "idle", "max", "min" or "done"
  stepCount, step,                  \* argument and loop index of the call
  background, toProcess,            \* its copies of the background
  second, condition,                \* what its TCmiCalculator holds
  initialSteps        \* history: stepCount of the first call, 0 before it

input == <<pool, evalBin>>
selection == <<enabled, last>>
slot == <<maxSteps, minSteps, score>>
locals == <<stepCount, step, background, toProcess, second, condition>>
vars == <<input, selection, slot, pc, locals, initialSteps>>

Background == [enabled |-> enabled, last |-> last]

FeatureBins(f) == GetFeatureBinIndexes(FeatureSet, f)

-----------------------------------------------------------------------------
\* The first feature has been enabled in an empty background.
Init ==
  /\ pool \in Pools
  /\ evalBin \in Bins
  /\ \E f \in AllFeatureIndexes(FeatureSet) :
       /\ FeatureBins(f) # {}
       /\ evalBin \notin FeatureBins(f)
       /\ LET bg == SetFeatureEnabled(FeatureSet, DisableAll(NewBackground(FeatureSet)), f, TRUE)
          IN  enabled = bg.enabled /\ last = bg.last
  /\ maxSteps = EmptyVector /\ minSteps = EmptyVector /\ score = 0
  /\ pc = "idle"
  /\ stepCount = 0 /\ step = 0
  /\ background = {} /\ toProcess = {} /\ second = {} /\ condition = {}
  /\ initialSteps = 0

\* binsToProcess is taken before the evaluated bin is enabled.
Begin ==
  LET bg == SetBinEnabled(Background, evalBin, TRUE)
      n  == StepCountFor(enabled, EvalStepCount)
  IN  /\ pc = "idle"
      /\ ~NotEnoughBins(bg.enabled, n)
      /\ pc' = "max"
      /\ stepCount' = n /\ step' = 0
      /\ background' = bg.enabled
      /\ toProcess' = LastEnabled(Background).enabled
      /\ second' = {evalBin} /\ condition' = {}
      /\ maxSteps' = Resize(maxSteps, n - 1, UnsetMax)
      /\ minSteps' = Resize(minSteps, n, UnsetMin)
      /\ initialSteps' = IF initialSteps = 0 THEN n ELSE initialSteps
      /\ UNCHANGED <<input, selection, score>>

MaxStep(b) ==
  LET c == BinValue(pool, second, condition, b)
  IN  /\ pc = "max"
      /\ step < stepCount - 1
      /\ IsMaxElementBy(pool, second, condition, MaxCandidates(toProcess, maxSteps, step), b)
      /\ maxSteps' = MaxStepMax(maxSteps, step, b, c)
      /\ minSteps' = MaxStepMin(maxSteps, minSteps, step, c)
      /\ toProcess' = MaxStepToProcess(maxSteps, step, c, toProcess, background)
      /\ condition' = condition \cup {maxSteps'[step].bin}
      /\ step' = step + 1
      /\ UNCHANGED <<input, selection, score, pc, stepCount, background, second, initialSteps>>

\* Between the loops the evaluated bin is disabled and a new calculator made.
StartMin ==
  /\ pc = "max"
  /\ step = stepCount - 1
  /\ pc' = "min"
  /\ step' = 0
  /\ background' = background \ {evalBin}
  /\ toProcess' = toProcess \ {evalBin}
  /\ second' = {evalBin} /\ condition' = {}
  /\ UNCHANGED <<input, selection, slot, stepCount, initialSteps>>

MinStep(b) ==
  LET c == BinValue(pool, second, condition, b)
  IN  /\ pc = "min"
      /\ step < stepCount
      /\ IsMinElementBy(pool, second, condition, toProcess, b)
      /\ minSteps' = MinStepMin(minSteps, step, b, c)
      /\ toProcess' = MinStepToProcess(minSteps, step, c, toProcess, background, minSteps'[step].bin)
      /\ background' = background \ {minSteps'[step].bin}
      /\ condition' = condition \cup {minSteps'[step].bin}
      /\ second' = MinStepSecond(maxSteps, step, second)
      /\ step' = step + 1
      /\ UNCHANGED <<input, selection, maxSteps, score, pc, stepCount, initialSteps>>

\* The score is the value of the calculator as it now stands.
Finish ==
  /\ pc = "min"
  /\ step = stepCount
  /\ score' = Cmi(pool, second, condition)
  /\ pc' = "done"
  /\ UNCHANGED <<input, selection, maxSteps, minSteps, locals, initialSteps>>

\* The selection ends the round by enabling the feature of the best bin, which
\* was not enabled and is not the evaluated one.
EnableFeature(f) ==
  LET bg == SetFeatureEnabled(FeatureSet, Background, f, TRUE)
  IN  /\ pc = "done"
      /\ FeatureBins(f) # {}
      /\ FeatureBins(f) \cap enabled = {}
      /\ evalBin \notin FeatureBins(f)
      /\ enabled' = bg.enabled /\ last' = bg.last
      /\ pc' = "idle"
      /\ UNCHANGED <<input, slot, locals, initialSteps>>

Evaluation ==
  \/ Begin
  \/ \E b \in Bins : MaxStep(b)
  \/ StartMin
  \/ \E b \in Bins : MinStep(b)
  \/ Finish

Next == Evaluation \/ \E f \in AllFeatureIndexes(FeatureSet) : EnableFeature(f)

Spec == Init /\ [][Next]_vars

-----------------------------------------------------------------------------
(***************************************************************************)
(* Properties                                                              *)
(***************************************************************************)

\* The type of the state: the vectors of the slot have the lengths the last
\* call gave them.
TypeOK ==
  /\ pool \in Pools /\ evalBin \in Bins
  /\ enabled \in SUBSET Bins /\ last \in SUBSET Bins
  /\ pc \in {"idle", "max", "min", "done"}
  /\ stepCount \in 0 .. EvalStepCount /\ initialSteps \in 0 .. EvalStepCount
  /\ step \in 0 .. EvalStepCount
  /\ background \in SUBSET Bins /\ toProcess \in SUBSET Bins
  /\ second \in SUBSET Bins /\ condition \in SUBSET Bins
  /\ maxSteps \in [0 .. (stepCount - 2) -> StepResults]
  /\ minSteps \in [0 .. (stepCount - 1) -> StepResults]
  /\ score \in Nat

\* No check of Evaluate can fail: there are always enough enabled bins (lines
\* 22-24 do not throw), and both loops always find a candidate (the Y_VERIFY
\* of lines 67 and 110 hold), even while only the bins enabled last are
\* looked at and the cached helpers are taken out of them.
ChecksHold ==
  /\ pc = "idle" => ~NotEnoughBins(enabled \cup {evalBin}, StepCountFor(enabled, EvalStepCount))
  /\ pc = "max" /\ step < stepCount - 1 => MaxCandidates(toProcess, maxSteps, step) # {}
  /\ pc = "min" /\ step < stepCount => toProcess # {}

\* "One bin must not be used twice as a helper" (comment at lines 48-52), and
\* no bin is taken by two minimizing steps, whatever mixture of cached and
\* new steps the slot holds.
HelpersDistinct ==
  /\ \A i, j \in DOMAIN maxSteps :
       i # j /\ maxSteps[i].bin # -1 => maxSteps[i].bin # maxSteps[j].bin
  /\ \A i, j \in DOMAIN minSteps :
       i # j /\ minSteps[i].bin # -1 => minSteps[i].bin # minSteps[j].bin

\* The value of bin b in maximizing (minimizing) step k of the evaluation of
\* bin e, computed from scratch.
MaxValue(p, e, mx, k, b) == Cmi(p, {e}, BinsBefore(mx, k) \cup {b})
MinValue(p, e, mx, mn, k, b) ==
  Cmi(p, {e} \cup BinsBefore(mx, k), BinsBefore(mn, k) \cup {b})

\* When Evaluate returns, no cached value is stale: every step holds a bin
\* and the value that bin has after the steps before it, and the score is
\* the value of the last minimizing step, as it is for a scorer without a
\* cache (GetBinScore, bin_score.cpp line 48).
CacheCurrent ==
  pc = "done" =>
    /\ \A k \in DOMAIN maxSteps :
         /\ maxSteps[k].bin \in enabled \cup {evalBin}
         /\ maxSteps[k].cmi = MaxValue(pool, evalBin, maxSteps, k, maxSteps[k].bin)
    /\ \A k \in DOMAIN minSteps :
         /\ minSteps[k].bin \in enabled
         /\ minSteps[k].cmi = MinValue(pool, evalBin, maxSteps, minSteps, k, minSteps[k].bin)
    /\ score = minSteps[stepCount - 1].cmi

\* Step k is a best one among the bins D (and, for the helpers, the evaluated
\* bin itself) that the steps before it have left: what a scorer without a
\* cache, started with the background D, looks at.
MaxGreedy(p, e, D, mx, k) ==
  \A b \in (D \cup {e}) \ BinsBefore(mx, k) : MaxValue(p, e, mx, k, b) <= mx[k].cmi
MinGreedy(p, e, D, mx, mn, k) ==
  \A b \in D \ BinsBefore(mn, k) : MinValue(p, e, mx, mn, k, b) >= mn[k].cmi

SlotIsGreedy ==
  /\ \A k \in DOMAIN maxSteps : MaxGreedy(pool, evalBin, enabled, maxSteps, k)
  /\ \A k \in DOMAIN minSteps : MinGreedy(pool, evalBin, enabled, maxSteps, minSteps, k)

\* Looking only at the bins enabled last loses nothing: if the number of
\* steps is still that of the first call, every step Evaluate returns is a
\* best one among ALL enabled bins, so the slot is a result the scorer
\* without a cache could have returned.
GreedyUnlessGrown == pc = "done" /\ stepCount = initialSteps => SlotIsGreedy

=============================================================================
