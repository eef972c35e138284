----------------------- MODULE CachingBinScorer_proofs -----------------------
(***************************************************************************)
(* The cache of TCachingBinScorer is sound for every feature set, every    *)
(* number of steps and every information measure that meets the            *)
(* assumptions of module Evaluate.                                         *)
(***************************************************************************)
EXTENDS CachingBinScorer, FiniteSetTheorems, TLAPS

(***************************************************************************)
(* The inductive invariant.  Old is the background of the previous call.   *)
(***************************************************************************)
Old == enabled \ last

\* A vector of maximizing steps: the unset steps are at the end, the others
\* hold distinct bins of D (or the evaluated bin) with their values.
MaxStepOK(p, e, D, mx, k) ==
  \/ mx[k] = UnsetMax
  \/ /\ mx[k].bin \in D \cup {e}
     /\ mx[k].bin \notin BinsBefore(mx, k)
     /\ mx[k].cmi = MaxValue(p, e, mx, k, mx[k].bin)
     /\ \A j \in DOMAIN mx : j < k => mx[j].bin # -1

MaxOK(p, e, D, mx) == \A k \in DOMAIN mx : MaxStepOK(p, e, D, mx, k)

\* The same for minimizing steps; the helpers their values depend on are set.
MinStepOK(p, e, D, mx, mn, k) ==
  \/ mn[k] \in {UnsetMin, ResetMin}
  \/ /\ mn[k].bin \in D
     /\ mn[k].bin \notin BinsBefore(mn, k)
     /\ mn[k].cmi = MinValue(p, e, mx, mn, k, mn[k].bin)
     /\ \A j \in DOMAIN mn : j < k => mn[j].bin # -1

MinOK(p, e, D, mx, mn) == \A k \in DOMAIN mn : MinStepOK(p, e, D, mx, mn, k)

\* The first k steps of a vector are set.
SetBelow(v, k) == \A j \in DOMAIN v : j < k => v[j].bin # -1
AllSet(v) == \A j \in DOMAIN v : v[j].bin # -1

AllMaxGreedy(p, e, D, mx) == \A k \in DOMAIN mx : MaxGreedy(p, e, D, mx, k)
AllMinGreedy(p, e, D, mx, mn) == \A k \in DOMAIN mn : MinGreedy(p, e, D, mx, mn, k)

Grown == stepCount # initialSteps

\* The selection around the calls.
OuterInv ==
  /\ pool \in Pools /\ evalBin \in Bins
  /\ enabled \in SUBSET Bins /\ last \in SUBSET enabled /\ last # {}
  /\ evalBin \notin enabled
  /\ pc \in {"idle", "max", "min", "done"}
  /\ score \in Nat

\* The numbers of steps, and the lengths of the two vectors.
CountInv ==
  /\ stepCount \in 0 .. StepCountFor(enabled, EvalStepCount)
  /\ initialSteps \in 0 .. stepCount
  /\ initialSteps = 0 => pc = "idle" /\ stepCount = 0 /\ enabled = last
  /\ pc # "idle" => stepCount > 0
  /\ step \in 0 .. stepCount
  /\ maxSteps \in [0 .. (stepCount - 2) -> StepResults]
  /\ minSteps \in [0 .. (stepCount - 1) -> StepResults]

\* What the copies of the background and the calculator hold.
LocalsInv ==
  /\ background \in SUBSET Bins /\ toProcess \in SUBSET Bins
  /\ second \in SUBSET Bins /\ condition \in SUBSET Bins
  /\ pc = "max" => /\ step < stepCount
                   /\ background = enabled \cup {evalBin}
                   /\ second = {evalBin}
                   /\ condition = BinsBefore(maxSteps, step)
                   /\ toProcess \in {last, background}
  /\ pc = "min" => /\ background = enabled \ BinsBefore(minSteps, step)
                   /\ second = {evalBin} \cup BinsBefore(maxSteps, step)
                   /\ condition = BinsBefore(minSteps, step)
                   /\ toProcess \in {last, background}

\* What the cached steps hold.  Until a step has improved, toProcess is last
\* and the slot is that of the previous call; after that, all bins are looked
\* at and the later steps start afresh.
SlotInv ==
  /\ pc = "idle" => /\ AllSet(maxSteps) /\ AllSet(minSteps)
                    /\ MaxOK(pool, evalBin, Old, maxSteps)
                    /\ MinOK(pool, evalBin, Old, maxSteps, minSteps)
  /\ pc = "max" => /\ SetBelow(maxSteps, step)
                   /\ MaxOK(pool, evalBin, enabled, maxSteps)
                   /\ MinOK(pool, evalBin, Old, maxSteps, minSteps)
                   /\ \/ toProcess = last /\ MaxOK(pool, evalBin, Old, maxSteps)
                      \/ /\ toProcess = background
                         /\ \A k \in DOMAIN maxSteps : k >= step => maxSteps[k] = UnsetMax
  /\ pc = "min" => /\ AllSet(maxSteps) /\ SetBelow(minSteps, step)
                   /\ MaxOK(pool, evalBin, enabled, maxSteps)
                   /\ MinOK(pool, evalBin, enabled, maxSteps, minSteps)
                   /\ \/ toProcess = background
                      \/ MinOK(pool, evalBin, Old, maxSteps, minSteps)
  /\ pc = "done" => /\ AllSet(maxSteps) /\ AllSet(minSteps)
                    /\ MaxOK(pool, evalBin, enabled, maxSteps)
                    /\ MinOK(pool, evalBin, enabled, maxSteps, minSteps)
                    /\ score = minSteps[stepCount - 1].cmi

\* Which steps are best ones while the number of steps has not grown.
GreedyInv ==
  ~Grown =>
    /\ pc = "idle" => /\ AllMaxGreedy(pool, evalBin, Old, maxSteps)
                      /\ AllMinGreedy(pool, evalBin, Old, maxSteps, minSteps)
    /\ pc = "max" => /\ \A k \in DOMAIN maxSteps :
                          k < step => MaxGreedy(pool, evalBin, enabled, maxSteps, k)
                     /\ \/ toProcess = background
                        \/ /\ enabled = last /\ step = 0
                           /\ \A k \in DOMAIN maxSteps : maxSteps[k] = UnsetMax
                        \/ /\ AllSet(maxSteps) /\ AllSet(minSteps)
                           /\ AllMaxGreedy(pool, evalBin, Old, maxSteps)
                           /\ AllMinGreedy(pool, evalBin, Old, maxSteps, minSteps)
    /\ pc = "min" => /\ AllMaxGreedy(pool, evalBin, enabled, maxSteps)
                     /\ \A k \in DOMAIN minSteps :
                          k < step => MinGreedy(pool, evalBin, enabled, maxSteps, minSteps, k)
                     /\ \/ toProcess = background
                        \/ AllMinGreedy(pool, evalBin, Old, maxSteps, minSteps)
    /\ pc = "done" => SlotIsGreedy

IInv == OuterInv /\ CountInv /\ LocalsInv /\ SlotInv /\ GreedyInv

-----------------------------------------------------------------------------
(***************************************************************************)
(* Vectors.  Agree: the two have the same first k elements.                *)
(***************************************************************************)
Agree(v, w, k) ==
  /\ {j \in DOMAIN v : j < k} = {j \in DOMAIN w : j < k}
  /\ \A j \in DOMAIN v : j < k => v[j] = w[j]

\* Steps that agree have used the same bins.
LEMMA AgreeBins ==
  ASSUME NEW v, NEW w, NEW k, Agree(v, w, k)
  PROVE  BinsBefore(v, k) = BinsBefore(w, k)
  BY DEF Agree, BinsBefore

\* A maximizing step depends only on the vector up to it.
LEMMA MaxTransfer ==
  ASSUME NEW p, NEW e, NEW D, NEW mx, NEW mw, NEW k,
         Agree(mx, mw, k), mx[k] = mw[k]
  PROVE  /\ MaxStepOK(p, e, D, mx, k) => MaxStepOK(p, e, D, mw, k)
         /\ MaxGreedy(p, e, D, mx, k) => MaxGreedy(p, e, D, mw, k)
  <1>1. BinsBefore(mx, k) = BinsBefore(mw, k)
    BY AgreeBins
  <1>2. \A j \in DOMAIN mw : j < k => j \in DOMAIN mx /\ mx[j] = mw[j]
    BY DEF Agree
  <1>3. MaxStepOK(p, e, D, mx, k) => MaxStepOK(p, e, D, mw, k)
    BY <1>1, <1>2 DEF MaxStepOK, MaxValue
  <1>4. MaxGreedy(p, e, D, mx, k) => MaxGreedy(p, e, D, mw, k)
    BY <1>1 DEF MaxGreedy, MaxValue
  <1> QED BY <1>3, <1>4

\* A minimizing step depends only on the helpers before it and on the
\* minimizing steps up to it.
LEMMA MinTransfer ==
  ASSUME NEW p, NEW e, NEW D, NEW mx, NEW mw, NEW mn, NEW nw, NEW k,
         Agree(mx, mw, k), Agree(mn, nw, k), mn[k] = nw[k]
  PROVE  /\ MinStepOK(p, e, D, mx, mn, k) => MinStepOK(p, e, D, mw, nw, k)
         /\ MinGreedy(p, e, D, mx, mn, k) => MinGreedy(p, e, D, mw, nw, k)
  <1>1. BinsBefore(mx, k) = BinsBefore(mw, k) /\ BinsBefore(mn, k) = BinsBefore(nw, k)
    BY AgreeBins
  <1>2. /\ \A j \in DOMAIN mw : j < k => j \in DOMAIN mx /\ mx[j] = mw[j]
        /\ \A j \in DOMAIN nw : j < k => j \in DOMAIN mn /\ mn[j] = nw[j]
    BY DEF Agree
  <1>3. MinStepOK(p, e, D, mx, mn, k) => MinStepOK(p, e, D, mw, nw, k)
    BY <1>1, <1>2 DEF MinStepOK, MinValue
  <1>4. MinGreedy(p, e, D, mx, mn, k) => MinGreedy(p, e, D, mw, nw, k)
    BY <1>1 DEF MinGreedy, MinValue
  <1> QED BY <1>3, <1>4

\* The bins of k + 1 steps are those of k steps and that of step k.
LEMMA BinsBeforeNext ==
  ASSUME NEW v, NEW n \in Int, DOMAIN v = 0 .. n, NEW k \in DOMAIN v
  PROVE  BinsBefore(v, k + 1) = BinsBefore(v, k) \cup {v[k].bin}
  <1>1. {j \in DOMAIN v : j < k + 1} = {j \in DOMAIN v : j < k} \cup {k}
    OBVIOUS
  <1> QED BY <1>1 DEF BinsBefore

\* k steps use at most k bins.
LEMMA BinsBeforeCardinality ==
  ASSUME NEW v, NEW n \in Int, DOMAIN v = 0 .. n, NEW k \in Nat
  PROVE  /\ IsFiniteSet(BinsBefore(v, k))
         /\ Cardinality(BinsBefore(v, k)) <= k
  <1> DEFINE I == {j \in DOMAIN v : j < k}
             f == [i \in I |-> v[i].bin]
  <1>1. I \in SUBSET (0 .. (k - 1))
    OBVIOUS
  <1>2. IsFiniteSet(0 .. (k - 1)) /\ Cardinality(0 .. (k - 1)) = k
    BY FS_Interval
  <1>3. IsFiniteSet(I) /\ Cardinality(I) <= k
    BY <1>1, <1>2, FS_Subset
  <1>4. f \in Surjection(I, BinsBefore(v, k))
    BY DEF Surjection, BinsBefore
  <1>5. /\ IsFiniteSet(BinsBefore(v, k))
        /\ Cardinality(BinsBefore(v, k)) <= Cardinality(I)
    BY <1>3, <1>4, FS_Surjection
  <1> QED BY <1>3, <1>5, FS_CardinalityType

\* The sentinels are step results without a bin.
LEMMA Sentinels ==
  /\ UnsetMax \in StepResults /\ UnsetMin \in StepResults /\ ResetMin \in StepResults
  /\ UnsetMax.bin = -1 /\ UnsetMin.bin = -1 /\ ResetMin.bin = -1
  /\ UnsetMax.cmi = -1 /\ UnsetMin.cmi >= ResetValue /\ ResetMin.cmi = ResetValue
  /\ ResetValue \in Int
  BY DEF UnsetMax, UnsetMin, ResetMin, ResetValue, StepResults

-----------------------------------------------------------------------------
(***************************************************************************)
(* The information measure, and backgrounds.                               *)
(***************************************************************************)
\* CmiAssumption, for one value.
LEMMA CmiBounds ==
  ASSUME NEW p \in Pools, NEW S \in SUBSET Bins, NEW C \in SUBSET Bins
  PROVE  /\ Cmi(p, S, C) \in Nat
         /\ Cmi(p, S, C) < ResetValue
         /\ \A e \in C : Cmi(p, {e}, C) = 0
  BY Zenon, CmiAssumption

\* A set of bins is finite.
LEMMA BinsFinite ==
  ASSUME NEW S \in SUBSET Bins
  PROVE  IsFiniteSet(S) /\ Cardinality(S) \in Nat
  <1>1. IsFiniteSet(Bins)
    <2>1. FeatureSet.binCount \in Nat /\ FeatureSet.binCount - 1 \in Int
      BY FeatureSetAssumption
    <2> QED BY <2>1, FS_Interval DEF Bins, AllBinIndexes
  <1> QED BY <1>1, FS_Subset, FS_CardinalityType

\* The bins of a feature are bins.
LEMMA FeatureInBins ==
  ASSUME NEW f \in AllFeatureIndexes(FeatureSet)
  PROVE  GetFeatureBinIndexes(FeatureSet, f) \subseteq Bins
  <1> DEFINE start == FeatureSet.start
             n == FeatureSet.binCount
  <1>1. n \in Nat /\ start \in Seq(0 .. n)
    BY FeatureSetAssumption
  <1> HIDE DEF start, n
  <1>2. Len(start) \in Nat /\ f \in 0 .. (Len(start) - 1)
    BY <1>1 DEF AllFeatureIndexes, GetFeatureCount, start
  <1>3. \A i \in 1 .. Len(start) : start[i] \in 0 .. n
    BY <1>1
  <1>4. start[f + 1] \in 0 .. n /\ (f < Len(start) - 1 => start[f + 2] \in 0 .. n)
    <2>1. f + 1 \in 1 .. Len(start) /\ (f < Len(start) - 1 => f + 2 \in 1 .. Len(start))
      BY <1>2
    <2> QED BY <1>3, <2>1
  <1>5. /\ GetFeatureBinIndexes(FeatureSet, f)
             = start[f + 1] .. ((IF f < Len(start) - 1 THEN start[f + 2] ELSE n) - 1)
        /\ Bins = 0 .. (n - 1)
    BY DEF GetFeatureBinIndexes, GetFeatureCount, Bins, AllBinIndexes, start, n
  <1>6. PICK lo \in 0 .. n, hi \in 0 .. n :
          lo = start[f + 1] /\ hi = (IF f < Len(start) - 1 THEN start[f + 2] ELSE n)
    <2>1. n \in 0 .. n
      BY <1>1
    <2> QED BY <1>4, <2>1
  <1>7. lo .. (hi - 1) \subseteq 0 .. (n - 1)
    BY <1>1
  <1> QED BY <1>5, <1>6, <1>7

\* A larger background never asks for fewer steps, and a background that is
\* not empty asks for at least one and has at least that many bins.
LEMMA StepCounts ==
  ASSUME NEW b1 \in SUBSET Bins, NEW b2 \in SUBSET Bins, b1 \subseteq b2, b1 # {}
  PROVE  /\ StepCountFor(b1, EvalStepCount) \in 1 .. EvalStepCount
         /\ StepCountFor(b1, EvalStepCount) <= StepCountFor(b2, EvalStepCount)
         /\ StepCountFor(b1, EvalStepCount) <= Cardinality(b1)
  <1>1. /\ IsFiniteSet(b1) /\ Cardinality(b1) \in Nat
        /\ IsFiniteSet(b2) /\ Cardinality(b2) \in Nat
    BY BinsFinite
  <1>2. Cardinality(b1) <= Cardinality(b2)
    BY <1>1, FS_Subset
  <1>3. Cardinality(b1) # 0
    BY <1>1, FS_EmptySet
  <1> QED
    BY <1>1, <1>2, <1>3, EvalStepCountAssumption DEF StepCountFor

\* Bins of a background are left over when fewer steps than it has bins have
\* been made.
LEMMA BinsLeft ==
  ASSUME NEW S \in SUBSET Bins, NEW v, NEW n \in Int, DOMAIN v = 0 .. n,
         NEW k \in Nat, k < Cardinality(S)
  PROVE  S \ BinsBefore(v, k) # {}
  <1> SUFFICES ASSUME S \in SUBSET BinsBefore(v, k)
               PROVE  FALSE
    OBVIOUS
  <1>1. IsFiniteSet(BinsBefore(v, k)) /\ Cardinality(BinsBefore(v, k)) <= k
    BY BinsBeforeCardinality
  <1>2. Cardinality(S) <= Cardinality(BinsBefore(v, k))
    BY <1>1, FS_Subset
  <1>3. Cardinality(S) \in Nat /\ Cardinality(BinsBefore(v, k)) \in Nat
    BY <1>1, BinsFinite, FS_CardinalityType
  <1> QED BY <1>1, <1>2, <1>3

-----------------------------------------------------------------------------
(***************************************************************************)
(* The invariant holds initially and every action preserves it.            *)
(***************************************************************************)
\* A fresh slot and no call: nothing is cached yet.
LEMMA InitIInv == Init => IInv
  <1> SUFFICES ASSUME Init PROVE IInv
    OBVIOUS
  <1>0. /\ pool \in Pools /\ evalBin \in Bins
        /\ maxSteps = EmptyVector /\ minSteps = EmptyVector /\ score = 0
        /\ pc = "idle" /\ stepCount = 0 /\ step = 0 /\ initialSteps = 0
        /\ background = {} /\ toProcess = {} /\ second = {} /\ condition = {}
    BY DEF Init
  <1>1. PICK f \in AllFeatureIndexes(FeatureSet) :
          /\ FeatureBins(f) # {}
          /\ evalBin \notin FeatureBins(f)
          /\ enabled = SetFeatureEnabled(FeatureSet, DisableAll(NewBackground(FeatureSet)), f, TRUE).enabled
          /\ last = SetFeatureEnabled(FeatureSet, DisableAll(NewBackground(FeatureSet)), f, TRUE).last
    BY DEF Init
  <1>2. enabled = FeatureBins(f) /\ last = FeatureBins(f)
    BY <1>1 DEF SetFeatureEnabled, DisableAll, NewBackground, FeatureBins
  <1>3. FeatureBins(f) \subseteq Bins
    BY FeatureInBins DEF FeatureBins
  <1>4. StepCountFor(enabled, EvalStepCount) \in 1 .. EvalStepCount
    BY <1>1, <1>2, <1>3, StepCounts
  <1>5. /\ maxSteps \in [0 .. (stepCount - 2) -> StepResults]
        /\ minSteps \in [0 .. (stepCount - 1) -> StepResults]
        /\ DOMAIN maxSteps = {} /\ DOMAIN minSteps = {}
    <2>1. 0 .. (0 - 2) = {} /\ 0 .. (0 - 1) = {}
      OBVIOUS
    <2>2. EmptyVector \in [{} -> StepResults] /\ DOMAIN EmptyVector = {}
      BY DEF EmptyVector
    <2> QED BY <1>0, <2>1, <2>2
  <1>6. enabled # {} /\ evalBin \notin enabled
    BY <1>1, <1>2
  <1>7. OuterInv
    BY <1>0, <1>2, <1>3, <1>6 DEF OuterInv
  <1>8. CountInv
    BY <1>0, <1>2, <1>4, <1>5 DEF CountInv
  <1>9. LocalsInv
    BY <1>0 DEF LocalsInv
  <1>10. SlotInv
    BY <1>0, <1>5 DEF SlotInv, AllSet, MaxOK, MinOK
  <1>11. GreedyInv
    BY <1>0, <1>5 DEF GreedyInv, AllMaxGreedy, AllMinGreedy
  <1> QED BY <1>7, <1>8, <1>9, <1>10, <1>11 DEF IInv

\* The prologue keeps the steps of the previous call and adds unset ones.
LEMMA BeginIInv == IInv /\ Begin => IInv'
  <1> SUFFICES ASSUME IInv, Begin PROVE IInv'
    OBVIOUS
  <1>1. OuterInv /\ CountInv /\ SlotInv /\ GreedyInv /\ pc = "idle"
    BY DEF IInv, Begin
  <1>2. PICK n : n = StepCountFor(enabled, EvalStepCount)
    OBVIOUS
  <1>3. /\ pc' = "max" /\ stepCount' = n /\ step' = 0
        /\ background' = enabled \cup {evalBin} /\ toProcess' = last
        /\ second' = {evalBin} /\ condition' = {}
        /\ initialSteps' = (IF initialSteps = 0 THEN n ELSE initialSteps)
    BY <1>2 DEF Begin, SetBinEnabled, LastEnabled, Background
  <1>4. /\ maxSteps' = Resize(maxSteps, n - 1, UnsetMax)
        /\ minSteps' = Resize(minSteps, n, UnsetMin)
    BY <1>2 DEF Begin
  <1>5. /\ pool' = pool /\ evalBin' = evalBin /\ enabled' = enabled /\ last' = last
        /\ score' = score
    BY DEF Begin, input, selection
  <1>6. /\ pool \in Pools /\ evalBin \in Bins /\ enabled \in SUBSET Bins
        /\ last \in SUBSET enabled /\ last # {}
    BY <1>1 DEF OuterInv
  <1>7. n \in 1 .. EvalStepCount
    BY <1>2, <1>6, StepCounts
  <1>8. /\ stepCount \in 0 .. n /\ initialSteps \in 0 .. stepCount
        /\ maxSteps \in [0 .. (stepCount - 2) -> StepResults]
        /\ minSteps \in [0 .. (stepCount - 1) -> StepResults]
        /\ initialSteps = 0 => stepCount = 0 /\ enabled = last
    BY <1>1, <1>2 DEF CountInv
  <1>9. UnsetMax \in StepResults /\ UnsetMin \in StepResults
    BY DEF UnsetMax, UnsetMin, StepResults
  <1>10. /\ maxSteps' \in [0 .. (n - 2) -> StepResults]
         /\ minSteps' \in [0 .. (n - 1) -> StepResults]
         /\ \A k \in 0 .. (n - 2) : maxSteps'[k] = IF k \in DOMAIN maxSteps THEN maxSteps[k] ELSE UnsetMax
         /\ \A k \in 0 .. (n - 1) : minSteps'[k] = IF k \in DOMAIN minSteps THEN minSteps[k] ELSE UnsetMin
    BY <1>4, <1>7, <1>8, <1>9 DEF Resize
  <1>11. OuterInv'
    BY <1>1, <1>3, <1>5 DEF OuterInv
  <1>12. CountInv'
    BY <1>2, <1>3, <1>5, <1>7, <1>8, <1>10 DEF CountInv
  <1>13. LocalsInv'
    <2>1. BinsBefore(maxSteps', 0) = {}
      BY <1>10 DEF BinsBefore
    <2> QED BY <1>3, <1>5, <1>6, <1>7, <2>1 DEF LocalsInv
  <1>14. ASSUME NEW k \in DOMAIN maxSteps
         PROVE  /\ k \in DOMAIN maxSteps' /\ maxSteps'[k] = maxSteps[k]
                /\ Agree(maxSteps, maxSteps', k)
    BY <1>7, <1>8, <1>10 DEF Agree
  <1>15. ASSUME NEW k \in DOMAIN minSteps
         PROVE  /\ k \in DOMAIN minSteps' /\ minSteps'[k] = minSteps[k]
                /\ Agree(maxSteps, maxSteps', k) /\ Agree(minSteps, minSteps', k)
    BY <1>7, <1>8, <1>10 DEF Agree
  <1>16. MaxOK(pool, evalBin, Old, maxSteps')
    <2> SUFFICES ASSUME NEW k \in DOMAIN maxSteps'
                 PROVE  MaxStepOK(pool, evalBin, Old, maxSteps', k)
      BY DEF MaxOK
    <2>1. CASE k \in DOMAIN maxSteps
      BY <1>1, <1>14, <2>1, MaxTransfer DEF SlotInv, MaxOK
    <2>2. CASE k \notin DOMAIN maxSteps
      BY <1>10, <2>2 DEF MaxStepOK
    <2> QED BY <2>1, <2>2
  <1>17. MinOK(pool, evalBin, Old, maxSteps', minSteps')
    <2> SUFFICES ASSUME NEW k \in DOMAIN minSteps'
                 PROVE  MinStepOK(pool, evalBin, Old, maxSteps', minSteps', k)
      BY DEF MinOK
    <2>1. CASE k \in DOMAIN minSteps
      BY <1>1, <1>15, <2>1, MinTransfer DEF SlotInv, MinOK
    <2>2. CASE k \notin DOMAIN minSteps
      BY <1>10, <2>2 DEF MinStepOK
    <2> QED BY <2>1, <2>2
  <1>18. MaxOK(pool, evalBin, enabled, maxSteps')
    BY <1>16 DEF MaxOK, MaxStepOK, Old
  <1>19. Old' = Old
    BY <1>5 DEF Old
  <1>20. SlotInv'
    <2>1. SetBelow(maxSteps', 0)
      BY <1>10 DEF SetBelow
    <2> QED BY <1>3, <1>5, <1>16, <1>17, <1>18, <1>19, <2>1 DEF SlotInv
  <1>21. GreedyInv'
    <2> SUFFICES ASSUME n = initialSteps'
                 PROVE  /\ \A k \in DOMAIN maxSteps' : ~(k < 0)
                        /\ \/ /\ enabled = last
                              /\ \A k \in DOMAIN maxSteps' : maxSteps'[k] = UnsetMax
                           \/ /\ AllSet(maxSteps') /\ AllSet(minSteps')
                              /\ AllMaxGreedy(pool, evalBin, Old, maxSteps')
                              /\ AllMinGreedy(pool, evalBin, Old, maxSteps', minSteps')
      BY <1>3, <1>5, <1>19 DEF GreedyInv, Grown
    <2>1. \A k \in DOMAIN maxSteps' : ~(k < 0)
      BY <1>10
    <2>2. CASE initialSteps = 0
      BY <1>8, <1>10, <2>1, <2>2
    <2>3. CASE initialSteps # 0
      <3>1. n = stepCount /\ stepCount = initialSteps
        BY <1>3, <1>7, <1>8, <2>3
      <3>2. DOMAIN maxSteps' = DOMAIN maxSteps /\ DOMAIN minSteps' = DOMAIN minSteps
        BY <1>8, <1>10, <3>1
      <3>3. /\ AllSet(maxSteps) /\ AllSet(minSteps)
            /\ AllMaxGreedy(pool, evalBin, Old, maxSteps)
            /\ AllMinGreedy(pool, evalBin, Old, maxSteps, minSteps)
        BY <1>1, <3>1 DEF SlotInv, GreedyInv, Grown
      <3>4. AllSet(maxSteps') /\ AllMaxGreedy(pool, evalBin, Old, maxSteps')
        BY <1>14, <3>2, <3>3, MaxTransfer DEF AllSet, AllMaxGreedy
      <3>5. AllSet(minSteps') /\ AllMinGreedy(pool, evalBin, Old, maxSteps', minSteps')
        BY <1>15, <3>2, <3>3, MinTransfer DEF AllSet, AllMinGreedy
      <3> QED BY <2>1, <3>4, <3>5
    <2> QED BY <2>2, <2>3
  <1> QED BY <1>11, <1>12, <1>13, <1>20, <1>21 DEF IInv

\* Between the loops the evaluated bin leaves both backgrounds.
LEMMA StartMinIInv == IInv /\ StartMin => IInv'
  <1> SUFFICES ASSUME IInv, StartMin PROVE IInv'
    OBVIOUS
  <1>1. OuterInv /\ CountInv /\ LocalsInv /\ SlotInv /\ GreedyInv
    BY DEF IInv
  <1>2. /\ pc = "max" /\ step = stepCount - 1 /\ pc' = "min" /\ step' = 0
        /\ background' = background \ {evalBin} /\ toProcess' = toProcess \ {evalBin}
        /\ second' = {evalBin} /\ condition' = {}
    BY DEF StartMin
  <1>3. /\ pool' = pool /\ evalBin' = evalBin /\ enabled' = enabled /\ last' = last
        /\ maxSteps' = maxSteps /\ minSteps' = minSteps /\ score' = score
        /\ stepCount' = stepCount /\ initialSteps' = initialSteps
    BY DEF StartMin, input, selection, slot
  <1>4. /\ evalBin \in Bins /\ enabled \in SUBSET Bins
        /\ last \in SUBSET enabled /\ evalBin \notin enabled
    BY <1>1 DEF OuterInv
  <1>5. /\ stepCount \in Nat
        /\ maxSteps \in [0 .. (stepCount - 2) -> StepResults]
        /\ minSteps \in [0 .. (stepCount - 1) -> StepResults]
    <2>1. StepCountFor(enabled, EvalStepCount) \in Nat
      BY <1>4, BinsFinite, EvalStepCountAssumption DEF StepCountFor
    <2> QED BY <1>1, <2>1 DEF CountInv
  <1>6. BinsBefore(maxSteps, 0) = {} /\ BinsBefore(minSteps, 0) = {}
    BY <1>5 DEF BinsBefore
  <1>7. background = enabled \cup {evalBin} /\ toProcess \in {last, background}
    BY <1>1, <1>2 DEF LocalsInv
  <1>8. background' = enabled /\ toProcess' \in {last, enabled}
        /\ (toProcess = background => toProcess' = enabled)
        /\ (toProcess = last => toProcess' = last)
    BY <1>2, <1>4, <1>7
  <1>9. OuterInv'
    BY <1>1, <1>2, <1>3 DEF OuterInv
  <1>10. CountInv'
    BY <1>1, <1>2, <1>3, <1>5 DEF CountInv
  <1>11. LocalsInv'
    BY <1>2, <1>3, <1>4, <1>6, <1>8 DEF LocalsInv
  <1>12. \A k \in DOMAIN maxSteps : k < step
    BY <1>2, <1>5
  <1>13. MinOK(pool, evalBin, Old, maxSteps, minSteps)
         => MinOK(pool, evalBin, enabled, maxSteps, minSteps)
    BY DEF MinOK, MinStepOK, Old
  <1>14. Old' = Old
    BY <1>3 DEF Old
  <1>15. SlotInv'
    <2>1. /\ SetBelow(maxSteps, step) /\ MaxOK(pool, evalBin, enabled, maxSteps)
          /\ MinOK(pool, evalBin, Old, maxSteps, minSteps)
      BY <1>1, <1>2 DEF SlotInv
    <2>2. AllSet(maxSteps) /\ SetBelow(minSteps, 0)
      BY <1>5, <1>12, <2>1 DEF AllSet, SetBelow
    <2> QED BY <1>2, <1>3, <1>13, <1>14, <2>1, <2>2 DEF SlotInv
  <1>16. GreedyInv'
    <2> SUFFICES ASSUME ~Grown
                 PROVE  /\ AllMaxGreedy(pool, evalBin, enabled, maxSteps)
                        /\ \A k \in DOMAIN minSteps : ~(k < 0)
                        /\ \/ toProcess' = background'
                           \/ AllMinGreedy(pool, evalBin, Old, maxSteps, minSteps)
      BY <1>2, <1>3, <1>14 DEF GreedyInv, Grown
    <2>1. AllMaxGreedy(pool, evalBin, enabled, maxSteps)
      BY <1>1, <1>2, <1>12 DEF GreedyInv, AllMaxGreedy
    <2>2. \/ toProcess = background \/ enabled = last
          \/ AllMinGreedy(pool, evalBin, Old, maxSteps, minSteps)
      BY <1>1, <1>2 DEF GreedyInv
    <2>3. \A k \in DOMAIN minSteps : ~(k < 0)
      BY <1>5
    <2> QED BY <1>8, <2>1, <2>2, <2>3
  <1> QED BY <1>9, <1>10, <1>11, <1>15, <1>16 DEF IInv

\* The score is that of the last minimizing step.
LEMMA FinishIInv == IInv /\ Finish => IInv'
  <1> SUFFICES ASSUME IInv, Finish PROVE IInv'
    OBVIOUS
  <1>1. OuterInv /\ CountInv /\ LocalsInv /\ SlotInv /\ GreedyInv
    BY DEF IInv
  <1>2. /\ pc = "min" /\ step = stepCount /\ pc' = "done"
        /\ score' = Cmi(pool, second, condition)
    BY DEF Finish
  <1>3. /\ pool' = pool /\ evalBin' = evalBin /\ enabled' = enabled /\ last' = last
        /\ maxSteps' = maxSteps /\ minSteps' = minSteps
        /\ stepCount' = stepCount /\ step' = step /\ initialSteps' = initialSteps
        /\ background' = background /\ toProcess' = toProcess
        /\ second' = second /\ condition' = condition
    BY DEF Finish, input, selection, locals
  <1>4. /\ stepCount \in Nat /\ stepCount > 0
        /\ maxSteps \in [0 .. (stepCount - 2) -> StepResults]
        /\ minSteps \in [0 .. (stepCount - 1) -> StepResults]
    <2>1. StepCountFor(enabled, EvalStepCount) \in Nat
      BY <1>1, BinsFinite, EvalStepCountAssumption DEF StepCountFor, OuterInv
    <2> QED BY <1>1, <1>2, <2>1 DEF CountInv
  <1>5. /\ second = {evalBin} \cup BinsBefore(maxSteps, stepCount)
        /\ condition = BinsBefore(minSteps, stepCount)
        /\ second \in SUBSET Bins /\ condition \in SUBSET Bins
    BY <1>1, <1>2 DEF LocalsInv
  <1>6. PICK k : k = stepCount - 1
    OBVIOUS
  <1>7. k \in DOMAIN minSteps /\ k + 1 = stepCount /\ k \in Int
    BY <1>4, <1>6
  <1>8. BinsBefore(minSteps, stepCount) = BinsBefore(minSteps, k) \cup {minSteps[k].bin}
    BY <1>4, <1>6, <1>7, BinsBeforeNext
  <1>9. BinsBefore(maxSteps, stepCount) = BinsBefore(maxSteps, k)
    BY <1>4, <1>6 DEF BinsBefore
  <1>10. /\ AllSet(maxSteps) /\ AllSet(minSteps)
         /\ MaxOK(pool, evalBin, enabled, maxSteps)
         /\ MinOK(pool, evalBin, enabled, maxSteps, minSteps)
    BY <1>1, <1>2, <1>4 DEF SlotInv, AllSet, SetBelow
  <1>11. minSteps[k].cmi = MinValue(pool, evalBin, maxSteps, minSteps, k, minSteps[k].bin)
    BY <1>7, <1>10 DEF MinOK, MinStepOK, AllSet, UnsetMin, ResetMin
  <1>12. score' = minSteps[k].cmi
    BY <1>2, <1>5, <1>8, <1>9, <1>11 DEF MinValue
  <1>13. score' \in Nat
    BY <1>1, <1>2, <1>5, CmiBounds DEF OuterInv
  <1>14. OuterInv'
    BY <1>1, <1>2, <1>3, <1>13 DEF OuterInv
  <1>15. CountInv'
    BY <1>1, <1>2, <1>3, <1>4 DEF CountInv
  <1>16. LocalsInv'
    BY <1>1, <1>2, <1>3 DEF LocalsInv
  <1>17. SlotInv'
    BY <1>2, <1>3, <1>6, <1>10, <1>12 DEF SlotInv
  <1>18. GreedyInv'
    <2> SUFFICES ASSUME ~Grown PROVE SlotIsGreedy'
      BY <1>2, <1>3 DEF GreedyInv, Grown
    <2>1. \A j \in DOMAIN minSteps : j < step
      BY <1>2, <1>4
    <2> QED BY <1>1, <1>2, <1>3, <2>1 DEF GreedyInv, SlotIsGreedy, AllMaxGreedy
  <1> QED BY <1>14, <1>15, <1>16, <1>17, <1>18 DEF IInv

\* The bins enabled so far become the background of the previous call.
LEMMA EnableFeatureIInv ==
  ASSUME IInv, NEW f \in AllFeatureIndexes(FeatureSet), EnableFeature(f)
  PROVE  IInv'
  <1>1. OuterInv /\ CountInv /\ LocalsInv /\ SlotInv /\ GreedyInv
    BY DEF IInv
  <1>2. /\ pc = "done" /\ pc' = "idle"
        /\ FeatureBins(f) # {} /\ FeatureBins(f) \cap enabled = {} /\ evalBin \notin FeatureBins(f)
        /\ enabled' = enabled \cup FeatureBins(f) /\ last' = FeatureBins(f)
    BY DEF EnableFeature, SetFeatureEnabled, FeatureBins, Background
  <1>3. /\ pool' = pool /\ evalBin' = evalBin
        /\ maxSteps' = maxSteps /\ minSteps' = minSteps /\ score' = score
        /\ stepCount' = stepCount /\ step' = step /\ initialSteps' = initialSteps
        /\ background' = background /\ toProcess' = toProcess
        /\ second' = second /\ condition' = condition
    BY DEF EnableFeature, input, slot, locals
  <1>4. FeatureBins(f) \in SUBSET Bins
    BY FeatureInBins DEF FeatureBins
  <1>5. enabled \in SUBSET Bins /\ enabled # {} /\ evalBin \notin enabled
    BY <1>1 DEF OuterInv
  <1>6. enabled' \in SUBSET Bins /\ enabled \subseteq enabled' /\ Old' = enabled
    BY <1>2, <1>4, <1>5 DEF Old
  <1>7. /\ StepCountFor(enabled, EvalStepCount) \in Nat
        /\ StepCountFor(enabled', EvalStepCount) \in Nat
        /\ StepCountFor(enabled, EvalStepCount) <= StepCountFor(enabled', EvalStepCount)
    BY <1>5, <1>6, StepCounts
  <1>8. OuterInv'
    BY <1>1, <1>2, <1>3, <1>4, <1>5 DEF OuterInv
  <1>9. CountInv'
    <2>1. stepCount \in 0 .. StepCountFor(enabled', EvalStepCount)
      BY <1>1, <1>7 DEF CountInv
    <2>2. initialSteps # 0
      BY <1>1, <1>2 DEF CountInv
    <2> QED BY <1>1, <1>3, <2>1, <2>2, <1>2 DEF CountInv
  <1>10. LocalsInv'
    BY <1>1, <1>2, <1>3 DEF LocalsInv
  <1>11. SlotInv'
    BY <1>1, <1>2, <1>3, <1>6 DEF SlotInv
  <1>12. GreedyInv'
    BY <1>1, <1>2, <1>3, <1>6 DEF GreedyInv, Grown, SlotIsGreedy, AllMaxGreedy, AllMinGreedy
  <1> QED BY <1>8, <1>9, <1>10, <1>11, <1>12 DEF IInv

\* What every maximizing step finds: a candidate with its value.
LEMMA MaxStepFacts ==
  ASSUME IInv, NEW b \in Bins, MaxStep(b)
  PROVE  LET c == BinValue(pool, second, condition, b)
         IN  /\ OuterInv /\ CountInv /\ LocalsInv /\ SlotInv /\ GreedyInv
             /\ pc = "max" /\ stepCount \in Nat /\ step \in DOMAIN maxSteps
             /\ maxSteps \in [0 .. (stepCount - 2) -> StepResults]
             /\ minSteps \in [0 .. (stepCount - 1) -> StepResults]
             /\ c = MaxValue(pool, evalBin, maxSteps, step, b)
             /\ c \in Nat
             /\ b \in (enabled \cup {evalBin}) \ BinsBefore(maxSteps, step)
             /\ \A x \in toProcess \ BinsBefore(maxSteps, step) :
                  MaxValue(pool, evalBin, maxSteps, step, x) <= c
  <1> DEFINE c == BinValue(pool, second, condition, b)
  <1>1. OuterInv /\ CountInv /\ LocalsInv /\ SlotInv /\ GreedyInv
    BY DEF IInv
  <1>2. /\ pc = "max" /\ step < stepCount - 1
        /\ IsMaxElementBy(pool, second, condition, MaxCandidates(toProcess, maxSteps, step), b)
    BY DEF MaxStep
  <1>3. /\ stepCount \in Nat /\ step \in 0 .. stepCount
        /\ maxSteps \in [0 .. (stepCount - 2) -> StepResults]
        /\ minSteps \in [0 .. (stepCount - 1) -> StepResults]
    <2>1. StepCountFor(enabled, EvalStepCount) \in Nat
      BY <1>1, BinsFinite, EvalStepCountAssumption DEF StepCountFor, OuterInv
    <2> QED BY <1>1, <2>1 DEF CountInv
  <1>4. step \in DOMAIN maxSteps
    BY <1>2, <1>3
  <1>5. /\ second = {evalBin} /\ condition = BinsBefore(maxSteps, step)
        /\ condition \in SUBSET Bins /\ second \in SUBSET Bins
        /\ toProcess \in {last, background} /\ background = enabled \cup {evalBin}
    BY <1>1, <1>2 DEF LocalsInv
  <1>6. \A x : BinValue(pool, second, condition, x) = MaxValue(pool, evalBin, maxSteps, step, x)
    BY <1>5 DEF BinValue, MaxValue
  <1>7. toProcess \subseteq enabled \cup {evalBin} /\ enabled \cup {evalBin} \subseteq Bins
    BY <1>1, <1>5 DEF OuterInv
  <1>8. /\ b \in toProcess \ BinsBefore(maxSteps, step)
        /\ \A x \in toProcess \ BinsBefore(maxSteps, step) :
             \/ BinValue(pool, second, condition, x) < c
             \/ BinValue(pool, second, condition, x) = c
    BY <1>2 DEF IsMaxElementBy, MaxCandidates
  <1>9. ASSUME NEW x \in Bins PROVE BinValue(pool, second, condition, x) \in Nat
    <2>1. condition \cup {x} \in SUBSET Bins /\ pool \in Pools
      BY <1>1, <1>5 DEF OuterInv
    <2> QED BY <1>5, <2>1, CmiBounds DEF BinValue
  <1>10. \A x \in toProcess \ BinsBefore(maxSteps, step) :
           MaxValue(pool, evalBin, maxSteps, step, x) <= c
    <2> SUFFICES ASSUME NEW x \in toProcess \ BinsBefore(maxSteps, step)
                 PROVE  BinValue(pool, second, condition, x) <= c
      BY <1>6
    <2>1. BinValue(pool, second, condition, x) \in Nat /\ c \in Nat
      BY <1>7, <1>9
    <2> HIDE DEF c
    <2> QED BY <1>8, <2>1
  <1>11. c = MaxValue(pool, evalBin, maxSteps, step, b) /\ c \in Nat
    BY <1>6, <1>9
  <1>12. b \in (enabled \cup {evalBin}) \ BinsBefore(maxSteps, step)
    BY <1>7, <1>8
  <1> QED BY <1>1, <1>2, <1>3, <1>4, <1>10, <1>11, <1>12

\* A better helper is stored, the later steps start afresh, and from here on
\* all enabled bins are looked at.
LEMMA MaxStepImprovedIInv ==
  ASSUME IInv, NEW b \in Bins, MaxStep(b),
         MaxImproves(maxSteps, step, BinValue(pool, second, condition, b))
  PROVE  IInv'
  <1>0. PICK c : c = BinValue(pool, second, condition, b)
    OBVIOUS
  <1>1. /\ OuterInv /\ CountInv /\ LocalsInv /\ SlotInv /\ GreedyInv
        /\ pc = "max" /\ stepCount \in Nat /\ step \in DOMAIN maxSteps
        /\ maxSteps \in [0 .. (stepCount - 2) -> StepResults]
        /\ minSteps \in [0 .. (stepCount - 1) -> StepResults]
        /\ c = MaxValue(pool, evalBin, maxSteps, step, b) /\ c \in Nat
        /\ b \in (enabled \cup {evalBin}) \ BinsBefore(maxSteps, step)
        /\ \A x \in toProcess \ BinsBefore(maxSteps, step) :
             MaxValue(pool, evalBin, maxSteps, step, x) <= c
    BY <1>0, MaxStepFacts
  <1>2. /\ maxSteps' = StoreAndReset(maxSteps, step, [bin |-> b, cmi |-> c], UnsetMax)
        /\ minSteps' = ResetAfter(minSteps, step, ResetMin)
        /\ toProcess' = background
        /\ condition' = condition \cup {maxSteps'[step].bin}
        /\ step' = step + 1
        /\ c > maxSteps[step].cmi
    BY <1>0 DEF MaxStep, MaxStepMax, MaxStepMin, MaxStepToProcess, MaxImproves
  <1>3. /\ pool' = pool /\ evalBin' = evalBin /\ enabled' = enabled /\ last' = last
        /\ score' = score /\ pc' = pc /\ stepCount' = stepCount /\ background' = background
        /\ second' = second /\ initialSteps' = initialSteps
    BY DEF MaxStep, input, selection
  <1>4. [bin |-> b, cmi |-> c] \in StepResults
    BY <1>1 DEF StepResults
  <1>5. /\ maxSteps' \in [0 .. (stepCount - 2) -> StepResults]
        /\ maxSteps'[step].bin = b /\ maxSteps'[step].cmi = c
        /\ \A j \in 0 .. (stepCount - 2) :
             /\ j < step => maxSteps'[j] = maxSteps[j]
             /\ j > step => maxSteps'[j] = UnsetMax
    <2>1. step \in 0 .. (stepCount - 2) /\ UnsetMax \in StepResults
      BY <1>1, Sentinels
    <2>2. maxSteps' \in [0 .. (stepCount - 2) -> StepResults]
      BY <1>1, <1>2, <1>4, <2>1 DEF StoreAndReset
    <2>3. maxSteps'[step].bin = b /\ maxSteps'[step].cmi = c
      BY <1>1, <1>2, <2>1 DEF StoreAndReset
    <2>4. \A j \in 0 .. (stepCount - 2) :
             /\ j < step => maxSteps'[j] = maxSteps[j]
             /\ j > step => maxSteps'[j] = UnsetMax
      BY <1>1, <1>2, <2>1 DEF StoreAndReset
    <2> QED BY <2>2, <2>3, <2>4
  <1>6. /\ minSteps' \in [0 .. (stepCount - 1) -> StepResults]
        /\ \A j \in 0 .. (stepCount - 1) :
             /\ j <= step => minSteps'[j] = minSteps[j]
             /\ j > step => minSteps'[j] = ResetMin
    BY <1>1, <1>2, Sentinels DEF ResetAfter
  <1>19. ASSUME NEW j \in DOMAIN maxSteps, j <= step
         PROVE  Agree(maxSteps, maxSteps', j)
    BY <1>1, <1>5, <1>19 DEF Agree
  <1>20. ASSUME NEW j \in DOMAIN minSteps, j <= step
         PROVE  Agree(minSteps, minSteps', j) /\ Agree(maxSteps, maxSteps', j)
    BY <1>1, <1>5, <1>6, <1>20 DEF Agree
  <1>7. /\ background = enabled \cup {evalBin} /\ second = {evalBin}
        /\ condition = BinsBefore(maxSteps, step) /\ toProcess \in {last, background}
        /\ background \in SUBSET Bins /\ condition \in SUBSET Bins /\ second \in SUBSET Bins
    BY <1>1 DEF LocalsInv
  <1>8. step \in Int /\ step >= 0 /\ step < stepCount - 1 /\ stepCount - 2 \in Int
    BY <1>1
  <1>9. BinsBefore(maxSteps', step) = BinsBefore(maxSteps, step)
    BY <1>1, <1>19, <1>8, AgreeBins
  <1>10. condition' = BinsBefore(maxSteps', step + 1)
    <2>1. DOMAIN maxSteps' = 0 .. (stepCount - 2) /\ step \in DOMAIN maxSteps'
      BY <1>1, <1>5
    <2>2. BinsBefore(maxSteps', step + 1) = BinsBefore(maxSteps', step) \cup {maxSteps'[step].bin}
      BY <1>8, <2>1, BinsBeforeNext
    <2> QED BY <1>2, <1>7, <1>9, <2>2
  <1>11. MaxOK(pool, evalBin, enabled, maxSteps')
    <2> SUFFICES ASSUME NEW j \in DOMAIN maxSteps'
                 PROVE  MaxStepOK(pool, evalBin, enabled, maxSteps', j)
      BY DEF MaxOK
    <2>1. CASE j < step
      <3>1. MaxStepOK(pool, evalBin, enabled, maxSteps, j)
        BY <1>1, <1>5 DEF SlotInv, MaxOK
      <3>2. Agree(maxSteps, maxSteps', j) /\ maxSteps[j] = maxSteps'[j]
        BY <1>1, <1>5, <1>19, <1>8, <2>1
      <3> QED BY <3>1, <3>2, MaxTransfer
    <2>2. CASE j = step
      <3>1. SetBelow(maxSteps, step)
        BY <1>1 DEF SlotInv
      <3>2. \A i \in DOMAIN maxSteps' : i < j => maxSteps'[i].bin # -1
        BY <1>1, <1>5, <2>2, <3>1 DEF SetBelow
      <3>3. maxSteps'[j].cmi = MaxValue(pool, evalBin, maxSteps', j, maxSteps'[j].bin)
        BY <1>1, <1>5, <1>9, <2>2 DEF MaxValue
      <3> QED BY <1>1, <1>5, <1>9, <2>2, <3>2, <3>3 DEF MaxStepOK
    <2>3. CASE j > step
      BY <1>5, <2>3 DEF MaxStepOK
    <2> QED BY <1>5, <1>8, <2>1, <2>2, <2>3
  <1>12. MinOK(pool, evalBin, Old, maxSteps', minSteps')
    <2> SUFFICES ASSUME NEW j \in DOMAIN minSteps'
                 PROVE  MinStepOK(pool, evalBin, Old, maxSteps', minSteps', j)
      BY DEF MinOK
    <2>1. CASE j <= step
      <3>1. MinStepOK(pool, evalBin, Old, maxSteps, minSteps, j)
        BY <1>1, <1>6 DEF SlotInv, MinOK
      <3>2. Agree(maxSteps, maxSteps', j) /\ Agree(minSteps, minSteps', j)
            /\ minSteps[j] = minSteps'[j]
        BY <1>1, <1>6, <1>20, <1>8, <2>1
      <3> QED BY <3>1, <3>2, MinTransfer
    <2>2. CASE j > step
      BY <1>6, <2>2 DEF MinStepOK
    <2> QED BY <1>6, <1>8, <2>1, <2>2
  <1>13. Old' = Old
    BY <1>3 DEF Old
  <1>14. OuterInv'
    BY <1>1, <1>3 DEF OuterInv
  <1>15. CountInv'
    BY <1>1, <1>2, <1>3, <1>5, <1>6, <1>8 DEF CountInv
  <1>16. LocalsInv'
    <2>1. condition' \in SUBSET Bins
      BY <1>2, <1>5, <1>7
    <2> QED BY <1>1, <1>2, <1>3, <1>7, <1>8, <1>10, <2>1 DEF LocalsInv
  <1>17. SlotInv'
    <2>1. SetBelow(maxSteps, step)
      BY <1>1 DEF SlotInv
    <2>2. b # -1
      BY FeatureSetAssumption DEF Bins, AllBinIndexes
    <2>3. SetBelow(maxSteps', step + 1)
      BY <1>1, <1>5, <1>8, <2>1, <2>2 DEF SetBelow
    <2>4. \A k \in DOMAIN maxSteps' : k >= step + 1 => maxSteps'[k] = UnsetMax
      BY <1>5, <1>8
    <2> QED BY <1>1, <1>2, <1>3, <1>11, <1>12, <1>13, <2>3, <2>4 DEF SlotInv
  <1>18. GreedyInv'
    <2> SUFFICES ASSUME ~Grown, NEW k \in DOMAIN maxSteps', k < step + 1
                 PROVE  MaxGreedy(pool, evalBin, enabled, maxSteps', k)
      BY <1>1, <1>2, <1>3 DEF GreedyInv, Grown
    <2>1. CASE k < step
      <3>1. MaxGreedy(pool, evalBin, enabled, maxSteps, k)
        BY <1>1, <1>5, <2>1 DEF GreedyInv
      <3>2. Agree(maxSteps, maxSteps', k) /\ maxSteps[k] = maxSteps'[k]
        BY <1>1, <1>5, <1>19, <1>8, <2>1
      <3> QED BY <3>1, <3>2, MaxTransfer
    <2>2. CASE k = step
      <3> SUFFICES ASSUME NEW x \in (enabled \cup {evalBin}) \ BinsBefore(maxSteps, step)
                   PROVE  MaxValue(pool, evalBin, maxSteps, step, x) <= c
        BY <1>5, <1>9, <2>2 DEF MaxGreedy, MaxValue
      <3>1. \/ toProcess = background
            \/ enabled = last /\ x \in enabled
            \/ enabled = last /\ x = evalBin
            \/ AllMaxGreedy(pool, evalBin, Old, maxSteps)
        BY <1>1 DEF GreedyInv
      <3>2. CASE x \in toProcess
        BY <1>1, <3>2
      <3>3. CASE x \notin toProcess /\ AllMaxGreedy(pool, evalBin, Old, maxSteps)
        <4>1. x \in (Old \cup {evalBin}) \ BinsBefore(maxSteps, step)
          BY <1>7, <3>3 DEF Old
        <4>2. MaxValue(pool, evalBin, maxSteps, step, x) <= maxSteps[step].cmi
          BY <1>1, <3>3, <4>1 DEF AllMaxGreedy, MaxGreedy
        <4>3. MaxValue(pool, evalBin, maxSteps, step, x) \in Nat
          <5>1. pool \in Pools /\ {evalBin} \in SUBSET Bins
                /\ BinsBefore(maxSteps, step) \cup {x} \in SUBSET Bins
            BY <1>1, <1>7 DEF OuterInv
          <5> QED BY <5>1, CmiBounds DEF MaxValue
        <4>4. maxSteps[step].cmi \in Int
          BY <1>1 DEF StepResults
        <4> QED BY <1>1, <1>2, <4>2, <4>3, <4>4
      <3>4. CASE x = evalBin
        <4>1. pool \in Pools /\ {evalBin} \in SUBSET Bins
              /\ BinsBefore(maxSteps, step) \cup {evalBin} \in SUBSET Bins
          BY <1>1, <1>7 DEF OuterInv
        <4>2. MaxValue(pool, evalBin, maxSteps, step, evalBin) = 0
          BY <4>1, CmiBounds DEF MaxValue
        <4> QED BY <1>1, <3>4, <4>2
      <3> QED BY <1>7, <3>1, <3>2, <3>3, <3>4
    <2> QED BY <1>5, <1>8, <2>1, <2>2
  <1> QED BY <1>14, <1>15, <1>16, <1>17, <1>18 DEF IInv

\* The cached helper is still the best: nothing but the position changes.
LEMMA MaxStepKeptIInv ==
  ASSUME IInv, NEW b \in Bins, MaxStep(b),
         ~MaxImproves(maxSteps, step, BinValue(pool, second, condition, b))
  PROVE  IInv'
  <1>0. PICK c : c = BinValue(pool, second, condition, b)
    OBVIOUS
  <1>1. /\ OuterInv /\ CountInv /\ LocalsInv /\ SlotInv /\ GreedyInv
        /\ pc = "max" /\ stepCount \in Nat /\ step \in DOMAIN maxSteps
        /\ maxSteps \in [0 .. (stepCount - 2) -> StepResults]
        /\ minSteps \in [0 .. (stepCount - 1) -> StepResults]
        /\ c \in Nat
        /\ \A x \in toProcess \ BinsBefore(maxSteps, step) :
             MaxValue(pool, evalBin, maxSteps, step, x) <= c
    BY <1>0, MaxStepFacts
  <1>2. /\ maxSteps' = maxSteps /\ minSteps' = minSteps /\ toProcess' = toProcess
        /\ condition' = condition \cup {maxSteps'[step].bin}
        /\ step' = step + 1
        /\ ~(c > maxSteps[step].cmi)
    BY <1>0 DEF MaxStep, MaxStepMax, MaxStepMin, MaxStepToProcess, MaxImproves
  <1>3. /\ pool' = pool /\ evalBin' = evalBin /\ enabled' = enabled /\ last' = last
        /\ score' = score /\ pc' = pc /\ stepCount' = stepCount /\ background' = background
        /\ second' = second /\ initialSteps' = initialSteps
    BY DEF MaxStep, input, selection
  <1>4. /\ background = enabled \cup {evalBin} /\ second = {evalBin}
        /\ condition = BinsBefore(maxSteps, step) /\ toProcess \in {last, background}
        /\ background \in SUBSET Bins /\ condition \in SUBSET Bins /\ second \in SUBSET Bins
        /\ toProcess \in SUBSET Bins
    BY <1>1 DEF LocalsInv
  <1>5. step \in Int /\ step >= 0 /\ step < stepCount - 1 /\ stepCount - 2 \in Int
    BY <1>1
  <1>6. maxSteps[step] # UnsetMax
    <2>1. maxSteps[step].cmi \in Int
      BY <1>1 DEF StepResults
    <2>2. maxSteps[step].cmi # -1
      BY <1>1, <1>2, <2>1
    <2> QED BY <2>2, Sentinels
  <1>7. toProcess = last /\ MaxOK(pool, evalBin, Old, maxSteps)
    BY <1>1, <1>5, <1>6 DEF SlotInv
  <1>8. maxSteps[step].bin \in Bins /\ maxSteps[step].bin # -1
    <2>1. maxSteps[step].bin \in Old \cup {evalBin}
      BY <1>1, <1>6, <1>7 DEF MaxOK, MaxStepOK
    <2> QED BY <2>1, <1>4, FeatureSetAssumption DEF Bins, AllBinIndexes, Old
  <1>9. condition' = BinsBefore(maxSteps, step + 1) /\ condition' \in SUBSET Bins
    BY <1>1, <1>2, <1>4, <1>5, <1>8, BinsBeforeNext
  <1>10. Old' = Old
    BY <1>3 DEF Old
  <1>11. OuterInv'
    BY <1>1, <1>3 DEF OuterInv
  <1>12. CountInv'
    BY <1>1, <1>2, <1>3, <1>5 DEF CountInv
  <1>13. LocalsInv'
    BY <1>1, <1>2, <1>3, <1>4, <1>5, <1>9 DEF LocalsInv
  <1>14. SlotInv'
    <2>1. /\ SetBelow(maxSteps, step) /\ MaxOK(pool, evalBin, enabled, maxSteps)
          /\ MinOK(pool, evalBin, Old, maxSteps, minSteps)
      BY <1>1 DEF SlotInv
    <2>2. SetBelow(maxSteps, step + 1)
      BY <1>1, <1>5, <1>8, <2>1 DEF SetBelow
    <2> QED BY <1>1, <1>2, <1>3, <1>7, <1>10, <2>1, <2>2 DEF SlotInv
  <1>15. GreedyInv'
    <2> SUFFICES ASSUME ~Grown
                 PROVE  /\ MaxGreedy(pool, evalBin, enabled, maxSteps, step)
                        /\ AllSet(maxSteps) /\ AllSet(minSteps)
                        /\ AllMaxGreedy(pool, evalBin, Old, maxSteps)
                        /\ AllMinGreedy(pool, evalBin, Old, maxSteps, minSteps)
      <3>1. \A k \in DOMAIN maxSteps : k < step + 1 <=> k < step \/ k = step
        BY <1>1
      <3> QED BY <1>1, <1>2, <1>3, <1>10, <3>1 DEF GreedyInv, Grown
    <2>1. toProcess # background
      BY <1>1, <1>4, <1>7 DEF OuterInv
    <2>2. /\ AllSet(maxSteps) /\ AllSet(minSteps)
          /\ AllMaxGreedy(pool, evalBin, Old, maxSteps)
          /\ AllMinGreedy(pool, evalBin, Old, maxSteps, minSteps)
      BY <1>1, <1>6, <2>1 DEF GreedyInv
    <2>3. MaxGreedy(pool, evalBin, enabled, maxSteps, step)
      <3> SUFFICES ASSUME NEW x \in (enabled \cup {evalBin}) \ BinsBefore(maxSteps, step)
                   PROVE  MaxValue(pool, evalBin, maxSteps, step, x) <= maxSteps[step].cmi
        BY DEF MaxGreedy
      <3>1. CASE x \in last
        <4>1. MaxValue(pool, evalBin, maxSteps, step, x) <= c
          BY <1>1, <1>7, <3>1
        <4>2. MaxValue(pool, evalBin, maxSteps, step, x) \in Nat
          <5>1. pool \in Pools /\ {evalBin} \in SUBSET Bins
                /\ BinsBefore(maxSteps, step) \cup {x} \in SUBSET Bins
            BY <1>1, <1>4 DEF OuterInv
          <5> QED BY <5>1, CmiBounds DEF MaxValue
        <4>3. maxSteps[step].cmi \in Int
          BY <1>1 DEF StepResults
        <4> QED BY <1>1, <1>2, <4>1, <4>2, <4>3
      <3>2. CASE x \notin last
        <4>1. x \in (Old \cup {evalBin}) \ BinsBefore(maxSteps, step)
          BY <3>2 DEF Old
        <4> QED BY <1>1, <2>2, <4>1 DEF AllMaxGreedy, MaxGreedy
      <3> QED BY <3>1, <3>2
    <2> QED BY <2>2, <2>3
  <1> QED BY <1>11, <1>12, <1>13, <1>14, <1>15 DEF IInv

\* What every minimizing step finds: an enabled bin that no earlier step has
\* taken, with its value.
LEMMA MinStepFacts ==
  ASSUME IInv, NEW b \in Bins, MinStep(b)
  PROVE  LET c == BinValue(pool, second, condition, b)
         IN  /\ OuterInv /\ CountInv /\ LocalsInv /\ SlotInv /\ GreedyInv
             /\ pc = "min" /\ stepCount \in Nat /\ step \in DOMAIN minSteps
             /\ maxSteps \in [0 .. (stepCount - 2) -> StepResults]
             /\ minSteps \in [0 .. (stepCount - 1) -> StepResults]
             /\ c = MinValue(pool, evalBin, maxSteps, minSteps, step, b)
             /\ c \in Nat /\ c < ResetValue
             /\ b \in enabled \ BinsBefore(minSteps, step)
             /\ \A x \in toProcess :
                  /\ MinValue(pool, evalBin, maxSteps, minSteps, step, x) \in Nat
                  /\ MinValue(pool, evalBin, maxSteps, minSteps, step, x) >= c
  <1> DEFINE c == BinValue(pool, second, condition, b)
  <1>1. OuterInv /\ CountInv /\ LocalsInv /\ SlotInv /\ GreedyInv
    BY DEF IInv
  <1>2. /\ pc = "min" /\ step < stepCount
        /\ IsMinElementBy(pool, second, condition, toProcess, b)
    BY DEF MinStep
  <1>3. /\ stepCount \in Nat /\ step \in 0 .. stepCount
        /\ maxSteps \in [0 .. (stepCount - 2) -> StepResults]
        /\ minSteps \in [0 .. (stepCount - 1) -> StepResults]
    <2>1. StepCountFor(enabled, EvalStepCount) \in Nat
      BY <1>1, BinsFinite, EvalStepCountAssumption DEF StepCountFor, OuterInv
    <2> QED BY <1>1, <2>1 DEF CountInv
  <1>4. step \in DOMAIN minSteps
    BY <1>2, <1>3
  <1>5. /\ second = {evalBin} \cup BinsBefore(maxSteps, step)
        /\ condition = BinsBefore(minSteps, step)
        /\ condition \in SUBSET Bins /\ second \in SUBSET Bins
        /\ toProcess \in {last, background}
        /\ background = enabled \ BinsBefore(minSteps, step)
    BY <1>1, <1>2 DEF LocalsInv
  <1>6. \A x : BinValue(pool, second, condition, x)
                 = MinValue(pool, evalBin, maxSteps, minSteps, step, x)
    BY <1>5 DEF BinValue, MinValue
  <1>7. toProcess \subseteq enabled /\ enabled \subseteq Bins /\ pool \in Pools
    BY <1>1, <1>5 DEF OuterInv
  <1>8. /\ b \in toProcess
        /\ \A x \in toProcess :
             \/ BinValue(pool, second, condition, x) > c
             \/ BinValue(pool, second, condition, x) = c
    BY <1>2 DEF IsMinElementBy
  <1>9. ASSUME NEW x \in Bins
        PROVE  /\ BinValue(pool, second, condition, x) \in Nat
               /\ BinValue(pool, second, condition, x) < ResetValue
    <2>1. condition \cup {x} \in SUBSET Bins
      BY <1>5
    <2> QED BY <1>5, <1>7, <2>1, CmiBounds DEF BinValue
  <1>10. \A x \in toProcess :
           /\ MinValue(pool, evalBin, maxSteps, minSteps, step, x) \in Nat
           /\ MinValue(pool, evalBin, maxSteps, minSteps, step, x) >= c
    <2> SUFFICES ASSUME NEW x \in toProcess
                 PROVE  /\ BinValue(pool, second, condition, x) \in Nat
                        /\ BinValue(pool, second, condition, x) >= c
      BY <1>6
    <2>1. BinValue(pool, second, condition, x) \in Nat /\ c \in Nat
      BY <1>7, <1>9
    <2> HIDE DEF c
    <2> QED BY <1>8, <2>1
  <1>11. c = MinValue(pool, evalBin, maxSteps, minSteps, step, b) /\ c \in Nat /\ c < ResetValue
    BY <1>6, <1>9
  <1>12. b \in enabled \ BinsBefore(minSteps, step)
    <2>1. CASE toProcess = background
      BY <1>5, <1>8, <2>1
    <2>2. CASE toProcess = last /\ MinOK(pool, evalBin, Old, maxSteps, minSteps)
      <3>1. \A j \in DOMAIN minSteps : minSteps[j].bin = -1 \/ minSteps[j].bin \in Old
        BY <2>2 DEF MinOK, MinStepOK, UnsetMin, ResetMin
      <3>2. b # -1
        BY FeatureSetAssumption DEF Bins, AllBinIndexes
      <3>3. b \notin Old
        BY <1>8, <2>2 DEF Old
      <3> QED BY <1>7, <1>8, <3>1, <3>2, <3>3 DEF BinsBefore
    <2> QED BY <1>1, <1>2, <1>5, <2>1, <2>2 DEF SlotInv
  <1> QED BY <1>1, <1>2, <1>3, <1>4, <1>10, <1>11, <1>12

\* After a minimizing step the calculator holds the steps made so far.
LEMMA MinStepSecondVariable ==
  ASSUME NEW n \in Nat, NEW mx \in [0 .. (n - 2) -> StepResults], NEW k \in 0 .. (n - 1),
         NEW e, NEW S, S = {e} \cup BinsBefore(mx, k)
  PROVE  MinStepSecond(mx, k, S) = {e} \cup BinsBefore(mx, k + 1)
  <1>1. CASE k \in DOMAIN mx
    <2>1. BinsBefore(mx, k + 1) = BinsBefore(mx, k) \cup {mx[k].bin}
      BY <1>1, BinsBeforeNext
    <2> QED BY <1>1, <2>1 DEF MinStepSecond
  <1>2. CASE k \notin DOMAIN mx
    <2>1. {j \in DOMAIN mx : j < k + 1} = {j \in DOMAIN mx : j < k}
      BY <1>2
    <2>2. BinsBefore(mx, k + 1) = BinsBefore(mx, k)
      BY <2>1 DEF BinsBefore
    <2> QED BY <1>2, <2>2 DEF MinStepSecond
  <1> QED BY <1>1, <1>2

\* A step that is worse for the evaluated bin is stored and the later ones
\* are reset; from here on all enabled bins are looked at.
LEMMA MinStepImprovedIInv ==
  ASSUME IInv, NEW b \in Bins, MinStep(b),
         MinImproves(minSteps, step, BinValue(pool, second, condition, b))
  PROVE  IInv'
  <1>0. PICK c : c = BinValue(pool, second, condition, b)
    OBVIOUS
  <1>1. /\ OuterInv /\ CountInv /\ LocalsInv /\ SlotInv /\ GreedyInv
        /\ pc = "min" /\ stepCount \in Nat /\ step \in DOMAIN minSteps
        /\ maxSteps \in [0 .. (stepCount - 2) -> StepResults]
        /\ minSteps \in [0 .. (stepCount - 1) -> StepResults]
        /\ c = MinValue(pool, evalBin, maxSteps, minSteps, step, b)
        /\ c \in Nat /\ c < ResetValue
        /\ b \in enabled \ BinsBefore(minSteps, step)
        /\ \A x \in toProcess :
             /\ MinValue(pool, evalBin, maxSteps, minSteps, step, x) \in Nat
             /\ MinValue(pool, evalBin, maxSteps, minSteps, step, x) >= c
    BY <1>0, MinStepFacts
  <1>2. /\ minSteps' = StoreAndReset(minSteps, step, [bin |-> b, cmi |-> c], ResetMin)
        /\ toProcess' = background \ {minSteps'[step].bin}
        /\ background' = background \ {minSteps'[step].bin}
        /\ condition' = condition \cup {minSteps'[step].bin}
        /\ second' = MinStepSecond(maxSteps, step, second)
        /\ step' = step + 1
        /\ c < minSteps[step].cmi
    BY <1>0 DEF MinStep, MinStepMin, MinStepToProcess, MinImproves
  <1>3. /\ pool' = pool /\ evalBin' = evalBin /\ enabled' = enabled /\ last' = last
        /\ maxSteps' = maxSteps /\ score' = score /\ pc' = pc
        /\ stepCount' = stepCount /\ initialSteps' = initialSteps
    BY DEF MinStep, input, selection
  <1>4. [bin |-> b, cmi |-> c] \in StepResults
    BY <1>1 DEF StepResults
  <1>5. /\ minSteps' \in [0 .. (stepCount - 1) -> StepResults]
        /\ minSteps'[step].bin = b /\ minSteps'[step].cmi = c
        /\ \A j \in 0 .. (stepCount - 1) :
             /\ j < step => minSteps'[j] = minSteps[j]
             /\ j > step => minSteps'[j] = ResetMin
    <2>1. step \in 0 .. (stepCount - 1) /\ ResetMin \in StepResults
      BY <1>1, Sentinels
    <2>2. minSteps' \in [0 .. (stepCount - 1) -> StepResults]
      BY <1>1, <1>2, <1>4, <2>1 DEF StoreAndReset
    <2>3. minSteps'[step].bin = b /\ minSteps'[step].cmi = c
      BY <1>1, <1>2, <2>1 DEF StoreAndReset
    <2>4. \A j \in 0 .. (stepCount - 1) :
             /\ j < step => minSteps'[j] = minSteps[j]
             /\ j > step => minSteps'[j] = ResetMin
      BY <1>1, <1>2, <2>1 DEF StoreAndReset
    <2> QED BY <2>2, <2>3, <2>4
  <1>6. ASSUME NEW j \in DOMAIN minSteps, j <= step
        PROVE  Agree(minSteps, minSteps', j) /\ Agree(maxSteps, maxSteps, j)
    BY <1>1, <1>5, <1>6 DEF Agree
  <1>7. /\ background = enabled \ BinsBefore(minSteps, step)
        /\ second = {evalBin} \cup BinsBefore(maxSteps, step)
        /\ condition = BinsBefore(minSteps, step) /\ toProcess \in {last, background}
        /\ background \in SUBSET Bins /\ condition \in SUBSET Bins /\ second \in SUBSET Bins
    BY <1>1 DEF LocalsInv
  <1>8. step \in Int /\ step >= 0 /\ step < stepCount /\ stepCount - 1 \in Int
    BY <1>1
  <1>9. BinsBefore(minSteps', step) = BinsBefore(minSteps, step)
    BY <1>1, <1>6, <1>8, AgreeBins
  <1>10. BinsBefore(minSteps', step + 1) = BinsBefore(minSteps, step) \cup {b}
    <2>1. DOMAIN minSteps' = 0 .. (stepCount - 1) /\ step \in DOMAIN minSteps'
      BY <1>1, <1>5
    <2>2. BinsBefore(minSteps', step + 1) = BinsBefore(minSteps', step) \cup {minSteps'[step].bin}
      BY <1>8, <2>1, BinsBeforeNext
    <2> QED BY <1>5, <1>9, <2>2
  <1>11. /\ background' = enabled \ BinsBefore(minSteps', step + 1)
         /\ toProcess' = background'
         /\ condition' = BinsBefore(minSteps', step + 1)
         /\ background' \in SUBSET Bins /\ condition' \in SUBSET Bins
    BY <1>1, <1>2, <1>5, <1>7, <1>10
  <1>12. /\ second' = {evalBin} \cup BinsBefore(maxSteps, step + 1)
         /\ second' \in SUBSET Bins
    <2>1. second' = {evalBin} \cup BinsBefore(maxSteps, step + 1)
      <3>1. /\ stepCount \in Nat /\ step \in 0 .. (stepCount - 1)
            /\ maxSteps \in [0 .. (stepCount - 2) -> StepResults]
        BY <1>1
      <3> QED BY <1>2, <1>7, <3>1, MinStepSecondVariable
    <2>2. \A k \in DOMAIN maxSteps : maxSteps[k].bin \in Bins
      <3>1. AllSet(maxSteps)
        BY <1>1 DEF SlotInv
      <3> QED BY <1>1, <3>1 DEF AllSet, StepResults
    <2>3. BinsBefore(maxSteps, step + 1) \subseteq Bins
      BY <2>2 DEF BinsBefore
    <2> QED BY <1>1, <2>1, <2>3 DEF OuterInv
  <1>13. MinOK(pool, evalBin, enabled, maxSteps, minSteps')
    <2> SUFFICES ASSUME NEW j \in DOMAIN minSteps'
                 PROVE  MinStepOK(pool, evalBin, enabled, maxSteps, minSteps', j)
      BY DEF MinOK
    <2>1. CASE j < step
      <3>1. MinStepOK(pool, evalBin, enabled, maxSteps, minSteps, j)
        BY <1>1, <1>5 DEF SlotInv, MinOK
      <3>2. /\ Agree(minSteps, minSteps', j) /\ Agree(maxSteps, maxSteps, j)
            /\ minSteps[j] = minSteps'[j]
        BY <1>1, <1>5, <1>6, <1>8, <2>1
      <3> QED BY <3>1, <3>2, MinTransfer
    <2>2. CASE j = step
      <3>1. SetBelow(minSteps, step)
        BY <1>1 DEF SlotInv
      <3>2. \A i \in DOMAIN minSteps' : i < j => minSteps'[i].bin # -1
        BY <1>1, <1>5, <2>2, <3>1 DEF SetBelow
      <3>3. minSteps'[j].cmi = MinValue(pool, evalBin, maxSteps, minSteps', j, minSteps'[j].bin)
        BY <1>1, <1>5, <1>9, <2>2 DEF MinValue
      <3> QED BY <1>1, <1>5, <1>9, <2>2, <3>2, <3>3 DEF MinStepOK
    <2>3. CASE j > step
      BY <1>5, <2>3 DEF MinStepOK
    <2> QED BY <1>5, <1>8, <2>1, <2>2, <2>3
  <1>14. OuterInv'
    BY <1>1, <1>3 DEF OuterInv
  <1>15. CountInv'
    BY <1>1, <1>2, <1>3, <1>5, <1>8 DEF CountInv
  <1>16. LocalsInv'
    BY <1>1, <1>2, <1>3, <1>8, <1>11, <1>12 DEF LocalsInv
  <1>17. SlotInv'
    <2>1. /\ AllSet(maxSteps) /\ SetBelow(minSteps, step)
          /\ MaxOK(pool, evalBin, enabled, maxSteps)
      BY <1>1 DEF SlotInv
    <2>2. b # -1
      BY FeatureSetAssumption DEF Bins, AllBinIndexes
    <2>3. SetBelow(minSteps', step + 1)
      BY <1>1, <1>5, <1>8, <2>1, <2>2 DEF SetBelow
    <2> QED BY <1>1, <1>2, <1>3, <1>11, <1>13, <2>1, <2>3 DEF SlotInv
  <1>18. GreedyInv'
    <2>0. ~Grown => AllMaxGreedy(pool, evalBin, enabled, maxSteps)
      BY <1>1 DEF GreedyInv
    <2> SUFFICES ASSUME ~Grown, NEW k \in DOMAIN minSteps', k < step + 1
                 PROVE  MinGreedy(pool, evalBin, enabled, maxSteps, minSteps', k)
      BY <1>1, <1>2, <1>3, <1>11, <2>0 DEF GreedyInv, Grown
    <2>1. CASE k < step
      <3>1. MinGreedy(pool, evalBin, enabled, maxSteps, minSteps, k)
        BY <1>1, <1>5, <2>1 DEF GreedyInv
      <3>2. /\ Agree(minSteps, minSteps', k) /\ Agree(maxSteps, maxSteps, k)
            /\ minSteps[k] = minSteps'[k]
        BY <1>1, <1>5, <1>6, <1>8, <2>1
      <3> QED BY <3>1, <3>2, MinTransfer
    <2>2. CASE k = step
      <3> SUFFICES ASSUME NEW x \in enabled \ BinsBefore(minSteps, step)
                   PROVE  MinValue(pool, evalBin, maxSteps, minSteps, step, x) >= c
        BY <1>5, <1>9, <2>2 DEF MinGreedy, MinValue
      <3>1. CASE x \in toProcess
        BY <1>1, <3>1
      <3>2. CASE x \notin toProcess
        <4>1. x \in Old \ BinsBefore(minSteps, step) /\ toProcess # background
          BY <1>7, <3>2 DEF Old
        <4>2. AllMinGreedy(pool, evalBin, Old, maxSteps, minSteps)
          BY <1>1, <4>1 DEF GreedyInv
        <4>3. MinValue(pool, evalBin, maxSteps, minSteps, step, x) >= minSteps[step].cmi
          BY <1>1, <4>1, <4>2 DEF AllMinGreedy, MinGreedy
        <4>4. MinValue(pool, evalBin, maxSteps, minSteps, step, x) \in Nat
          <5>1. pool \in Pools /\ condition \cup {x} \in SUBSET Bins
            BY <1>1, <1>7 DEF OuterInv
          <5> QED BY <1>7, <5>1, CmiBounds DEF MinValue
        <4>5. minSteps[step].cmi \in Int
          BY <1>1 DEF StepResults
        <4> QED BY <1>1, <1>2, <4>3, <4>4, <4>5
      <3> QED BY <3>1, <3>2
    <2> QED BY <1>5, <1>8, <2>1, <2>2
  <1> QED BY <1>14, <1>15, <1>16, <1>17, <1>18 DEF IInv

\* The cached step still is a worst one: its bin leaves both backgrounds.
LEMMA MinStepKeptIInv ==
  ASSUME IInv, NEW b \in Bins, MinStep(b),
         ~MinImproves(minSteps, step, BinValue(pool, second, condition, b))
  PROVE  IInv'
  <1>0. PICK c : c = BinValue(pool, second, condition, b)
    OBVIOUS
  <1>1. /\ OuterInv /\ CountInv /\ LocalsInv /\ SlotInv /\ GreedyInv
        /\ pc = "min" /\ stepCount \in Nat /\ step \in DOMAIN minSteps
        /\ maxSteps \in [0 .. (stepCount - 2) -> StepResults]
        /\ minSteps \in [0 .. (stepCount - 1) -> StepResults]
        /\ c \in Nat /\ c < ResetValue
        /\ \A x \in toProcess :
             /\ MinValue(pool, evalBin, maxSteps, minSteps, step, x) \in Nat
             /\ MinValue(pool, evalBin, maxSteps, minSteps, step, x) >= c
    BY <1>0, MinStepFacts
  <1>2. PICK d : d = minSteps[step].bin
    OBVIOUS
  <1>3. /\ minSteps' = minSteps
        /\ toProcess' = toProcess \ {d} /\ background' = background \ {d}
        /\ condition' = condition \cup {d}
        /\ second' = MinStepSecond(maxSteps, step, second)
        /\ step' = step + 1
        /\ ~(c < minSteps[step].cmi)
    BY <1>0, <1>2 DEF MinStep, MinStepMin, MinStepToProcess, MinImproves
  <1>4. /\ pool' = pool /\ evalBin' = evalBin /\ enabled' = enabled /\ last' = last
        /\ maxSteps' = maxSteps /\ score' = score /\ pc' = pc
        /\ stepCount' = stepCount /\ initialSteps' = initialSteps
    BY DEF MinStep, input, selection
  <1>5. /\ background = enabled \ BinsBefore(minSteps, step)
        /\ second = {evalBin} \cup BinsBefore(maxSteps, step)
        /\ condition = BinsBefore(minSteps, step) /\ toProcess \in {last, background}
        /\ background \in SUBSET Bins /\ condition \in SUBSET Bins /\ second \in SUBSET Bins
        /\ toProcess \in SUBSET Bins
    BY <1>1 DEF LocalsInv
  <1>6. step \in Int /\ step >= 0 /\ step < stepCount /\ stepCount - 1 \in Int
    BY <1>1
  <1>7. minSteps[step] # UnsetMin /\ minSteps[step] # ResetMin
    <2>1. minSteps[step].cmi \in Int
      BY <1>1 DEF StepResults
    <2>2. minSteps[step].cmi < ResetValue
      BY <1>1, <1>3, <2>1, Sentinels
    <2>3. UnsetMin.cmi \in Int
      BY DEF UnsetMin
    <2> QED BY <2>1, <2>2, <2>3, Sentinels
  <1>8. d \in enabled /\ d \in Bins /\ d # -1
    <2>1. d \in enabled
      BY <1>1, <1>2, <1>7 DEF SlotInv, MinOK, MinStepOK
    <2> QED BY <1>1, <2>1, FeatureSetAssumption DEF Bins, AllBinIndexes, OuterInv
  <1>9. BinsBefore(minSteps, step + 1) = BinsBefore(minSteps, step) \cup {d}
    BY <1>1, <1>2, <1>6, BinsBeforeNext
  <1>10. /\ background' = enabled \ BinsBefore(minSteps, step + 1)
         /\ condition' = BinsBefore(minSteps, step + 1)
         /\ background' \in SUBSET Bins /\ condition' \in SUBSET Bins
         /\ toProcess' \in SUBSET Bins
    BY <1>3, <1>5, <1>8, <1>9
  <1>11. /\ toProcess = background => toProcess' = background'
         /\ MinOK(pool, evalBin, Old, maxSteps, minSteps) /\ toProcess = last => toProcess' = last
    <2>1. MinOK(pool, evalBin, Old, maxSteps, minSteps) => d \in Old
      BY <1>1, <1>2, <1>7 DEF MinOK, MinStepOK
    <2> QED BY <1>3, <2>1 DEF Old
  <1>12. /\ second' = {evalBin} \cup BinsBefore(maxSteps, step + 1)
         /\ second' \in SUBSET Bins
    <2>1. second' = {evalBin} \cup BinsBefore(maxSteps, step + 1)
      <3>1. /\ stepCount \in Nat /\ step \in 0 .. (stepCount - 1)
            /\ maxSteps \in [0 .. (stepCount - 2) -> StepResults]
        BY <1>1
      <3> QED BY <1>3, <1>5, <3>1, MinStepSecondVariable
    <2>2. \A k \in DOMAIN maxSteps : maxSteps[k].bin \in Bins
      <3>1. AllSet(maxSteps)
        BY <1>1 DEF SlotInv
      <3> QED BY <1>1, <3>1 DEF AllSet, StepResults
    <2>3. BinsBefore(maxSteps, step + 1) \subseteq Bins
      BY <2>2 DEF BinsBefore
    <2> QED BY <1>1, <2>1, <2>3 DEF OuterInv
  <1>13. OuterInv'
    BY <1>1, <1>4 DEF OuterInv
  <1>14. CountInv'
    BY <1>1, <1>3, <1>4, <1>6 DEF CountInv
  <1>15. \/ toProcess = background
         \/ toProcess = last /\ MinOK(pool, evalBin, Old, maxSteps, minSteps)
    BY <1>1, <1>5 DEF SlotInv
  <1>16. LocalsInv'
    BY <1>1, <1>3, <1>4, <1>6, <1>10, <1>11, <1>12, <1>15 DEF LocalsInv
  <1>17. Old' = Old
    BY <1>4 DEF Old
  <1>18. SlotInv'
    <2>1. /\ AllSet(maxSteps) /\ SetBelow(minSteps, step)
          /\ MaxOK(pool, evalBin, enabled, maxSteps)
          /\ MinOK(pool, evalBin, enabled, maxSteps, minSteps)
      BY <1>1 DEF SlotInv
    <2>2. SetBelow(minSteps, step + 1)
      BY <1>1, <1>2, <1>6, <1>8, <2>1 DEF SetBelow
    <2> QED BY <1>1, <1>3, <1>4, <1>11, <1>15, <1>17, <2>1, <2>2 DEF SlotInv
  <1>19. GreedyInv'
    <2> SUFFICES ASSUME ~Grown
                 PROVE  MinGreedy(pool, evalBin, enabled, maxSteps, minSteps, step)
      <3>1. \A k \in DOMAIN minSteps : k < step + 1 <=> k < step \/ k = step
        BY <1>1
      <3>2. ASSUME ~Grown
            PROVE  /\ AllMaxGreedy(pool, evalBin, enabled, maxSteps)
                   /\ \A k \in DOMAIN minSteps :
                        k < step => MinGreedy(pool, evalBin, enabled, maxSteps, minSteps, k)
                   /\ \/ toProcess = background
                      \/ AllMinGreedy(pool, evalBin, Old, maxSteps, minSteps)
        BY <1>1, <3>2 DEF GreedyInv
      <3> QED BY <1>1, <1>3, <1>4, <1>11, <1>17, <3>1, <3>2 DEF GreedyInv, Grown
    <2> SUFFICES ASSUME NEW x \in enabled \ BinsBefore(minSteps, step)
                 PROVE  MinValue(pool, evalBin, maxSteps, minSteps, step, x) >= minSteps[step].cmi
      BY DEF MinGreedy
    <2>1. CASE x \in toProcess
      <3>1. minSteps[step].cmi \in Int
        BY <1>1 DEF StepResults
      <3> QED BY <1>1, <1>3, <2>1, <3>1
    <2>2. CASE x \notin toProcess
      <3>1. x \in Old \ BinsBefore(minSteps, step) /\ toProcess # background
        BY <1>5, <2>2 DEF Old
      <3>2. AllMinGreedy(pool, evalBin, Old, maxSteps, minSteps)
        BY <1>1, <3>1 DEF GreedyInv
      <3> QED BY <1>1, <3>1, <3>2 DEF AllMinGreedy, MinGreedy
    <2> QED BY <2>1, <2>2
  <1> QED BY <1>13, <1>14, <1>16, <1>18, <1>19 DEF IInv

\* No step, and no stuttering, breaks the invariant.
LEMMA NextIInv == IInv /\ [Next]_vars => IInv'
  <1> SUFFICES ASSUME IInv, [Next]_vars PROVE IInv'
    OBVIOUS
  <1>1. CASE Begin
    BY <1>1, BeginIInv
  <1>2. ASSUME NEW b \in Bins, MaxStep(b) PROVE IInv'
    BY <1>2, MaxStepImprovedIInv, MaxStepKeptIInv
  <1>3. CASE StartMin
    BY <1>3, StartMinIInv
  <1>4. ASSUME NEW b \in Bins, MinStep(b) PROVE IInv'
    BY <1>4, MinStepImprovedIInv, MinStepKeptIInv
  <1>5. CASE Finish
    BY <1>5, FinishIInv
  <1>6. ASSUME NEW f \in AllFeatureIndexes(FeatureSet), EnableFeature(f) PROVE IInv'
    BY <1>6, EnableFeatureIInv
  <1>7. CASE UNCHANGED vars
    <2>1. /\ pool' = pool /\ evalBin' = evalBin /\ enabled' = enabled /\ last' = last
          /\ maxSteps' = maxSteps /\ minSteps' = minSteps /\ score' = score /\ pc' = pc
          /\ stepCount' = stepCount /\ step' = step /\ initialSteps' = initialSteps
          /\ background' = background /\ toProcess' = toProcess
          /\ second' = second /\ condition' = condition
      BY <1>7 DEF vars, input, selection, slot, locals
    <2>2. OuterInv' /\ CountInv' /\ LocalsInv'
      BY <2>1 DEF IInv, OuterInv, CountInv, LocalsInv
    <2>3. SlotInv'
      BY <2>1 DEF IInv, SlotInv, Old
    <2>4. GreedyInv'
      BY <2>1 DEF IInv, GreedyInv, Grown, Old, SlotIsGreedy
    <2> QED BY <2>2, <2>3, <2>4 DEF IInv
  <1> QED BY <1>1, <1>2, <1>3, <1>4, <1>5, <1>6, <1>7 DEF Next, Evaluation

\* The inductive invariant holds in every reachable state.
THEOREM Invariance == Spec => []IInv
  <1>1. Init => IInv
    BY InitIInv
  <1>2. IInv /\ [Next]_vars => IInv'
    BY NextIInv
  <1> QED BY <1>1, <1>2, PTL DEF Spec

-----------------------------------------------------------------------------
(***************************************************************************)
(* What the invariant gives.                                               *)
(***************************************************************************)
\* The vectors of the slot always have the lengths of the last call and hold
\* bins of the feature set.
THEOREM TypeCorrect == Spec => []TypeOK
  <1>1. IInv => TypeOK
    <2> SUFFICES ASSUME IInv PROVE TypeOK
      OBVIOUS
    <2>1. StepCountFor(enabled, EvalStepCount) \in 1 .. EvalStepCount
      BY StepCounts DEF IInv, OuterInv
    <2>2. /\ stepCount \in 0 .. EvalStepCount /\ initialSteps \in 0 .. EvalStepCount
          /\ step \in 0 .. EvalStepCount
      <3>1. PICK n : n = StepCountFor(enabled, EvalStepCount)
        OBVIOUS
      <3>2. stepCount \in 0 .. n /\ initialSteps \in 0 .. stepCount /\ step \in 0 .. stepCount
        BY <3>1 DEF IInv, CountInv
      <3>3. n \in Nat /\ n <= EvalStepCount /\ EvalStepCount \in Nat
        BY <2>1, <3>1, EvalStepCountAssumption
      <3> QED BY <3>2, <3>3
    <2> QED BY <2>2 DEF IInv, OuterInv, CountInv, LocalsInv, TypeOK
  <1> QED BY <1>1, Invariance, PTL

\* The invariant implies ChecksHold.
LEMMA ChecksFromIInv == IInv => ChecksHold
  <1> SUFFICES ASSUME IInv PROVE ChecksHold
    OBVIOUS
  <1>1. /\ evalBin \in Bins /\ enabled \in SUBSET Bins /\ evalBin \notin enabled
        /\ last \in SUBSET enabled /\ last # {} /\ pool \in Pools
    BY DEF IInv, OuterInv
  <1>2. /\ Cardinality(enabled) \in Nat /\ IsFiniteSet(enabled)
        /\ StepCountFor(enabled, EvalStepCount) \in Nat
        /\ StepCountFor(enabled, EvalStepCount) <= Cardinality(enabled)
    BY <1>1, BinsFinite, StepCounts
  <1>3. /\ stepCount \in Nat /\ step \in Nat /\ stepCount <= Cardinality(enabled)
        /\ maxSteps \in [0 .. (stepCount - 2) -> StepResults]
        /\ minSteps \in [0 .. (stepCount - 1) -> StepResults]
    BY <1>2 DEF IInv, CountInv
  <1>4. ~NotEnoughBins(enabled \cup {evalBin}, StepCountFor(enabled, EvalStepCount))
    <2>1. Cardinality(enabled \cup {evalBin}) = Cardinality(enabled) + 1
      BY <1>1, <1>2, FS_AddElement
    <2> QED BY <1>2, <2>1 DEF NotEnoughBins
  <1>5. ASSUME pc = "max", step < stepCount - 1
        PROVE  MaxCandidates(toProcess, maxSteps, step) # {}
    <2>1. CASE toProcess = background
      <3>1. enabled \ BinsBefore(maxSteps, step) # {}
        <4>1. step < Cardinality(enabled)
          BY <1>2, <1>3, <1>5
        <4>2. stepCount - 2 \in Int /\ DOMAIN maxSteps = 0 .. (stepCount - 2)
          BY <1>3
        <4> QED BY <1>1, <1>3, <4>1, <4>2, BinsLeft
      <3> QED BY <1>5, <2>1, <3>1 DEF MaxCandidates, IInv, LocalsInv
    <2>2. CASE toProcess = last /\ MaxOK(pool, evalBin, Old, maxSteps)
      <3>1. \A j \in DOMAIN maxSteps :
              maxSteps[j].bin = -1 \/ maxSteps[j].bin \in Old \cup {evalBin}
        BY <2>2 DEF MaxOK, MaxStepOK, UnsetMax
      <3>2. -1 \notin Bins
        BY FeatureSetAssumption DEF Bins, AllBinIndexes
      <3>3. \A j \in DOMAIN maxSteps : maxSteps[j].bin \notin last
        BY <1>1, <3>1, <3>2 DEF Old
      <3> QED BY <1>1, <2>2, <3>3 DEF MaxCandidates, BinsBefore
    <2> QED BY <1>5, <2>1, <2>2 DEF IInv, SlotInv
  <1>6. ASSUME pc = "min", step < stepCount PROVE toProcess # {}
    <2>1. enabled \ BinsBefore(minSteps, step) # {}
      <3>1. step < Cardinality(enabled)
        BY <1>2, <1>3, <1>6
      <3>2. stepCount - 1 \in Int /\ DOMAIN minSteps = 0 .. (stepCount - 1)
        BY <1>3
      <3> QED BY <1>1, <1>3, <3>1, <3>2, BinsLeft
    <2> QED BY <1>1, <1>6, <2>1 DEF IInv, LocalsInv
  <1> QED BY <1>4, <1>5, <1>6 DEF ChecksHold

\* The throw and the two Y_VERIFY of Evaluate never happen: a helper that is
\* taken out of the candidates is never one of the bins enabled last, and as
\* many bins as there are steps are enabled.
THEOREM ChecksAlwaysHold == Spec => []ChecksHold
  BY ChecksFromIInv, Invariance, PTL

\* The invariant implies HelpersDistinct.
LEMMA HelpersFromIInv == IInv => HelpersDistinct
  <1> SUFFICES ASSUME IInv PROVE HelpersDistinct
    OBVIOUS
  <1>1. MaxOK(pool, evalBin, enabled, maxSteps)
    BY DEF IInv, OuterInv, SlotInv, Old, MaxOK, MaxStepOK
  <1>2. MinOK(pool, evalBin, enabled, maxSteps, minSteps)
    BY DEF IInv, OuterInv, SlotInv, Old, MinOK, MinStepOK
  <1>3. DOMAIN maxSteps \subseteq Int /\ DOMAIN minSteps \subseteq Int
    BY DEF IInv, CountInv
  <1>4. ASSUME NEW i \in DOMAIN maxSteps, NEW j \in DOMAIN maxSteps, i < j,
               maxSteps[j].bin # -1
        PROVE  maxSteps[i].bin # maxSteps[j].bin
    BY <1>1, <1>4 DEF MaxOK, MaxStepOK, UnsetMax, BinsBefore
  <1>5. ASSUME NEW i \in DOMAIN minSteps, NEW j \in DOMAIN minSteps, i < j,
               minSteps[j].bin # -1
        PROVE  minSteps[i].bin # minSteps[j].bin
    BY <1>2, <1>5 DEF MinOK, MinStepOK, UnsetMin, ResetMin, BinsBefore
  <1> QED BY <1>3, <1>4, <1>5 DEF HelpersDistinct

\* No bin is used twice by the helpers or twice by the minimizing steps.
THEOREM HelpersAreDistinct == Spec => []HelpersDistinct
  BY HelpersFromIInv, Invariance, PTL

\* The invariant implies CacheCurrent.
LEMMA CacheFromIInv == IInv => CacheCurrent
  <1> SUFFICES ASSUME IInv, pc = "done" PROVE CacheCurrent
    BY DEF CacheCurrent
  <1>1. /\ AllSet(maxSteps) /\ AllSet(minSteps)
        /\ MaxOK(pool, evalBin, enabled, maxSteps)
        /\ MinOK(pool, evalBin, enabled, maxSteps, minSteps)
        /\ score = minSteps[stepCount - 1].cmi
    BY DEF IInv, SlotInv
  <1>2. \A k \in DOMAIN maxSteps :
          /\ maxSteps[k].bin \in enabled \cup {evalBin}
          /\ maxSteps[k].cmi = MaxValue(pool, evalBin, maxSteps, k, maxSteps[k].bin)
    BY <1>1 DEF AllSet, MaxOK, MaxStepOK, UnsetMax
  <1>3. \A k \in DOMAIN minSteps :
          /\ minSteps[k].bin \in enabled
          /\ minSteps[k].cmi = MinValue(pool, evalBin, maxSteps, minSteps, k, minSteps[k].bin)
    BY <1>1 DEF AllSet, MinOK, MinStepOK, UnsetMin, ResetMin
  <1> QED BY <1>1, <1>2, <1>3 DEF CacheCurrent

\* When Evaluate returns no cached value is stale.
THEOREM CacheIsCurrent == Spec => []CacheCurrent
  BY CacheFromIInv, Invariance, PTL

\* The invariant implies GreedyUnlessGrown.
LEMMA GreedyFromIInv == IInv => GreedyUnlessGrown
  BY DEF IInv, GreedyInv, Grown, GreedyUnlessGrown

\* While the number of steps does not grow, looking only at the bins enabled
\* last loses nothing.
THEOREM GreedyResults == Spec => []GreedyUnlessGrown
  BY GreedyFromIInv, Invariance, PTL

=============================================================================
