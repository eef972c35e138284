---------------------------- MODULE BinFeatureSet ----------------------------
(***************************************************************************)
(* TBinFeatureSet and TBackground (cmicot/lib/bin_feature_set.h and .cpp)  *)
(* as values.                                                              *)
(*                                                                         *)
(* A feature set is the number of its bins and the vector FeatureStart;    *)
(* the contents of a bin (one bit per example) belong to the pool and are  *)
(* seen only through the conditional mutual information of module          *)
(* Evaluate.  Indexes are 0-based, as in the code, so that start[f + 1] is *)
(* FeatureStart[f].                                                        *)
(*                                                                         *)
(* A background is the set of its enabled bins (IsBinEnabled) and the set  *)
(* first..second-1 of the pair LastEnabledBins.                            *)
(***************************************************************************)
EXTENDS Integers, Sequences, FiniteSets

\* The elements of a set of numbers, in increasing order.
Ascending(S) ==
  [i \in 1 .. Cardinality(S) |-> CHOOSE x \in S : Cardinality({y \in S : y <= x}) = i]

-----------------------------------------------------------------------------
\* TBinFeatureSet

\* TBinFeatureSet(): no bin, no feature.
DefaultFeatureSet == [binCount |-> 0, start |-> <<>>]

\* TBinFeatureSet(bins): one feature that holds every bin.
FeatureSetOfBins(n) == [binCount |-> n, start |-> <<0>>]

\* AddFeature of a feature with n bins.
AddFeature(fs, n) ==
  [binCount |-> fs.binCount + n, start |-> Append(fs.start, fs.binCount)]

\* AddFeature of features with these numbers of bins, one after the other.
AddFeatures(sizes) ==
  LET fs[k \in 0 .. Len(sizes)] ==
        IF k = 0 THEN DefaultFeatureSet ELSE AddFeature(fs[k - 1], sizes[k])
  IN  fs[Len(sizes)]

GetFeatureCount(fs) == Len(fs.start)

AllBinIndexes(fs) == 0 .. (fs.binCount - 1)

AllFeatureIndexes(fs) == 0 .. (GetFeatureCount(fs) - 1)

\* The bins of feature f: up to the start of the next feature, and for the
\* last feature up to the end of Bins.
GetFeatureBinIndexes(fs, f) ==
  fs.start[f + 1] .. ((IF f < GetFeatureCount(fs) - 1 THEN fs.start[f + 2]
                                                      ELSE fs.binCount) - 1)

\* Mutant: UpperBound, the elements that are not greater than x.
LowerBoundAsUpperBound(s, x) == Cardinality({i \in DOMAIN s : \A j \in 1..i : s[j] <= x})

\* LowerBound(s.begin(), s.end(), x) - s.begin(), for a sorted vector: the
\* elements before the first one that is not less than x.
LowerBound(s, x) == Cardinality({i \in DOMAIN s : \A j \in 1..i : s[j] < x})

GetFeatureIndexByBinIndex(fs, b) == LowerBound(fs.start, b + 1) - 1

-----------------------------------------------------------------------------
\* TBackground

NewBackground(fs) == [enabled |-> AllBinIndexes(fs), last |-> {}]

\* Mutant: the bins are enabled but LastEnabledBins is not updated.
SetFeatureEnabledKeepsLast(fs, bg, f, on) ==
  LET range == GetFeatureBinIndexes(fs, f)
  IN  [enabled |-> IF on THEN bg.enabled \cup range ELSE bg.enabled \ range, last |-> bg.last]

SetFeatureEnabled(fs, bg, f, on) ==
  LET range == GetFeatureBinIndexes(fs, f)
  IN  IF on THEN [enabled |-> bg.enabled \cup range, last |-> range]
            ELSE [enabled |-> bg.enabled \ range, last |-> bg.last]

SetBinEnabled(bg, b, on) ==
  IF on THEN [enabled |-> bg.enabled \cup {b}, last |-> {b}]
        ELSE [enabled |-> bg.enabled \ {b}, last |-> bg.last]

\* DisableAll leaves LastEnabledBins alone.
DisableAll(bg) == [enabled |-> {}, last |-> bg.last]

EnabledAll(fs, bg) == [enabled |-> AllBinIndexes(fs), last |-> bg.last]

EnabledBinIndexes(bg) == bg.enabled

DisabledBinIndexes(fs, bg) == AllBinIndexes(fs) \ bg.enabled

IsFeatureEnabled(fs, bg, f) == GetFeatureBinIndexes(fs, f) \subseteq bg.enabled

EnabledFeatureIndexes(fs, bg) ==
  {f \in AllFeatureIndexes(fs) : IsFeatureEnabled(fs, bg, f)}

\* A background in which only the bins enabled by the last call are enabled.
LastEnabled(bg) == [enabled |-> bg.last, last |-> {}]

=============================================================================
