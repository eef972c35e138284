---------------------------- MODULE MCSelection ------------------------------
EXTENDS FeatureScore, PoolData

\* Four features: if the one of a single bin is the first, the number of steps
\* grows from 1 to 2, with any other it does not.
MCFeatureSet == AddFeatures(<<2, 1, 2, 2>>)
MCBins == 0 .. 6
MCSeeds == 7 .. 12

\* Five features of one bin: the number of steps grows from 1 to 2.
GrowingFeatureSet == AddFeatures(<<1, 1, 1, 1, 1>>)
GrowingBins == 0 .. 4
GrowingSeeds == {52}

\* The feature set of a map that names features 0 and 2 only.
GapFeatureSet == AddFeatures(<<1, 0, 1>>)
GapBins == 0 .. 1
GapSeeds == {1}

=============================================================================
