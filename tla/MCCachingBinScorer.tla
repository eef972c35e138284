------------------------- MODULE MCCachingBinScorer --------------------------
EXTENDS CachingBinScorer, PoolData

\* Four features, of 3, 2, 1 and 1 bins.
MCFeatureSet == AddFeatures(<<3, 2, 1, 1>>)

MCBins == 0 .. 6
MCSeeds == 1 .. 8

=============================================================================
