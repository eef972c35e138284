---------------------------- MODULE MCBinaryPool ------------------------------
EXTENDS BinaryPool

\* With Base = 2 the bins 2, 3 and 4 have two and three digits.
MCFeatureSizes == {<<1>>, <<2, 1>>, <<1, 1, 3>>, <<0, 2, 0, 1>>}
MCOldMaps == {NoFile, <<<<0, 0>>, <<0, 1>>, <<1, 2>>, <<2, 3>>, <<2, 4>>>>, <<<<0, 0>>>>}

\* All files of at most three lines.
MCOtherMaps == UNION {[1 .. n -> (0 .. 2) \X (0 .. 2)] : n \in 0 .. 3}

=============================================================================
