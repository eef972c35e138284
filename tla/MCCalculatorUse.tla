--------------------------- MODULE MCCalculatorUse ----------------------------
EXTENDS CalculatorUse

\* Two independent bins, one that depends on both, and one that separates a
\* single example.
MCBins == {<<0, 0, 1, 1>>, <<0, 1, 0, 1>>, <<0, 1, 1, 1>>, <<1, 0, 0, 0>>}

\* All labels of one to three bins, and one of more than fit.
MCLabels == UNION {[1 .. n -> MCBins] : n \in 1 .. 3} \cup {[i \in 1 .. 7 |-> <<0, 0, 1, 1>>]}

\* A label of two classes, which is one bin.
MCTwoClasses == {<<b>> : b \in MCBins}

=============================================================================
