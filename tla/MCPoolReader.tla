----------------------------- MODULE MCPoolReader -----------------------------
EXTENDS PoolReader

\* All files of up to five lines with one or two columns or a malformed token.
MCFiles == UNION {[1 .. n -> {Malformed, 1, 2}] : n \in 0 .. 5}

=============================================================================
