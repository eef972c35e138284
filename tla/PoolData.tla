------------------------------ MODULE PoolData -------------------------------
(***************************************************************************)
(* Small pools for TLC and their conditional mutual information.           *)
(*                                                                         *)
(* With n examples, and c[i] the number of examples that agree with        *)
(* example i on the variables of interest,                                 *)
(*    n * H = n log n - SUM log c[i]    (i = 1..n)                         *)
(* which is the entropy the frequency counters of                          *)
(* cmicot/lib/entropy_calculator.cpp compute.  The logarithms are integers *)
(* built from fixed values of log 2, log 3, log 5 and log 7, so that two   *)
(* conditional mutual informations that are equal as real numbers are      *)
(* equal here as well.  At most 10 examples.                               *)
(***************************************************************************)
EXTENDS Integers, Sequences, FiniteSets

CONSTANTS
  PoolBins,      \* 0..n-1
  PoolSeeds,     \* the pools: seeds of their pseudo-random contents
  Examples,      \* number of examples, at most 10
  LabelValues    \* number of values of the label

\* 1000 * log2 of 1..10
Log == <<0, 1000, 1585, 2000, 2322, 2585, 2807, 3000, 3170, 3322>>

\* The pseudo-random contents of a pool: value i of the pool with this seed.
Random(seed, i) ==
  LET x == (seed * 7919 + i * 1237) % 10007
  IN  ((x * x) % 10007) \div 16

\* Example i seen through the label (or not) and the bins S.
Key(seed, i, withLabel, S) ==
  <<IF withLabel THEN Random(seed, i) % LabelValues ELSE 0,
    [b \in S |-> Random(seed, Examples * (b + 1) + i) % 2]>>

\* SUM log c[i], tabulated for every pool and every set of bins.
LogSum(seed, withLabel, S) ==
  LET agree(i) == {j \in 1 .. Examples :
                     Key(seed, j, withLabel, S) = Key(seed, i, withLabel, S)}
      sum[i \in 0 .. Examples] ==
        IF i = 0 THEN 0 ELSE sum[i - 1] + Log[Cardinality(agree(i))]
  IN  sum[Examples]

LogSums ==
  [k \in {<<seed, withLabel, S>> :
            seed \in PoolSeeds, withLabel \in BOOLEAN, S \in SUBSET PoolBins} |->
     LogSum(k[1], k[2], k[3])]

\* CMI(label; S | C), scaled by 1000 * Examples
PoolCmi(seed, S, C) ==
  LogSums[seed, FALSE, C] - LogSums[seed, TRUE, C]
    + LogSums[seed, TRUE, S \cup C] - LogSums[seed, FALSE, S \cup C]

=============================================================================
