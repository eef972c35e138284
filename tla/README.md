# CMICOT in TLA+

CMICOT ranks the features of a pool (a table of examples with a label) by
conditional mutual information.  Every feature is cut into *bins*, binary
columns; the program enables one feature after the other and chooses the next
one by the score of its best bin, given the bins enabled so far.

This directory holds TLA+ models of the parts of the program that are hard to
test, TLC configurations that check them on small instances, and proofs,
checked by TLAPS, of most of their safety properties for every instance.

## 1. Inventory

| component | source | state | operations | hard behaviour | what makes it correct |
|---|---|---|---|---|---|
| `TBinFeatureSet`, `TBackground` | `cmicot/lib/bin_feature_set.*` | bins and `FeatureStart`; enabled bins and the range enabled last | `AddFeature`, lookups; `SetFeatureEnabled`, `SetBinEnabled`, `DisableAll`, `EnabledAll`, `LastEnabled` | features without bins; `LastEnabledBins` survives `DisableAll` | features partition the bins, lookup finds the feature of a bin |
| `TCachingBinScorer` | `caching_bin_scorer.*` | a slot per bin: helpers (maximizing steps), minimizing steps, score | `Evaluate` | results of earlier rounds reused after the background has grown | cached steps are current, distinct, best ones; no internal check fails |
| `FastFeatureSelection` | `selection.cpp`, `algorithm.h`, `library/threading/algorithm` | background, ranking | rounds of parallel evaluation | pool threads read the background and write the cache without locks | private slots, stable background, complete ranking, termination |
| `FeatureSelection`, `GetBinScore`, `TParallelMiximizer` | `selection.cpp`, `bin_score.cpp`, `miximizers.cpp` | none that survives a call | the same ranking without a cache | - | the definition the fast selection is tested against |
| `TMtpQueue` | `util/thread/queue.cpp` | queue, two mutexes, three condition variables, `ShouldTerminate`, `ThreadCountReal` | `Start`, `Add`, `DoExecute`, `Stop` | lost wakeups, Stop racing Add, bounded queue | Stop drains the queue and returns; no job is lost or run twice |
| map file | `io.cpp`, `binarize.h` | the vector from bins to features | write, read, regroup | lines in any order, gaps, repetitions, a file that is cut | only complete maps are accepted, write and read are inverse |
| entropy and CMI calculators | `entropy_calculator.cpp`, `cmi_calculator.cpp`, `mutual_information_calculator.cpp` | one 64-bit word per example, number of bins | `AddBin`, `GetEntropy`, `GetValueWithConditionBin`, ... | width of the words, limit of 64 bins, two counters | the values are the information they stand for |
| reading a pool | `io.cpp` (`ReadPool`, `TBatchParser`) | batches and their futures | read, parse in parallel, join | batches parsed in any order, failing batches, a failing stream | the pool is the file, or the first error of the file |
| parallel loops | `library/threading/algorithm`, `legacy_future.h`, `util/thread/queue.cpp` (`TThreadImpl`) | reference counts, events, promised values | `ParallelForEach`: `Run`, `Execute`, `Join`, `Get` | completion is signalled in two steps; kernels that throw | no use after delete, results in order, the call ends |
| futures | `library/threading/future` | value or exception, callbacks, an event made on demand | `SetValue`, `SetException`, `GetValue`, `Wait`, `Subscribe` | readers without the lock, two setters, timeouts | set once, waiters wake, callbacks run once |
| export of a binarized pool | `binarize.cpp`, `io.cpp`, `cmicot/cmicot`, `util/stream` | two files, two buffers | `UniteLabelBins`, `OutputPool`, `OutputBinFeatureMap` | packing the label into an integer; failing writes, a crash between two files | label and features can be read back, or an error is reported |
| grid creator | `library/grid_creator` | layers of the dynamic program; a priority queue | the binarizers of `--binarization` | shortcuts of the dynamic program, ties, neighbouring floats, rounded results | optimal thresholds, no doubled border, no useless one but by rounding |
| feature scores | `feature_score.cpp`, `bin_score_normalize.cpp` | none | `GetCmimScore`, `GetFeatureScore` | positions and indexes confused | agree with the selection |
| options and main | `options.cpp`, `cmicot/cmicot` | none | command line | - | - |

How they interact: `main` reads a pool (raw: `ReadPool` and the grid creator;
binary: `ReadPool`, the map file and `BinarizeWithMap`) and calls
`FastFeatureSelection`.  In every round the selection starts a `TMtpQueue`,
submits one job per bin that is not enabled, destroys the queue, which waits
for the jobs, and takes the values from the futures.  A job is one call of
`TCachingBinScorer::Evaluate`: it copies the shared background, works on slot
`evalBinIndex` of the shared cache and asks the calculators for values.

What is hard to test is listed in `PROJECT.json` ("hazards"), line by line,
with the properties that watch it.

## 2. Modules

```
BinFeatureSet <- Evaluate <- CachingBinScorer
      ^             ^   ^          ^
      |             |   |          | (INSTANCE, refinement per slot)
      |  SlowSelection  Selection -+
      |             ^   ^
      |      SelectionReference <- FeatureScore
      |
      +- FeatureMap <- BinaryPool

Borders <- Binarization <- LabelExport        OptimalSplit

EntropyCalculator <- CalculatorUse            ParallelForEach

MtpQueue --(refines)--> JobPool               PoolReader

Future --(refines)--> OneShot                 PoolData (data for TLC)
```

The proofs about module *M* are in *M*`_proofs`, for `CachingBinScorer`,
`Selection` (with `SelectionReference` and `FeatureScore`; it instantiates
`CachingBinScorer_proofs`), `MtpQueue`, `ParallelForEach`, `Future`,
`PoolReader`, `LabelExport` (with what it takes over from `Binarization`) and
`BinaryPool` (with `FeatureMap`).

* **BinFeatureSet** - `TBinFeatureSet` and `TBackground` as values.  A
  background is the set of its enabled bins and the set enabled last.
* **Evaluate** - the pieces of `TCachingBinScorer::Evaluate` as operators:
  what one iteration of each loop does to the slot and to the local copies of
  the background.  The contents of the pool enter only through the constant
  operator `Cmi(p, S, C)`, what a `TCmiCalculator` returns for the label, the
  second variable `S` and the condition `C`.  Its assumption
  (`CmiAssumption`) is the little the code relies on: values lie strictly
  between the sentinels, and a bin in the condition has value 0.
* **CachingBinScorer** - one slot of the cache from the first round to the
  last.  Actions: `Begin` (the prologue), `MaxStep` and `MinStep` (an
  iteration of a loop), `StartMin` (between the loops), `Finish` (the score),
  `EnableFeature` (the selection ends the round).  Which feature is enabled
  next is left open.
* **Selection** - `FastFeatureSelection` with its threads.  `SelectFirst`,
  `BeginRound`, `Submit`, `Drain`, `SelectNext`, `End` are the main thread;
  `Take`, `Begin`, `MaxStep`, `StartMin`, `MinStep`, `Finish` are a thread of
  the queue.  Slots and frames of `Evaluate` are functions of the bin, so that
  two threads in the same slot would disturb each other as they would in the
  program.
* **SlowSelection** - the selection without a cache, as recursive functions.
* **SelectionReference** - both side by side: the tests `FastIsOK` and
  `ResultDoesntDifferFromEvalScorer` as properties.
* **MtpQueue** - `TMtpQueue::TImpl`.  Program counters of the owner, the adders
  and the threads; the mutexes as the thread that holds them; a thread that
  waits for a condition has a program counter that says for which.  Signals
  choose a waiting thread; spurious wakeups are allowed; every read of
  `ShouldTerminate`, which is set without a lock, is a step of its own.
* **JobPool** - what a thread pool promises: accepted jobs are processed once,
  sooner or later, and a pool that is told to stop does so when none is left.
* **ParallelForEach** - one call of `ParallelForEach`: a `TLegacyFuture` per
  item, its `TThreadImpl` with reference count and two events, the threads of
  the pool, kernels that throw.  Signalling an event is two steps, the flag and
  the wakeup.
* **Future** - `TFutureState`: the lock, the atomic state, the value, the
  callbacks, the event a waiter creates; setters, readers with and without
  timeout, subscribers.  **OneShot** is its abstract specification: an outcome
  that is decided once, readers that get it or give up, callbacks that run once.
* **EntropyCalculator** - words of `WordSize` bits, the vector counter and the
  hash counter and the range that decides between them; the mutual and the
  conditional calculators as the entropies they hold.  **CalculatorUse** - the
  calls the first round and `Evaluate` make, in their order.
* **PoolReader** - `ReadPool`: batches read, submitted, parsed by the threads,
  joined in order; malformed lines, lines of another width, a failing stream,
  the destructor of the queue on every way out.
* **FeatureMap** - the map file: written by `OutputBinFeatureMap`, read line
  by line by `ReadBinToFeatureMap`, applied by `BinarizeWithMap`.
* **BinaryPool** - `--just-binarize` and the run that reads its files: two
  buffered streams, failing writes, a crash at any time, and what is left.
* **Borders** - the two number formats and their rounding; borders from
  quantiles, from equal distances and from positions, with every result of an
  operation on floats rounded.
  **Binarization** - the binarizers of `--binarization` on one feature; the
  greedy one is a loop over its priority queue.  `feature` are the doubles as
  they were read, `values` the same as sorted floats; borders are made from the
  floats, and the doubles are compared with them.
* **OptimalSplit** - the dynamic program of minEntropy and maxSumLog: the layers, the
  search with two bounds, the rebuilding, the way back to the thresholds.
* **LabelExport** - the label through `BestSplit`, `BinarizeFeature`,
  `UniteLabelBins` and the file, and, in a second run of the program with any
  mode and `-x` of its own, through `BestSplit` and `BinarizeFeature` again.
* **FeatureScore** - `GetCmimScore` and `GetFeatureScore` beside the selection.
* **PoolData** - pools of up to ten examples with pseudo-random contents, and
  their conditional mutual information in integers.  Logarithms are integer
  combinations of fixed values of the logarithms of primes, so that values
  that are equal as real numbers are equal here, and ties are real ties.

A definition called "Mutant" in its comment is a plausible mistake; no
specification uses it.  `PROJECT.json` says which definition it would replace
and which property then fails.

### Abstractions

* Values are integers; the score is not divided by the entropy of the label,
  a positive constant.  A label with one value is left out.
* A bin added twice to a calculator changes no entropy, so second variable and
  condition are sets in `Selection`; `CalculatorUse` has the sequences and the
  limit on bins, with words of six bits instead of 64.
* In `Selection` the queue is what `MtpQueue` shows it to be: jobs are taken
  once, in order, and its destructor returns when all are done.  The futures
  are the scores in the slots.
* The first round evaluates bins in parallel as well, but writes nothing but
  its futures; it is one step.
* The text of numbers is left out, but for the digits of the bins in the map,
  which may be cut: a file is counted in units (`BinaryPool`).
* Logarithms are scaled integers (`EntropyCalculator`, `OptimalSplit`), the
  scores of medianInBin are products of sizes.
* A number of `Borders` is an integer, in units of the least positive double;
  a format is the set of the numbers it has and of those with an even
  significand, where a tie is rounded to.  Infinities, NaN and negative zero
  are left out: numbers stay below a limit that can be doubled.  TLC has floats
  of 3 and doubles of 4 bits.
* The numbers of a map file are within `int`.  `ReadBinToFeatureMap` reads
  64 bits and keeps the number of the feature as an `int` (io.cpp:136), so that a
  larger one becomes another feature, and 4294967295 the mark of a missing bin.
* The dynamic program enters `Binarization` as any choice of as many positions
  as can be; which of them it chooses is `OptimalSplit`.

## 3. Runs

| run | bounds | what it shows |
|---|---|---|
| `caching_bin_scorer` | features of 3, 2, 1, 1 bins, `-t` 3, eight pools | a slot of the cache, see below |
| `selection` | features of 2, 1, 2, 2 bins, `-t` 2, two threads, six pools | every interleaving of the threads, beside the selection without a cache |
| `growing_steps` | five features of 1 bin, `-t` 2, one pool | violation: fast and slow rankings differ |
| `empty_feature` | a feature without bins between two with one | violation: `Y_VERIFY` of selection.cpp:52 |
| `mtp_queue` | two adders with 2 and 1 jobs, two threads or none; no limit, or a limit of 1, blocking or not | the queue implements `JobPool`, calls return |
| `calculator_use` | words of 6 bits, labels of 1-3 bins and one of 7, `-t` 1-3, four examples, vectors of up to 8 cells | exact values, and when the program aborts |
| `many_steps` | words of 6 bits, labels of one bin, `-t` 1-6 | violation: the program aborts for a `-t` the documentation allows |
| `parallel_for_each` | three items, two threads, any set of kernels throws | life of the objects, order of the results |
| `future` | two setters, two readers (one with a timeout), two subscribers | `Future` implements `OneShot` |
| `pool_reader` | all files of up to 5 lines of 1 or 2 columns or malformed, batches of 2, two threads | the outcome depends on the file alone |
| `grid_creator` | all sorted vectors of up to 5 of six doubles, `-x` 1, 2, 4, 5 and any mode in both runs of the program, `int` of 3 bits, words of 6, floats of 3, doubles of 4 | borders and the label |
| | all sequences of 1, 3 and 6 weights of three sizes and of 8 of two, 1-4 borders, both penalties | the thresholds of the dynamic program are optimal |
| `binary_pool` | features of 1; 2, 1; 1, 1, 3; 0, 2, 0, 1 bins, 1-3 lines, buffers of 2-30 units, old maps; all map files of up to 3 lines | what a run reads after a crash, failing writes or none |

Why the bounds are enough.  A slot needs a first feature with as many bins as
steps (so that the number of steps stays), one with fewer (so that it grows),
and two more rounds, one that changes an early step and one that does not: 3,
2, 1, 1 with `-t` 3 has all of them, since every feature may come first; the
feature of two bins leaves a second candidate when its first bin is taken. In
`selection` the feature of one bin makes the number of steps grow if it is the
first, any other does not.  Two threads and more bins than threads let one take
a second job while the other is in the middle of its first.  In the queue, two
threads are the least for which waking only one matters, and three jobs fill a
queue of one while a thread works and an adder waits.  Three items on two
threads leave one in the queue when a kernel throws.  Files of five lines make
three batches, so that the middle one may be last or fail alone. Labels of
three bins and `-t` 3 pass the width of a word, as the label of seven does at
once; a limit of eight cells makes both counters happen.  Six and eight weights
with up to four borders have layers in which the search of a column skips
indexes and is rebuilt; one and three are the short cases.  The buffers are
shorter than a line, longer than a line and longer than a file, so that either
file may reach the disk first; binary digits give bins with numbers of one, two
and three digits.  Of the six doubles 20, 24 and 28 are neighbours as floats, 26
lies in the middle of two and is rounded to one of them, 44 to a float above it,
and -6 gives a range in which equal distances are rounded; five values have runs
of equal ones on either side of a median, and five bins are more than an `int`
of three bits holds, the sign bit being one of the three.

The properties, by module:

* `CachingBinScorer`: `ChecksHold` (no throw, no `Y_VERIFY`),
  `HelpersDistinct`, `CacheCurrent` (no stale value when `Evaluate` returns),
  `GreedyUnlessGrown` (looking only at the bins enabled last loses nothing
  while the number of steps is that of the first call).
* `Selection`: `SlotsPrivate`, `BackgroundStable`, `Terminates` (with a complete
  ranking), and `SlotsImplementCachingBinScorer`: every step of the threads and
  of the main thread is, for each bin that is not enabled, a step of
  `CachingBinScorer` or a stuttering step, under the mapping `Slot(b)`.
  `VerifyHolds` is violated in `empty_feature`.
* `SelectionReference`: `ScoresEqualSlow`; `FastEqualsSlow` (violated).
* `FeatureScore`: `BestFeatureReported`, `CmimOfFirstFeatures`.
* `MtpQueue`: `StopDrains`, `OwnerNotForgotten`, `JobsNotForgotten`,
  `AddReturns`, and the refinement `IsJobPool`, which includes that Stop returns.
* `CalculatorUse`: `InformationExact`, `AbortsIffTooManyBins`;
  `StepCountsUpToMaximumWork` (violated).
* `ParallelForEach`: `ImplAlive`, `NoJobOutlivesCall`, `ResultsInOrder`, `CallEnds`.
* `Future`: `ReadsComplete`, `CallbacksConserved`, and the refinement `IsOneShot`.
* `PoolReader`: `PoolIsFile`, `NoJobLeft`, `ReadEnds`.
* `Binarization`: `BinsInformative`, `MedianIsBest`, `OnlyPairsLeft`.
* `LabelExport`: `RelativeOrderSavedInInt`, `LabelReadBack`.
* `FeatureMap`: `AcceptedIffComplete`, `BinsInTheirFeatures`.
* `BinaryPool`: `ExportReadBack`, `DamageContained`.
* `OptimalSplit`: `GuaranteedOptimum`, `SplitEnds`.

Deadlock is not checked: every one of these activities ends.  That they end
where they should is a property where threads or loops could keep them from it
(`Terminates`, `AddReturns`, `IsJobPool`, `CallEnds`, `IsOneShot`, `ReadEnds`,
`SplitEnds`).

### Fairness

Weak fairness of each thread's next step: the operating system runs a thread
that can run.  In `MtpQueue` the owner need not stop the queue, but a Stop that
has begun goes on; the adders make the calls they are given; and spurious
wakeups do not go on forever.  No fairness of mutexes is assumed: the
number of jobs is finite, so nobody competes forever.  `OptimalSplit` is one thread that
goes on; `MCGridCreator` starts either it or the label's way (`LabelExport`), so
that one run checks both.  Nothing is assumed of failures: writes may fail, streams break and
processes die at any time or never.

### What the violations show

* `growing_steps`.  If the first feature has fewer bins than `-t`, the number of
  steps grows in later rounds.  `Evaluate` appends an unset step, but if no
  earlier step improves in that call, the candidates of the new step are only
  the bins enabled last.  The helper it stores may be worse than one enabled
  before, and nothing ever looks at that one again.  Rankings then differ from
  those of `FeatureSelection`, which `selection_ut.cpp:85` expects to be equal.
  The counterexample has no ties.
* `empty_feature`.  A map file may leave out feature indexes.  `BinarizeWithMap`
  makes features without bins of them, the selection counts them, and its last
  rounds have no bin to choose: `Y_VERIFY` aborts the program.  Pools that
  are binarized by the program itself always have a bin per feature.
* `many_steps`.  The calculator of `Evaluate` takes the bins of the label and
  2 `t` more, and `AddBin` takes 64 in all.  The documentation of `-t`
  (`README.md:99` of the repository) says that 64 is possible; with a label of
  two classes and enough enabled bins the program aborts from 32 on.
  `AbortsIffTooManyBins` says exactly when.

### What the premises of the other properties leave out

Several properties hold under a premise that the program does not enforce; each
is where the code departs from what a reader would expect.

* `InformationExact`: an extra bin must still fit (AddBin would take it), and
  the words must not have the full range, from an example without any of 64
  bins to one with all: `rangeSize` (entropy_calculator.cpp:12) then wraps to 0
  and the counter writes past an empty vector.  With 64 bins added already,
  candidates are compared by words that lost their top bit, but the candidate
  that is chosen ends the program (`AbortsIffTooManyBins`); only the first round,
  for a label of 64 bins, goes on from such values.
* `RelativeOrderSavedInInt`: no more bins than an `int` has bits.
  `UniteLabelBins` shifts an `int` (binarize.cpp:38): bins at its width and
  beyond are lost or or-ed onto others, or whatever else the compiler makes of
  an undefined shift, and codes may be out of order.  The test
  `BinarizaionSavesRelativeOrder` (`binarize_ut.cpp:24`) demands the order, and
  never has that many bins.
* `LabelReadBack`: that no class is split needs no premise.  That none is joined
  needs `EnoughBorders`: a quantile at every position (`-x` + 1 examples in the
  mode median, half as many in the default mode), or a bin per value; in
  medianInBin also that each value is held twice, since a pair of two
  values may be left over.  It also needs a bit of an `int` per bin, and codes
  that floats have, up to 24 bits, since `BinarizeFeature` makes the borders from
  floats (binarize.cpp:11).  The program checks none of this: the two commands
  of `README.md:47` of the repository (`-x 20`, then the default 10) may join
  classes.  Nor does it leave features of few values alone, as `README.md:66`
  suggests: `BinarizeFeature` makes no such test, and a label 0, 0, 0, 1 with
  `-x 2` in the mode median loses all its classes.
* `BinsInformative` has no premise, but says what rounding leaves: the mean of
  two neighbouring floats may be the greater one, and the dynamic program
  (binarization.cpp:593) and medianInBin then put the border on a value, which
  only `RegularBorder` avoids: its border is then the smaller value.  In the
  default mode a border at equal distances (binarization.cpp:679) may be rounded to the smallest value; `RegularBorder`
  then returns the border for which its bin always holds (`UniformOff`).  And with
  `-x 1` a feature whose median is its smallest value gets no border in the mode
  median and becomes a constant.
* `CmimOfFirstFeatures`: `GetCmimScore` uses the position of the best feature
  among the enabled ones as its index (feature_score.cpp:34), right only if
  the enabled features are the first ones.  Nothing calls it, and no document
  says what it returns otherwise.
* `DamageContained`: a write that fails in the destructor of a stream is
  forgotten (buffered.cpp:336) and the program returns 0 with incomplete files.
  The property shows that the next run still gets the right features, if
  fewer lines; it excludes a pool without one whole line, where the program
  uses columns that are not there, and the map of an earlier export that a
  crash has left beside a new pool, which is accepted if the numbers of bins
  agree.
* `ScoresEqualSlow`, `BestFeatureReported`: number of steps constant, no ties.

## 4. Proofs

Eight modules hold theorems; each EXTENDS the module it is about.  TLC has
checked every inductive invariant below on the instance of the run before it
was proved.

| module | theorems (`Spec => ...`) | for every |
|---|---|---|
| `CachingBinScorer_proofs` | `Invariance`, `TypeCorrect`, `ChecksAlwaysHold`, `HelpersAreDistinct`, `CacheIsCurrent`, `GreedyResults` | feature set, set of pools, `Cmi`, `-t` |
| `Selection_proofs` | `QueueInvariance`, `SlotsArePrivate`, `BackgroundIsStable`, `SelectionInvariance`, `SlotsImplement`, `SlotInvariance`, `EverySlotIsSound`, `CollectedScoresAreCurrent`, `SlotEqualsSlow`, `CmimScoreIsLeast` | the same, and set of threads, `FeatureCount` |
| `MtpQueue_proofs` | `Invariance`, `StopDrainsQueue`, `OwnerIsNotForgotten`, `JobsAreNotForgotten`, `ImplementsJobPool` | sets of adders and threads, number of jobs, limit, mode |
| `ParallelForEach_proofs` | `Invariance`, `ImplsStayAlive`, `NoJobOutlives`, `ResultsKeepOrder` | number of items, set of threads, kernels that throw |
| `Future_proofs` | `Invariance`, `ReadsAreComplete`, `CallbacksAreConserved`, `ImplementsOneShot` | sets of setters, getters, subscribers |
| `PoolReader_proofs` | `Invariance`, `PoolIsTheFile`, `NoJobIsLeft` | file, size of a batch, set of threads |
| `LabelExport_proofs` | `GridInvariance`, `MedianFindsBestCut`, `EarlyStopLeavesPairs`, `BordersAreWorthTheirBins` | vector of doubles, mode, `-x`, formats |
| | `LabelOrderIsSaved`, `LabelComesBack` | the same in both runs, width of an `int` and of a word |
| `BinaryPool_proofs` | `MapInvariance`, `MapsAccepted`, `BinsRegrouped` (of `MapSpec`) | map file, number of bins of the pool |
| | `ExportInvariance`, `DamageIsContained`, `ExportIsReadBack`, `ExportedMapsAccepted` | sizes of the features, number of examples, sizes of the buffers, base of the digits, maps of others |

### Assumptions on the constants

* `FeatureSetAssumption`: there is a bin, `FeatureStart` begins with 0, does not
  decrease and stays within the bins, as `AddFeature` leaves it.  Features
  without bins are allowed.
* `CmiAssumption`: the values of `Cmi` are numbers below the sentinel, and a bin
  in the condition has value 0.
* `EvalStepCountAssumption`, `FeatureCountAssumption`, `ItemCountAssumption`:
  `-t` and the number of items are positive, the number of features to select
  is a natural number.
* `MtpQueueAssumption`: owner, adders and threads are different, the threads are
  finitely many, a setting is a mode and a limit.
* `FutureAssumption`: setters, getters and subscribers are different threads;
  those with a timeout are getters.
* `PoolReaderAssumption`: a file is a sequence of lines, each given by its number
  of columns (0: malformed), and a batch has at least one line.
* `FormatAssumption`: floats are doubles, and floats up to the limit can be
  doubled.  `MeanAssumption`: a rounded mean of two floats lies between them,
  and is one of them only if no float lies between; both ways in which the
  code takes a mean.  IEEE numbers have these properties.
* `BinarizationAssumption`: a vector is not empty and holds doubles within the
  limit, a number of borders is a natural number.
* `WidthAssumption`: an `int` has at least two bits and no more than a `ui64`, a
  `ui64` is within the limit; floats have all whole numbers below `Exact` (2^24),
  and the mean of an even one and the next is not rounded to the next, the tie
  going to the even one.
* `BinaryPoolAssumption`: a pool has a feature and the last one has a bin (others
  may have none: an export may start from a binary pool whose map has gaps), a
  line of a map at most two numbers; buffers hold a unit or more; numbers are
  written to a base of two or more.

TLC evaluates all of them on its instances.

### CachingBinScorer

None of the properties is inductive.  The invariant `IInv` has to say what the
slot looks like in the middle of a call.  `Old` are the bins enabled before the
last feature was, the background of the previous call.

* `OuterInv`, `CountInv`: the selection around the call, the numbers of steps
  and the lengths of the two vectors.
* `LocalsInv`: what the local copies hold.  In the maximizing loop the
  background is the enabled bins and the evaluated one, in the minimizing loop
  the enabled bins without those of the steps done; `binsToProcess` is either
  the bins enabled last or all of the background.
* `SlotInv`: a step that is set holds a bin that no earlier step has used, and
  the value it has after those.  While `binsToProcess` is still the bins
  enabled last, all cached steps hold bins of `Old`; once it is the whole
  background, the later steps are unset.  From this follow the checks: a
  cached step that is kept takes no candidate away from the bins enabled last,
  and a step that is replaced makes all bins candidates.
* `GreedyInv`: while the number of steps has not grown, the steps done are best
  ones among all enabled bins, and the cached ones still to come among `Old`.
  This is what makes it enough to look at the bins enabled last: the others
  lost against the same prefix already.  It fails for a step that is appended,
  and this is why `GreedyUnlessGrown` has its premise.

Each action has a lemma of its own, with one step per conjunct it can disturb.

For `-t` 1 the number of steps never grows, and `GreedyResults` says that the one
minimizing step is a least value over all enabled bins: the score is that of
CMIM, as the repository's documentation says of `-t`.

### Selection

`QueueInv` is about the queue of a round: the jobs are for bins that were
submitted, no bin occurs twice in the round, so none is queued or held twice
(`SlotsPrivate`), and outside a round there is no job.  `BackgroundStable`
follows, since only `SelectFirst` and `SelectNext` change the background.
`SelectionInv` adds what a round is about: the enabled bins are those of the
ranking, the bins of the round are all others, and each of them is queued,
with a thread, or done (`DoneInv`), so that the main thread, which goes on when
queue and threads are empty, finds every score (`AllDone`).

`SlotsImplement` is the refinement, for one bin at a time: a step of the thread
that has the bin is the step of the same name of `CachingBinScorer`, other
threads leave the slot alone, and `SelectFirst` and `SelectNext` are
`EnableFeature`.  `CachingBinScorer` is then instantiated with its proofs, for
an arbitrary bin, and its inductive invariant holds of every slot in use
(`SlotInvariance`).  So its theorems hold of the threads too
(`EverySlotIsSound`), and the scores `SelectNext` compares are values for the
present background (`CollectedScoresAreCurrent`).

`SlotEqualsSlow` is what the test `ResultDoesntDifferFromEvalScorer` samples:
the slot of any bin holds the steps and the score of `GetBinScore`.  The phases
of `SlowSelection` are recursive functions.  That they exist
(`PhaseExists`) and that each step is the best one after those before it
(`PhaseSteps`) is shown by a least counterexample.  The invariant of the slot
says that its steps are best ones too (`SlotIsBest`).  Of two best steps after the
same bins, if no other bin has that value, both have the same bin
(`SameMaxStep`, `SameMinStep`), so the first step in which slot and phase
differ cannot be (`SameMaxPhase`, `SameMinPhase`).  That the number of steps is
that of the first call is where the premise on the first feature is used, and that
`GetBinScore`, which disables the whole feature of the bin, minimizes over the
same bins as `Evaluate`, which disables the bin, is because features are
enabled as a whole (`FeatureNotEnabled`).  `bin` is any constant; the prover cannot put a
bound variable in its place (it cites no theorem of an instance with a
parameter), so the theorem says of each bin what `ScoresEqualSlow` says of all.

`CmimScoreIsLeast`: the enabled features being 0, 1, ..., the position of a feature
in the list `Ascending` makes is its index (`AscendingFromZero`), and
disabling the feature that is scored, which is not enabled, takes no bin from the others
(`OtherFeaturesStay`).

### MtpQueue

`LockInv` ties program counters to mutexes, `CountInv` `ThreadCountReal` to the
threads that have not left, `JobInv` puts every accepted job in one place: in
the queue, with a thread, or processed.  `StopInv` is the core: a thread only
leaves its loop when the queue is empty and the owner has set
`ShouldTerminate`, none goes to sleep after the broadcast unseen, and whenever
the owner is about to wait or waits, a thread is awake that will signal it.
`JobsNotForgotten` is part of the invariant: it is inductive only together with
these.  `ImplementsJobPool` goes through the actions: each is one step of
`JobPool` or none.

### ParallelForEach, Future, PoolReader

`ParallelForEach`: `RefsInv` says that the count of a `TThreadImpl` is exactly
one for the future and one for the thread inside `Execute`, `EventInv` that an
object is deleted only after its event was set and its job is over; the order
of results comes from `ResultInv` (the caller has one result per future it has
passed) and `PromiseInv` (an event that is set means a kept promise or a throw).

`Future`: `WinnerInv` says that one setter's content is stored and that the
state is set after it; `ReadyInv` that whoever has learnt that the future is
ready learnt it from the state, or from the event, which comes later;
`CallbackInv` and `ListInv` where a callback is.  `ImplementsOneShot` follows
action by action: `Publish` of the setter decides the outcome.

`PoolReader`: `BatchInv` (the batches cover the lines read without a gap),
`FutureInv` (a future holds the outcome of its batch, or the batch is queued or
being parsed) and `JoinInv` (what was joined is the file up to the last batch)
make the result a function of the file; `ErrorInv` says that an error is that
of the first batch that does not fit.

### LabelExport (Binarization)

The invariant is `GridInv /\ LabelInv`, over both runs of the program: a
second run is `ReadPool`, which starts the binarizer again with other input.

`NearestFacts` says what rounding to a format does whatever its numbers are: the
result is one of them and passes no other.  So `Rounded` keeps the order and
leaves floats alone, comparing a double with a float border is comparing its
float unless the border is that float (`ComparesAsFloat`), and a border at a
position where the values grow lies between the two values (`BorderBetween`,
from `MeanAssumption`).

* `VectorInv`: `values` is sorted, and its elements are the floats of the
  doubles in `feature` and no others.
* `SplitInv`: every bin in the queue is what its range of positions makes it
  and ends where different values meet; the bins cover the vector and are
  disjoint; there is at most one more than borders asked for.  `StopInv`: how the
  loop ended.  `FeatureBinFacts` is about one bin: the product of the sizes of
  two parts grows towards the middle, so the best cut is one of the ends of the
  run of equal values around the median, and a bin has no cut if it is this run.
* `BordersInv`: every border is the mean at a position where the values grow,
  or the smaller of the two values if it was rounded to the larger, or, in the
  default mode and if a rounded value fell outside, one of the two borders
  beyond the values (`GoodBorders`); and with `EnoughBorders` there is one at
  every growth (`CompleteBorders`).  This takes a lemma per mode: a quantile at
  every position (`EveryPositionIsQuantile`, `MedianGood`), equal distances
  (`UniformGood`), the distinct values by rank for the dynamic program
  (`FeaturesByRank`, `OptimalGood`), and the ends of the bins of medianInBin, by
  counting if there are enough (`EndsIfEnough`) and because only pairs are left
  if the loop stopped early (`EndsIfStoppedEarly`).
* `LabelInv`: the bins of the label are nested and made by the borders in some
  order of the hash set, the codes are their bits, and the second run starts
  from the codes as doubles.  It is needed because the codes outlive the
  borders they were made from: after `ReadPool` only nestedness is left of them.

`BinsInformative` follows from `GoodBorders`.  `Number`, the value of a word, is
a recursive function over its bits; `NumberUnfolds` shows that it satisfies its
equation and `NumberGrows` that more bits make a larger number.  Bins of an
ordered feature are nested, and so are the bits of their codes as long as an
`int` has a bit per bin, the sign bit that is extended into the upper half
included (`ShiftedBit`, `CodesNested`); hence `LabelOrderIsSaved`.

For `LabelComesBack`, examples of one class have one code and so one float.  Take
two of different classes: their codes are different whole numbers that floats
have, and `CompleteBorders` gives a border where the values of the second run
grow to the larger one.  It could still be that value, and separate nothing.  But
of the code just below and the code itself one is a proper subset of the other
as sets of bits, so either there is a whole number between them, or the
smaller one is even (`NumberIsEven`) and a tie is rounded down to it
(`MeanOfWholeNumbers`): the border lies below the value, and tells the two apart
(`ClassesToldApart`).

### BinaryPool (FeatureMap)

`MapSpec` is the reader in any environment: the file is any sequence of lines
of at most two numbers, the pool has any number of bins or no column.  This is
more than `BinaryPool` offers (maps written by the export, whole or cut, and
maps of other programs); `ExportedMapsAccepted` carries the two properties over.

`VectorInv` says that the vector ends at the largest bin named, `LinesInv` that
it holds the lines read and nothing else, and, until a bin is met twice, that
all of them name different bins; `StatusInv` says what each verdict is about.
A vector without gaps as long as the pool is then a one-to-one correspondence
of lines and bins, and the other way round a file that names every bin once
cannot meet any of the errors: `MapsAccepted`.

`BinsRegrouped` needs what two recursive functions compute.  `Concat` and
`AddFeatures` are shown to satisfy their equations, and what follows from these
for each feature, by looking at a least counterexample (`SmallestNat`): the
offsets of the features (`OffsetsGrow`), the bins at the positions between two
offsets (`PrefixesHold`), the feature `GetFeatureIndexByBinIndex` finds there
(`FeatureOfPosition`, through features without bins), and from the ranks of the
elements of a finite set that `Ascending` lists it in order
(`AscendingEnumerates`).

For the export, `StreamsInv` says how far the two streams are: the map is
opened when the pool has been handed over, what is stored and what is on disk
never exceed the file, and a process that exits without a failed write has
written both files. `ReaderInv` ties the second run to what is on disk and
keeps `MapInv`.  What is read from a cut file is computed from its length:
`LeftOfPool` (whole lines, and a last one with too few columns is an error) and
`LeftOfMap` (whole lines, then perhaps one with a number that lost digits).
The heart of `DamageIsContained` is `CutIsIncomplete`: a cut map is never taken
for a complete one.  Bins are written in order, a number that lost digits is
smaller (`CutIsSmaller`, from `PowerGrows` and `DigitsBound`), so nothing names
the last bin of the pool any more.  A map that is accepted is therefore the
whole one, and `ReadBackFeatures` shows that `BinarizeWithMap` makes of it the
features that were exported.  `Power` and `MapBefore` are recursive functions,
whose equations are shown like those of `Concat`.

### Only model-checked

* Liveness: `Terminates`, `AddReturns`, `CallEnds`, `ReadEnds`, `SplitEnds`, and
  the fairness of `JobPool` and `OneShot` in `IsJobPool` and `IsOneShot` (their
  steps are proved).  Out of the prover's reach.
* `ScoresEqualSlow` as a statement about all bins at once (`SlotEqualsSlow` is
  that about any one), and `BestFeatureReported`, which compares the slots of
  two bins and so needs that form.
* What longer recursions and folds compute: `InformationExact` (entropies, sums over a
  set of values), `AbortsIffTooManyBins` of the same module, `GuaranteedOptimum` (the
  dynamic program, whose optimum is one over all sets of borders).
* `FastEqualsSlow`, `VerifyHolds` and `StepCountsUpToMaximumWork` do not hold.

## 5. Plan

Done: the core (`Evaluate`, `CachingBinScorer`, its proofs), `Selection` and its
references, the thread pool with its abstract specification, parallel loops
and futures, the calculators, reading a pool, binarization, the export of a
pool and its reading after failures; and the proofs of section 4.

To prove next: for `CalculatorUse`, the numbers of bins of the four calculators
in each phase, from which `AbortsIffTooManyBins` follows, then that the words
hold the bins added so far.

Left to model: the scorers Efam and Btm, which no option of the program
reaches; the normalizers of scores.

## 6. Not modelled

The source tree is nearly all vendored or general: compilers and their
run-time libraries, build tools, character tables, an option parser, the
library `util`.  CMICOT's own code is about 3,500 lines, and with the parts of
`library` and `util` that its behaviour rests on this is what the modules are
about; the share of the whole tree that any model of this program could cover
stays small.

* Command line, help texts, formatting and parsing of numbers: input and output
  without state.
* `util` but for the thread pool, events, condition variables and buffered
  output; `TAdaptiveMtpQueue`, `TSimpleMtpQueue` and the fork handling of
  `TMtpQueue` (the program does not use the first two and does not fork).
* `WaitAll`, `WaitAny`, `Apply`, `ExtractValue` and `TrySetValue` of the
  futures; `TUniformBinarizer`, the penalty W2 and the weighted modes of the
  grid creator: no caller.
* Floating-point rounding of scores: comparisons of nearly equal values may
  come out differently in the program, in the fast and the slow selection
  alike.  A label with one value has entropy 0, and its scores are not numbers.
