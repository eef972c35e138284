-------------------------- MODULE EntropyCalculator ---------------------------
(***************************************************************************)
(* TEntropyCalculator, the two frequency counters                          *)
(* (cmicot/lib/entropy_calculator.cpp), TCmiCalculator                     *)
(* (cmi_calculator.cpp) and TMutualInformationCalculator                   *)
(* (mutual_information_calculator.cpp) as values.                          *)
(*                                                                         *)
(* A calculator packs the bins added to it into one machine word per       *)
(* example.  Entropies are multiplied by 1000 * n, n the number of         *)
(* examples, and so is the logarithm by 1000, in integers.                 *)
(***************************************************************************)
EXTENDS Integers, FiniteSets, FiniteSetsExt

CONSTANTS
  ExampleCount,  \* binSize, at most 5
  WordSize,      \* bits of ui64
  MaxBinCount,   \* MAX_BIN_COUNT
  VectorLimit    \* 1 << 22, the largest range TVectorCounter is used for

\* The code has MAX_BIN_COUNT = 64, the width of its words.
ASSUME WordAssumption ==
  /\ ExampleCount \in 1 .. 5
  /\ WordSize \in 1 .. 20 /\ MaxBinCount = WordSize
  /\ VectorLimit \in 1 .. (2 ^ WordSize - 1)

Examples == 1 .. ExampleCount

\* 1000 * log2 of 1..5
Log2 == <<0, 1000, 1585, 2000, 2322>>

Word(x) == x % (2 ^ WordSize)

-----------------------------------------------------------------------------
\* The frequency counters

\* BuildFrequencyCounter: the values the counter has a cell for.  A
\* THashMapCounter makes a cell for every value, a TVectorCounter has those
\* of lo..hi; rangeSize is a word.
Cells(lo, hi) ==
  IF Word(hi - lo + 1) > VectorLimit THEN 0 .. (2 ^ WordSize - 1)
                                     ELSE {Word(lo + k) : k \in 0 .. (Word(hi - lo + 1) - 1)}

\* Add for every value, then IFrequencyCounter::GetEntropy(totalValues).
EntropyOf(cells, values) ==
  LET count(v) == Cardinality({i \in Examples : values[i] = v})
      term(v)  == count(v) * (Log2[ExampleCount] - Log2[count(v)])
  IN  MapThenSumSet(term, cells \cap {values[i] : i \in Examples})

Smallest(values) == Min({values[i] : i \in Examples})
Largest(values) == Max({values[i] : i \in Examples})

-----------------------------------------------------------------------------
\* TEntropyCalculator

NewCalculator == [binCount |-> 0, values |-> [i \in Examples |-> 0]]

\* The Y_VERIFY of AddBin.
CanAddBin(c) == c.binCount + 1 <= MaxBinCount

AddBin(c, bin) ==
  [binCount |-> c.binCount + 1, values |-> [i \in Examples |-> Word(2 * c.values[i]) + bin[i]]]

\* The values GetEntropy and GetEntropyWithExtraBin count, and the cells they
\* count them in.
EntropyCells(c) == Cells(Smallest(c.values), Largest(c.values))

\* Mutant: the largest value with the extra bin is not 2 * maxValue.
ExtraBinCellsTooFew(c) == Cells(Word(2 * Smallest(c.values)), Word(2 * Largest(c.values)))

ExtraBinCells(c) == Cells(Word(2 * Smallest(c.values)), Word(2 * Largest(c.values) + 1))
ExtraBinValues(c, bin) == [i \in Examples |-> Word(2 * c.values[i] + bin[i])]

GetEntropy(c) == EntropyOf(EntropyCells(c), c.values)
GetEntropyWithExtraBin(c, bin) == EntropyOf(ExtraBinCells(c), ExtraBinValues(c, bin))

\* Entropy(bin) of entropy.h and entropy.cpp, for one bin.
Entropy(bin) == EntropyOf({0, 1}, bin)

-----------------------------------------------------------------------------
\* TCmiCalculator: four calculators, for the variables in their names.

NewCmi ==
  [firstCondition |-> NewCalculator, condition |-> NewCalculator,
   firstSecondCondition |-> NewCalculator, secondCondition |-> NewCalculator]

\* Adding a bin to the calculators named in S.
AddTo(cmi, S, bin) == [k \in DOMAIN cmi |-> IF k \in S THEN AddBin(cmi[k], bin) ELSE cmi[k]]

WithFirst == {"firstCondition", "firstSecondCondition"}
WithSecond == {"secondCondition", "firstSecondCondition"}
WithCondition == DOMAIN NewCmi

AddFirstVariableBin(cmi, bin) == AddTo(cmi, WithFirst, bin)
AddSecondVariableBin(cmi, bin) == AddTo(cmi, WithSecond, bin)

AddConditionBin(cmi, bin) == AddTo(cmi, WithCondition, bin)

CanAddTo(cmi, S) == \A k \in S : CanAddBin(cmi[k])

GetValue(cmi) ==
  GetEntropy(cmi.firstCondition) - GetEntropy(cmi.condition)
    - GetEntropy(cmi.firstSecondCondition) + GetEntropy(cmi.secondCondition)

GetValueWithConditionBin(cmi, bin) ==
  GetEntropyWithExtraBin(cmi.firstCondition, bin) - GetEntropyWithExtraBin(cmi.condition, bin)
    - GetEntropyWithExtraBin(cmi.firstSecondCondition, bin)
    + GetEntropyWithExtraBin(cmi.secondCondition, bin)

-----------------------------------------------------------------------------
\* TMutualInformationCalculator, which is one calculator, First.
GetValueWithSecondVariableBin(first, bin) ==
  GetEntropy(first) + Entropy(bin) - GetEntropyWithExtraBin(first, bin)

=============================================================================
