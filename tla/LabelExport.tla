----------------------------- MODULE LabelExport ------------------------------
(***************************************************************************)
(* The way of a label through --just-binarize and --binary-pool: its       *)
(* binarization (module Binarization), BinarizeFeature and UniteLabelBins  *)
(* (cmicot/lib/binarize.cpp), OutputPool and ReadPool (io.cpp), and, in    *)
(* the second run of the program with its own mode and -x, BestSplit and   *)
(* BinarizeFeature again (cmicot/cmicot/feature_selection.cpp).            *)
(*                                                                         *)
(* The borders are a hash set: the bins come in any order.  A ui64 is the  *)
(* set of its bits.                                                        *)
(***************************************************************************)
EXTENDS Binarization, Sequences

Lists == INSTANCE SequencesExt

CONSTANTS
  IntWidth,      \* bits of int
  WordSize,      \* bits of ui64
  Exact          \* floats have all whole numbers below

VARIABLES
  pc,            \* "raw", "binarized", "written", "reading", "read"
  bins,          \* the bins of the label, in the order of the hash set
  codes,         \* the label in the file
  bins2          \* its bins in the second run

labelVars == <<pc, bins, codes, bins2>>
vars == <<gridVars, labelVars>>

\* The number a set of bits stands for; high[k] is that of the k highest bits.
Number(bits) ==
  LET high[k \in 0 .. WordSize] ==
        IF k = 0 THEN 0 ELSE 2 * high[k - 1] + (IF WordSize - k \in bits THEN 1 ELSE 0)
  IN  high[WordSize]

ASSUME WidthAssumption ==
  /\ WordSize \in Nat /\ IntWidth \in 2 .. WordSize
  /\ Number(0 .. (WordSize - 1)) * One <= Limit
  /\ Exact \in Nat
  /\ \A m \in 0 .. (Exact - 1) :
       /\ m * One \in Float.numbers
       /\ m % 2 = 0 /\ m + 1 < Exact =>
            (m + 1) * One \notin {Midpoint(m * One, (m + 1) * One), SumOfHalves(m * One, (m + 1) * One)}

Init ==
  /\ GridInit
  /\ pc = "raw"
  /\ bins = <<>> /\ codes = <<>> /\ bins2 = <<>>

\* Mutant: the border itself is above the border.
BinsAtLeast(bs) ==
  IF bs = <<>> THEN <<[i \in DOMAIN feature |-> FALSE]>>
               ELSE [k \in DOMAIN bs |-> [i \in DOMAIN feature |-> feature[i] >= bs[k]]]

\* BinarizeFeature: a bin per border; without borders one bin that never holds.
BinsOf(bs) ==
  IF bs = <<>> THEN <<[i \in DOMAIN feature |-> FALSE]>>
               ELSE [k \in DOMAIN bs |-> [i \in DOMAIN feature |-> feature[i] > bs[k]]]

BinarizeLabel ==
  /\ pc = "raw" /\ done
  /\ \E bs \in Lists!SetToSeqs(borders) : bins' = BinsOf(bs)
  /\ pc' = "binarized"
  /\ UNCHANGED <<gridVars, codes, bins2>>

\* Mutant: the value is shifted one bit less.
ShiftedLess(k, masked) == {IF k = 0 THEN 0 ELSE k - 1}

\* true << k as an int, converted to ui64: the highest bit of an int is its
\* sign and is extended; a shift by its width or more is undefined, the
\* machine takes the count modulo the width (masked) or gives 0.
Shifted(k, masked) ==
  LET bit == k % IntWidth
  IN  IF k >= IntWidth /\ ~masked THEN {}
      ELSE IF bit = IntWidth - 1 THEN bit .. (WordSize - 1)
      ELSE {bit}

\* UniteLabelBins and OutputPool: bin k (from 0) is or-ed in at bit k.
UniteLabelBins ==
  /\ pc = "binarized"
  /\ \E masked \in BOOLEAN :
       codes' = [i \in DOMAIN feature |-> UNION {Shifted(k - 1, masked) : k \in {j \in DOMAIN bins : bins[j][i]}}]
  /\ pc' = "written"
  /\ UNCHANGED <<gridVars, bins, bins2>>

\* The second run: ReadPool gets the label as doubles, and the user is free to
\* give another -x and another mode.
ReadPool ==
  /\ pc = "written"
  /\ feature' = [i \in DOMAIN codes |-> Nearest(Double, Number(codes[i]) * One, 1)]
  /\ values' = SortedFloats(feature')
  /\ bordersCount' \in BordersCounts /\ mode' \in Modes
  /\ splits' = {} /\ thresholds' = {} /\ done' = FALSE /\ borders' = {}
  /\ pc' = "reading"
  /\ UNCHANGED <<bins, codes, bins2>>

\* ReadBinarizedPool binarizes the label once more.
BinarizeAgain ==
  /\ pc = "reading" /\ done
  /\ \E bs \in Lists!SetToSeqs(borders) : bins2' = BinsOf(bs)
  /\ pc' = "read"
  /\ UNCHANGED <<gridVars, bins, codes>>

Next ==
  \/ BestSplit /\ UNCHANGED labelVars
  \/ BinarizeLabel \/ UniteLabelBins \/ ReadPool \/ BinarizeAgain

Spec == Init /\ [][Next]_vars

-----------------------------------------------------------------------------
(***************************************************************************)
(* Properties                                                              *)
(***************************************************************************)

Above(x) == {b \in borders : x > b}

\* UniteLabelBins saves the order of the label, although the hash set shuffles
\* the bins: the codes are ordered as the values, and two values have the same
\* code if no border lies between them; as long as there are no more bins than
\* an int has bits.
RelativeOrderSavedInInt ==
  pc = "written" /\ Len(bins) <= IntWidth =>
    \A i, j \in DOMAIN feature :
      /\ Above(feature[i]) = Above(feature[j]) => codes[i] = codes[j]
      /\ Above(feature[i]) # Above(feature[j]) /\ feature[i] < feature[j] => Number(codes[i]) < Number(codes[j])

SameBins(bs, i, j) == \A k \in DOMAIN bs : bs[k][i] = bs[k][j]

\* -x allows a border between any two different values, in the mode of the run:
\* a quantile at every position, or a bin for every value; but medianInBin may
\* leave a pair of two values (OnlyPairsLeft), so that each must be held twice.
EnoughBorders ==
  LET distinct  == {values[p] : p \in DOMAIN values}
      quantiles == IF mode = "median" THEN bordersCount ELSE bordersCount - bordersCount \div 2
  IN  /\ mode \in {"median", "medianPlusUniform"} => quantiles + 1 >= Size(values)
      /\ mode \in {"optimal", "medianInBin"} => bordersCount + 1 >= Cardinality(distinct)
      /\ mode = "medianInBin" =>
           \A p \in DOMAIN values : \E q \in (DOMAIN values) \ {p} : values[q] = values[p]

\* The second run never splits a class of the label, and with enough borders it
\* does not join two either, as long as the codes are whole numbers a float has
\* and an int has a bit for every bin.
LabelReadBack ==
  pc = "read" =>
    \A i, j \in DOMAIN codes :
      /\ SameBins(bins, i, j) => SameBins(bins2, i, j)
      /\ /\ Len(bins) <= IntWidth /\ EnoughBorders
         /\ \A k \in DOMAIN codes : Number(codes[k]) < Exact
         /\ SameBins(bins2, i, j)
         => SameBins(bins, i, j)

=============================================================================
