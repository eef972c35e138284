---------------------------- MODULE OptimalSplit ------------------------------
(***************************************************************************)
(* The dynamic program of the binarizations minEntropy and maxSumLog:      *)
(* BestSplit of library/grid_creator/binarization.cpp in the mode E_RLM2,  *)
(* the only one its callers use.  It cuts a sequence of weights into       *)
(* bordersCount + 1 bins so that the sum of the penalties of the bins is   *)
(* smallest.                                                               *)
(*                                                                         *)
(* In layer l, Error(j)[i] is the error of l + 2 bins over the weights     *)
(* 0 .. l + j + 1 whose last bin begins behind weight l + i.  For every j  *)
(* a forward and an inverted loop leave a lower and an upper local minimum *)
(* lo[j] and hi[j], and the interval between them is searched again until  *)
(* they meet.  One step is one iteration of a loop over j.                 *)
(*                                                                         *)
(* Penalties and Eps are integers, the logarithms scaled and rounded.      *)
(***************************************************************************)
EXTENDS Integers, Sequences, FiniteSets, FiniteSetsExt

CONSTANTS
  WeightVectors,     \* functions from 0 .. n-1 to the weights of n distinct values
  BordersCounts,
  Penalty,           \* for every type of penalty a function from weights to integers
  Eps                \* a natural number

VARIABLES
  weights, bordersCount, type,       \* the arguments
  pc,
  l,                                 \* layer
  j, i,                              \* loop variables
  k,                                 \* the columns below k are final
  lo, hi,                            \* bs1 and e1, bs2 and e2: pairs of an index and its error
  prevError, bestSolutions, thresholds

args == <<weights, bordersCount, type>>
vars == <<args, pc, l, j, i, k, lo, hi, prevError, bestSolutions, thresholds>>

wsize == Cardinality(DOMAIN weights)
bins == bordersCount + 1
dsize == wsize - bins + 1
Columns == 0 .. (dsize - 1)

Sum(a, b) == MapThenSumSet(LAMBDA x : weights[x], a .. b)

Init ==
  /\ weights \in WeightVectors /\ bordersCount \in BordersCounts /\ type \in DOMAIN Penalty
  /\ pc = "start"
  /\ l = 0 /\ j = 0 /\ i = 0 /\ k = 0
  /\ lo = <<>> /\ hi = <<>>
  /\ prevError = <<>> /\ bestSolutions = <<>> /\ thresholds = <<>>

\* No more values than bins: a threshold behind every value.
FewValues ==
  /\ pc = "start"
  /\ wsize <= bins
  /\ thresholds' = [b \in 0 .. (bordersCount - 1) |-> IF b < wsize - 1 THEN b ELSE wsize - 1]
  /\ pc' = "done"
  /\ UNCHANGED <<args, l, j, i, k, lo, hi, prevError, bestSolutions>>

Initialize ==
  /\ pc = "start"
  /\ wsize > bins
  /\ prevError' = [c \in Columns |-> Penalty[type][Sum(0, c)]]
  /\ pc' = IF bins > 2 THEN "forward" ELSE "match"
  /\ UNCHANGED <<args, l, j, i, k, lo, hi, bestSolutions, thresholds>>

\* prevError[i] + Penalty(sweights[l + j + 1] - sweights[l + i]); index c + 1
\* stands for an empty last bin, no loop goes farther.
Error(c) ==
  [x \in 0 .. (IF c + 1 < dsize THEN c + 1 ELSE c) |-> prevError[x] + Penalty[type][Sum(l + x + 1, l + c + 1)]]

Up(a, b) == [n \in 1 .. (IF a > b THEN 0 ELSE b - a + 1) |-> a + n - 1]
Down(a, b) == [n \in 1 .. (IF a < b THEN 0 ELSE a - b + 1) |-> a - n + 1]

\* From position p on the error is followed as long as it does not rise.
Descend(indexes, p, error) ==
  LET rises == {r \in (p + 1) .. Len(indexes) : error[indexes[r]] > error[indexes[r - 1]] + Eps}
      end   == indexes[IF rises = {} THEN Len(indexes) ELSE Min(rises) - 1]
  IN  <<end, error[end]>>

\* The first of the indexes that beats the other bound, and from there down;
\* if none does the bounds meet.
Scan(indexes, error, other) ==
  LET better == {p \in DOMAIN indexes : error[indexes[p]] + Eps < other[2]}
  IN  IF better = {} THEN other ELSE Descend(indexes, Min(better), error)

\* First forward loop: the lowest local minimum of column j.
FirstForward ==
  LET found == Descend(Up(i, j), 1, Error(j))
  IN  /\ pc = "forward"
      /\ lo' = [c \in 0 .. j |-> IF c = j THEN found ELSE lo[c]]
      /\ IF j + 1 < dsize
         THEN j' = j + 1 /\ i' = found[1] /\ pc' = pc
         ELSE j' = j /\ i' = j /\ pc' = "inverted"
      /\ UNCHANGED <<args, l, k, hi, prevError, bestSolutions, thresholds>>

\* First inverted loop: from above, a local minimum that beats the lower bound.
FirstInverted ==
  LET found == Scan(Down(IF i < j THEN i ELSE j, lo[j][1] + 2), Error(j), lo[j])
  IN  /\ pc = "inverted"
      /\ hi' = [c \in j .. (dsize - 1) |-> IF c = j THEN found ELSE hi[c]]
      /\ IF j > 0
         THEN j' = j - 1 /\ i' = found[1] /\ pc' = pc
         ELSE j' = 0 /\ i' = 0 /\ pc' = "check"
      /\ k' = 0
      /\ UNCHANGED <<args, l, lo, prevError, bestSolutions, thresholds>>

\* Mutant: column k is final although its bounds do not meet.
AcceptAlways ==
  /\ pc = "check"
  /\ k < dsize
  /\ k' = k + 1
  /\ UNCHANGED <<args, pc, l, j, i, lo, hi, prevError, bestSolutions, thresholds>>

\* "Everything is fine now!": column k is final.
Accept ==
  /\ pc = "check"
  /\ k < dsize /\ ~(lo[k][1] + 1 < hi[k][1])
  /\ k' = k + 1
  /\ UNCHANGED <<args, pc, l, j, i, lo, hi, prevError, bestSolutions, thresholds>>

\* Mutant: the search begins again at the lower bound.
RebuildFromBound ==
  /\ pc = "check"
  /\ k < dsize /\ lo[k][1] + 1 < hi[k][1]
  /\ j' = k /\ i' = lo[k][1]
  /\ pc' = "rebuildForward"
  /\ UNCHANGED <<args, l, k, lo, hi, prevError, bestSolutions, thresholds>>

\* "Rebuild required".
Rebuild ==
  /\ pc = "check"
  /\ k < dsize /\ lo[k][1] + 1 < hi[k][1]
  /\ j' = k /\ i' = lo[k][1] + 2
  /\ pc' = "rebuildForward"
  /\ UNCHANGED <<args, l, k, lo, hi, prevError, bestSolutions, thresholds>>

\* Forward loop: the lower bounds rise.
RebuildForward ==
  LET found == Scan(Up(i, hi[j][1] - 2), Error(j), hi[j])
  IN  /\ pc = "rebuildForward"
      /\ j < dsize /\ i > lo[j][1]
      /\ lo' = [lo EXCEPT ![j] = found]
      /\ j' = j + 1 /\ i' = found[1]
      /\ UNCHANGED <<args, pc, l, k, hi, prevError, bestSolutions, thresholds>>

\* The columns are at their end, or one is there already (maxj).
TurnBack ==
  /\ pc = "rebuildForward"
  /\ j < dsize => i <= lo[j][1]
  /\ j' = j - 1 /\ i' = (IF j > k THEN hi[j - 1][1] - 2 ELSE i)
  /\ pc' = "rebuildInverted"
  /\ UNCHANGED <<args, l, k, lo, hi, prevError, bestSolutions, thresholds>>

\* Inverted loop over the same columns: the upper bounds fall.
RebuildInverted ==
  LET found == Scan(Down(i, lo[j][1] + 2), Error(j), lo[j])
  IN  /\ pc = "rebuildInverted"
      /\ IF j >= k
         THEN hi' = [hi EXCEPT ![j] = found] /\ j' = j - 1 /\ i' = found[1] /\ pc' = pc
         ELSE hi' = hi /\ j' = 0 /\ i' = 0 /\ pc' = "check"
      /\ UNCHANGED <<args, l, k, lo, prevError, bestSolutions, thresholds>>

EndOfLayer ==
  /\ pc = "check"
  /\ k = dsize
  /\ bestSolutions' = Append(bestSolutions, [c \in Columns |-> lo[c][1]])
  /\ prevError' = [c \in Columns |-> lo[c][2]]
  /\ l' = l + 1
  /\ pc' = IF l + 1 < bins - 2 THEN "forward" ELSE "match"
  /\ j' = 0 /\ i' = 0 /\ k' = 0
  /\ lo' = <<>> /\ hi' = <<>>
  /\ UNCHANGED <<args, thresholds>>

\* bestIndex of every layer, from the last match back.
BestIndex(last) ==
  LET index[b \in 0 .. (bins - 2)] ==
        IF b = bins - 2 THEN last ELSE bestSolutions[b + 1][index[b + 1]]
  IN  index

\* The last bin, the way back, and the shift by the number of the threshold.
LastMatch ==
  LET errors == Error(dsize - 1)
      last   == Min({x \in Columns : \A y \in Columns : errors[x] <= errors[y]})
      index  == BestIndex(last)
  IN  /\ pc = "match"
      /\ thresholds' = [b \in DOMAIN index |-> index[b] + b]
      /\ pc' = "done"
      /\ UNCHANGED <<args, l, j, i, k, lo, hi, prevError, bestSolutions>>

Next ==
  \/ FewValues \/ Initialize
  \/ FirstForward \/ FirstInverted
  \/ Accept \/ Rebuild \/ RebuildForward \/ TurnBack \/ RebuildInverted
  \/ EndOfLayer \/ LastMatch

\* One thread that runs until it returns.
Spec == Init /\ [][Next]_vars /\ WF_vars(Next)

-----------------------------------------------------------------------------
(***************************************************************************)
(* Properties                                                              *)
(***************************************************************************)

\* The sum of the penalties of the bins cut behind the positions of a set.
Cost(cuts) ==
  MapThenSumSet(LAMBDA c : Penalty[type][Sum(Max({b \in cuts : b < c} \cup {-1}) + 1, c)], cuts \cup {wsize - 1})

\* What the name SplitWithGuaranteedOptimum says: the thresholds make as many
\* bins as can be, none of them empty, and no other choice is cheaper, though
\* only two local minima of every column are looked at.
GuaranteedOptimum ==
  LET inner == 0 .. (wsize - 2)
      cuts  == {thresholds[b] : b \in DOMAIN thresholds} \cap inner
  IN  pc = "done" =>
        /\ Cardinality(cuts) = (IF bordersCount < wsize - 1 THEN bordersCount ELSE wsize - 1)
        /\ \A other \in kSubset(Cardinality(cuts), inner) : Cost(cuts) <= Cost(other) + bins * Eps

\* The rebuilding of a layer comes to an end.
SplitEnds == pc = "start" ~> pc = "done"

=============================================================================
