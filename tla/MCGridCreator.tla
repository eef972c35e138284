---------------------------- MODULE MCGridCreator -----------------------------
(***************************************************************************)
(* The two halves of the grid creator side by side: the label's way        *)
(* through its binarizers and the file, and the dynamic program two of     *)
(* them call.  In every behaviour only one of them runs.                   *)
(***************************************************************************)
EXTENDS LabelExport

\* A format with the given number of significands and units.
Format(significands, units) ==
  LET whole == (1 - significands) .. (significands - 1)
  IN  [numbers |-> {m * u : m \in whole, u \in units},
       even    |-> {m * u : m \in {k \in whole : k % 2 = 0}, u \in units}]

MCFloat == Format(8, {2, 4, 8, 16, 32, 64, 128})
MCDouble == Format(16, {1, 2, 4, 8, 16, 32, 64})

\* As floats 20, 24 and 28 are neighbours, 26 becomes 24 and 44 becomes 48.
MCVectors ==
  UNION {{v \in [0 .. (n - 1) -> {-6, 20, 24, 26, 28, 44}] : \A p \in 1 .. (n - 1) : v[p - 1] <= v[p]} : n \in 1 .. 5}
MCModes == {"median", "medianPlusUniform", "medianInBin", "optimal"}

-----------------------------------------------------------------------------
\* The dynamic program

MCWeightVectors == UNION {[0 .. (n - 1) -> {1, 3, 8}] : n \in {1, 3, 6}} \cup [0 .. 7 -> {1, 7}]

\* w * log(w + 1e-8) and -log(w + 1e-8) scaled by a million.
MinEntropy ==
  LET table == <<0, 0, 1386294, 3295837, 5545177, 8047190, 10750557, 13621371,
                16635532, 19775021, 23025851, 26376848, 29818880, 33344342, 36946803, 40620753,
                44361420, 48164627, 52026692, 55944341, 59914645, 63934971, 68002934, 72116367,
                76273292, 80471896, 84710510, 88987595, 93301726, 97651579, 102035921, 106453603,
                110903549, 115384750, 119896258, 124437182, 129006682, 133603963, 138228274, 142878904,
                147555178, 152256455, 156982124, 161731605, 166504344, 171299812, 176117504, 180956937,
                185817649, 190699195, 195601150, 200523107, 205464673, 210425471, 215405139, 220403325,
                225419695>>
  IN  [w \in 0 .. 56 |-> table[w + 1]]
MaxSumLog ==
  LET table == <<18420681, 0, -693147, -1098612, -1386294, -1609438, -1791759, -1945910,
                -2079442, -2197225, -2302585, -2397895, -2484907, -2564949, -2639057, -2708050,
                -2772589, -2833213, -2890372, -2944439, -2995732, -3044522, -3091042, -3135494,
                -3178054, -3218876, -3258097, -3295837, -3332205, -3367296, -3401197, -3433987,
                -3465736, -3496508, -3526361, -3555348, -3583519, -3610918, -3637586, -3663562,
                -3688879, -3713572, -3737670, -3761200, -3784190, -3806662, -3828641, -3850148,
                -3871201, -3891820, -3912023, -3931826, -3951244, -3970292, -3988984, -4007333,
                -4025352>>
  IN  [w \in 0 .. 56 |-> table[w + 1]]
MCPenalty == [MinEntropy |-> MinEntropy, MaxSumLog |-> MaxSumLog]

VARIABLES weights, count, type, step, l, j, i, k, lo, hi, prevError, bestSolutions, cuts

Program ==
  INSTANCE OptimalSplit
    WITH WeightVectors <- MCWeightVectors, BordersCounts <- 1 .. 4, Penalty <- MCPenalty, Eps <- 4,
         bordersCount <- count, pc <- step, thresholds <- cuts

programVars == <<weights, count, type, step, l, j, i, k, lo, hi, prevError, bestSolutions, cuts>>

NoProgram ==
  /\ weights = <<>> /\ count = 0 /\ type = "" /\ step = "idle"
  /\ l = 0 /\ j = 0 /\ i = 0 /\ k = 0 /\ lo = <<>> /\ hi = <<>>
  /\ prevError = <<>> /\ bestSolutions = <<>> /\ cuts = <<>>

NoLabel ==
  /\ feature = <<>> /\ values = <<>> /\ bordersCount = 0 /\ mode = "" /\ splits = {} /\ thresholds = {}
  /\ done = FALSE /\ borders = {} /\ pc = "raw" /\ bins = <<>> /\ codes = <<>> /\ bins2 = <<>>

MCInit == (Init /\ NoProgram) \/ (Program!Init /\ NoLabel)

MCNext ==
  \/ Next /\ UNCHANGED programVars
  \/ Program!Next /\ UNCHANGED vars

\* The dynamic program is one thread that runs until it returns.
MCSpec == MCInit /\ [][MCNext]_<<vars, programVars>> /\ WF_programVars(Program!Next)

\* What the name SplitWithGuaranteedOptimum says of the dynamic program.
GuaranteedOptimum == Program!GuaranteedOptimum

\* The rebuilding of the layers comes to an end.
SplitEnds == Program!SplitEnds

=============================================================================
