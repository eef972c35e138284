----------------------------- MODULE FeatureMap ------------------------------
(***************************************************************************)
(* The map file, which says which bin of a binary pool belongs to which    *)
(* feature: OutputBinFeatureMap writes it, ReadBinToFeatureMap reads it    *)
(* line by line (cmicot/lib/io.cpp), and BinarizeWithMap                   *)
(* (cmicot/lib/binarize.h) regroups the bins of the pool by it.            *)
(*                                                                         *)
(* A line is a pair <<featureIndex, binIndex>>; the contents of a bin are  *)
(* its position in the pool.  The numbers of a file are within int: the    *)
(* code reads ui64 and keeps the feature as an int.  Module BinaryPool     *)
(* says where the file comes from.                                         *)
(***************************************************************************)
EXTENDS BinFeatureSet

VARIABLES
  file,            \* lines of the map; a line that is cut has one element
  poolBins,        \* number of bins of the pool, -1 if the pool has no column
  lineNo,          \* number of lines read
  binToFeature,    \* the vector ReadBinToFeatureMap builds
  status,          \* "closed", "reading", "read", "done", or the error
  order, fs        \* the bins of the result, and how it cuts them

mapVars == <<file, poolBins, lineNo, binToFeature, status, order, fs>>

Uninitialized == -1
NoBins == [b \in {} |-> Uninitialized]

\* OutputBinFeatureMap: a line for every bin of feature 0, 1, ...; the number
\* of lines written so far is globalBinIndex.
OutputBinFeatureMap(features) ==
  LET lines[k \in 0 .. GetFeatureCount(features)] ==
        IF k = 0 THEN <<>>
        ELSE LET globalBinIndex == Len(lines[k - 1])
             IN  lines[k - 1] \o
                   [j \in 1 .. Cardinality(GetFeatureBinIndexes(features, k - 1)) |->
                      <<k - 1, globalBinIndex + j - 1>>]
  IN  lines[GetFeatureCount(features)]

-----------------------------------------------------------------------------
MapInit ==
  /\ file = <<>> /\ poolBins = 0 /\ lineNo = 0 /\ binToFeature = NoBins
  /\ status = "closed"
  /\ order = <<>> /\ fs = DefaultFeatureSet

StartReading(lines, bins) ==
  /\ status = "closed"
  /\ file' = lines /\ poolBins' = bins
  /\ status' = "reading"
  /\ UNCHANGED <<lineNo, binToFeature, order, fs>>

\* The vector after a resize that makes b one of its indexes.
Reach(map, b) ==
  [i \in DOMAIN map \cup 0 .. b |-> IF i \in DOMAIN map THEN map[i] ELSE Uninitialized]

ReadLine ==
  LET line == file[lineNo + 1]
      f    == line[1]
      b    == line[2]
      map  == Reach(binToFeature, b)
  IN  /\ status = "reading"
      /\ lineNo < Len(file) /\ Len(line) = 2
      /\ binToFeature' = IF map[b] = Uninitialized THEN [map EXCEPT ![b] = f] ELSE map
      /\ status' = IF map[b] = Uninitialized THEN "reading" ELSE "binTwice"
      /\ lineNo' = lineNo + 1
      /\ UNCHANGED <<file, poolBins, order, fs>>

\* The second number is missing.
ReadBrokenLine ==
  /\ status = "reading"
  /\ lineNo < Len(file) /\ Len(file[lineNo + 1]) < 2
  /\ status' = "badNumber"
  /\ UNCHANGED <<file, poolBins, lineNo, binToFeature, order, fs>>

\* Mutant: missing bins are not looked for.
EndOfFileUnchecked ==
  /\ status = "reading"
  /\ lineNo = Len(file)
  /\ status' = "read"
  /\ UNCHANGED <<file, poolBins, lineNo, binToFeature, order, fs>>

EndOfFile ==
  /\ status = "reading"
  /\ lineNo = Len(file)
  /\ status' = IF \E b \in DOMAIN binToFeature : binToFeature[b] = Uninitialized
               THEN "binMissing" ELSE "read"
  /\ UNCHANGED <<file, poolBins, lineNo, binToFeature, order, fs>>

\* The bins of each feature in the order of the pool, from feature 0 to the
\* largest one of the map; a feature without a line is empty.
Grouped(map) ==
  LET largest == CHOOSE f \in {map[b] : b \in DOMAIN map} : \A b \in DOMAIN map : map[b] <= f
  IN  [k \in 1 .. (largest + 1) |-> Ascending({b \in DOMAIN map : map[b] = k - 1})]

\* The concatenation of sequences.
Concat(groups) ==
  LET c[k \in 0 .. Len(groups)] == IF k = 0 THEN <<>> ELSE c[k - 1] \o groups[k]
  IN  c[Len(groups)]

\* Mutant: the numbers of bins are not compared.
BinarizeUnchecked ==
  /\ status = "read" /\ poolBins >= 0 /\ binToFeature # NoBins
  /\ LET groups == Grouped(binToFeature)
     IN  order' = Concat(groups) /\ fs' = AddFeatures([k \in DOMAIN groups |-> Len(groups[k])])
  /\ status' = "done"
  /\ UNCHANGED <<file, poolBins, lineNo, binToFeature>>

\* A pool without columns has no label, an empty map no largest element:
\* neither is looked for.
BinarizeNothing ==
  /\ status = "read"
  /\ poolBins < 0 \/ (poolBins = 0 /\ binToFeature = NoBins)
  /\ status' = "undefined"
  /\ UNCHANGED <<file, poolBins, lineNo, binToFeature, order, fs>>

WrongSize ==
  /\ status = "read"
  /\ poolBins >= 0 /\ Cardinality(DOMAIN binToFeature) # poolBins
  /\ status' = "wrongSize"
  /\ UNCHANGED <<file, poolBins, lineNo, binToFeature, order, fs>>

BinarizeWithMap ==
  /\ status = "read"
  /\ poolBins > 0 /\ Cardinality(DOMAIN binToFeature) = poolBins
  /\ LET groups == Grouped(binToFeature)
     IN  order' = Concat(groups) /\ fs' = AddFeatures([k \in DOMAIN groups |-> Len(groups[k])])
  /\ status' = "done"
  /\ UNCHANGED <<file, poolBins, lineNo, binToFeature>>

ReadMap == ReadLine \/ ReadBrokenLine \/ EndOfFile \/ BinarizeNothing \/ WrongSize \/ BinarizeWithMap

-----------------------------------------------------------------------------
(***************************************************************************)
(* Properties                                                              *)
(***************************************************************************)

\* A map is accepted exactly if it names every bin of the pool once and no
\* other bin, in whatever order its lines stand.
AcceptedIffComplete ==
  status \notin {"closed", "reading", "read"} =>
    (status = "done" <=>
       /\ poolBins > 0 /\ Len(file) = poolBins
       /\ \A i \in DOMAIN file : Len(file[i]) = 2
       /\ {file[i][2] : i \in DOMAIN file} = 0 .. (poolBins - 1))

\* In the result every bin of the pool is in the feature its line names, and
\* the bins of a feature keep their order.
BinsInTheirFeatures ==
  status = "done" =>
    /\ \A i \in DOMAIN file : \E k \in DOMAIN order :
         /\ order[k] = file[i][2]
         /\ GetFeatureIndexByBinIndex(fs, k - 1) = file[i][1]
    /\ \A j, k \in DOMAIN order :
         /\ j < k
         /\ GetFeatureIndexByBinIndex(fs, j - 1) = GetFeatureIndexByBinIndex(fs, k - 1)
         => order[j] < order[k]

=============================================================================
