-------------------------- MODULE BinaryPool_proofs ---------------------------
(***************************************************************************)
(* For every map file and every number of bins of the pool: the map is     *)
(* accepted if and only if it names every bin once, and then               *)
(* BinarizeWithMap puts every bin into the feature its line names.         *)
(*                                                                         *)
(* And for every export, wherever the process dies or a write fails: the   *)
(* second run reports an error or gets what was exported.  The argument is *)
(* that a map that lost its end is never complete (CutIsIncomplete): a     *)
(* number that lost digits is smaller, so that the last bin has no line.   *)
(***************************************************************************)
EXTENDS BinaryPool, FiniteSetTheorems, SequenceTheorems, WellFoundedInduction, TLAPS

(***************************************************************************)
(* The reader in any environment: the file has any lines of at most two    *)
(* numbers, the pool any number of bins, or no column.                     *)
(***************************************************************************)
Line == {s \in Seq(Nat) : Len(s) <= 2}

MapNext ==
  \/ \E text \in Seq(Line), bins \in {-1} \cup Nat : StartReading(text, bins)
  \/ ReadMap

MapSpec == MapInit /\ [][MapNext]_mapVars

(***************************************************************************)
(* The inductive invariant.                                                *)
(***************************************************************************)
Statuses == {"closed", "reading", "read", "done", "binTwice", "badNumber", "binMissing",
             "undefined", "wrongSize"}

TypeOK ==
  /\ file \in Seq(Line)
  /\ poolBins \in {-1} \cup Nat
  /\ lineNo \in 0 .. Len(file)
  /\ status \in Statuses
  /\ binToFeature \in [DOMAIN binToFeature -> {Uninitialized} \cup Nat]

\* The vector ends at the largest bin that was named.
VectorInv ==
  \E n \in Nat : /\ DOMAIN binToFeature = 0 .. (n - 1)
                 /\ n > 0 => binToFeature[n - 1] # Uninitialized

\* It holds the lines read, and only these.
LinesInv ==
  /\ \A i \in 1 .. lineNo : Len(file[i]) = 2 /\ file[i][2] \in DOMAIN binToFeature
  /\ \A b \in DOMAIN binToFeature :
       binToFeature[b] # Uninitialized => \E i \in 1 .. lineNo : file[i][2] = b
  /\ status # "binTwice" =>
       /\ \A i \in 1 .. lineNo : binToFeature[file[i][2]] = file[i][1]
       /\ \A i, k \in 1 .. lineNo : file[i][2] = file[k][2] => i = k

\* What has been found when reading ends.
StatusInv ==
  /\ status = "closed" => lineNo = 0 /\ binToFeature = NoBins
  /\ status = "binTwice" => \E i, k \in 1 .. lineNo : i # k /\ file[i][2] = file[k][2]
  /\ status = "badNumber" => lineNo < Len(file) /\ Len(file[lineNo + 1]) < 2
  /\ status = "binMissing" => /\ lineNo = Len(file)
                               /\ \E b \in DOMAIN binToFeature : binToFeature[b] = Uninitialized
  /\ status \in {"read", "done", "wrongSize", "undefined"} =>
       /\ lineNo = Len(file)
       /\ \A b \in DOMAIN binToFeature : binToFeature[b] # Uninitialized
  /\ status = "wrongSize" => poolBins >= 0 /\ Cardinality(DOMAIN binToFeature) # poolBins
  /\ status = "undefined" => poolBins <= 0
  /\ status = "done" =>
       /\ poolBins > 0 /\ Cardinality(DOMAIN binToFeature) = poolBins
       /\ order = Concat(Grouped(binToFeature))
       /\ fs = AddFeatures([k \in DOMAIN Grouped(binToFeature) |-> Len(Grouped(binToFeature)[k])])

MapInv == TypeOK /\ VectorInv /\ LinesInv /\ StatusInv

-----------------------------------------------------------------------------
(***************************************************************************)
(* The invariant is preserved.                                             *)
(***************************************************************************)

\* A line has at most two numbers.
LEMMA LinesOfFile ==
  ASSUME TypeOK
  PROVE  /\ Len(file) \in Nat /\ DOMAIN file = 1 .. Len(file) /\ lineNo \in 0 .. Len(file)
         /\ \A i \in 1 .. Len(file) : /\ Len(file[i]) \in 0 .. 2
                                      /\ Len(file[i]) = 2 => file[i][1] \in Nat /\ file[i][2] \in Nat
  <1>1. file \in Seq(Line) /\ lineNo \in 0 .. Len(file)
    BY DEF TypeOK
  <1>2. Len(file) \in Nat /\ DOMAIN file = 1 .. Len(file) /\ \A i \in 1 .. Len(file) : file[i] \in Line
    BY <1>1, LenProperties, ElementOfSeq
  <1>3. ASSUME NEW s \in Line
        PROVE  Len(s) \in 0 .. 2 /\ (Len(s) = 2 => s[1] \in Nat /\ s[2] \in Nat)
    <2>1. s \in Seq(Nat) /\ Len(s) \in Nat /\ Len(s) <= 2
      BY LenProperties DEF Line
    <2>2. \A i \in 1 .. Len(s) : s[i] \in Nat
      BY <2>1, ElementOfSeq
    <2>3. Len(s) \in 0 .. 2
      <3>1. \A n \in Nat : n <= 2 => n \in 0 .. 2
        OBVIOUS
      <3> QED BY <2>1, <3>1
    <2>4. Len(s) = 2 => 1 \in 1 .. Len(s) /\ 2 \in 1 .. Len(s)
      OBVIOUS
    <2> QED BY <2>2, <2>3, <2>4
  <1> QED BY <1>1, <1>2, <1>3

\* Reading begins.
LEMMA StartReadingInv ==
  ASSUME MapInv, NEW text \in Seq(Line), NEW bins \in {-1} \cup Nat, StartReading(text, bins)
  PROVE  MapInv'
  <1>1. /\ file' = text /\ poolBins' = bins /\ lineNo' = 0 /\ lineNo = 0 /\ status' = "reading"
        /\ status = "closed" /\ binToFeature' = NoBins /\ binToFeature = NoBins
    BY DEF MapInv, StatusInv, StartReading
  <1>2. DOMAIN NoBins = {} /\ \A b \in {} : NoBins[b] \in Nat
    BY DEF NoBins
  <1>3. TypeOK'
    <2>1. Len(text) \in Nat
      BY LenProperties
    <2>2. NoBins \in [{} -> {Uninitialized} \cup Nat]
      BY DEF NoBins
    <2> QED BY <1>1, <1>2, <2>1, <2>2 DEF TypeOK, Statuses
  <1>4. VectorInv'
    BY <1>1 DEF MapInv, VectorInv
  <1>5. LinesInv'
    BY <1>1, <1>2 DEF LinesInv
  <1>6. StatusInv'
    BY <1>1 DEF StatusInv
  <1> QED BY <1>3, <1>4, <1>5, <1>6 DEF MapInv

\* A line with two numbers: its bin is new, or it is the second one.
LEMMA ReadLineInv ==
  ASSUME MapInv, ReadLine
  PROVE  MapInv'
  <1> DEFINE L == lineNo + 1
             f == file[L][1]
             b == file[L][2]
             D == DOMAIN binToFeature
             vector == Reach(binToFeature, b)
  <1>1. /\ status = "reading" /\ lineNo < Len(file) /\ Len(file[L]) = 2
        /\ binToFeature' = IF vector[b] = Uninitialized THEN [vector EXCEPT ![b] = f] ELSE vector
        /\ status' = IF vector[b] = Uninitialized THEN "reading" ELSE "binTwice"
        /\ lineNo' = L /\ file' = file /\ poolBins' = poolBins
    BY DEF ReadLine
  <1>2. /\ Len(file) \in Nat /\ lineNo \in Nat /\ L \in 1 .. Len(file)
        /\ f \in Nat /\ b \in Nat
        /\ \A i \in 1 .. L : i = L \/ i \in 1 .. lineNo
        /\ L \in 1 .. L /\ L \notin 1 .. lineNo /\ 1 .. lineNo \subseteq 1 .. L
    <2>1. Len(file) \in Nat /\ lineNo \in Nat /\ L \in 1 .. Len(file)
      <3>1. Len(file) \in Nat /\ lineNo \in 0 .. Len(file) /\ lineNo < Len(file)
        BY <1>1, LinesOfFile DEF MapInv
      <3> QED BY <3>1
    <2>2. f \in Nat /\ b \in Nat
      BY <1>1, <2>1, LinesOfFile DEF MapInv
    <2> HIDE DEF f, b, vector
    <2> QED BY <2>1, <2>2
  <1>3. PICK n \in Nat : D = 0 .. (n - 1) /\ (n > 0 => binToFeature[n - 1] # Uninitialized)
    BY DEF MapInv, VectorInv
  <1>4. /\ vector = [i \in D \cup 0 .. b |-> IF i \in D THEN binToFeature[i] ELSE Uninitialized]
        /\ DOMAIN vector = D \cup 0 .. b /\ b \in DOMAIN vector
    BY <1>2 DEF Reach
  <1>5. \A i \in DOMAIN vector : vector[i] = IF i \in D THEN binToFeature[i] ELSE Uninitialized
    BY <1>4
  <1>6. \A i \in D : binToFeature[i] \in {Uninitialized} \cup Nat
    BY DEF MapInv, TypeOK
  <1>7. \A i \in 1 .. lineNo : /\ Len(file[i]) = 2 /\ file[i][2] \in D
                               /\ binToFeature[file[i][2]] = file[i][1] /\ file[i][1] \in Nat
    <2>1. \A i \in 1 .. lineNo : i \in 1 .. Len(file)
      <3>1. lineNo < Len(file)
        BY <1>1
      <3> QED BY <1>2, <3>1
    <2> QED BY <1>1, <2>1, LinesOfFile DEF MapInv, LinesInv
  <1>8. /\ \A i \in D : binToFeature[i] # Uninitialized => \E k \in 1 .. lineNo : file[k][2] = i
        /\ \A i, k \in 1 .. lineNo : file[i][2] = file[k][2] => i = k
    BY <1>1 DEF MapInv, LinesInv
  <1>9. Uninitialized \notin Nat
    BY DEF Uninitialized
  <1> HIDE DEF L, f, b, D, vector
  <1>10. CASE vector[b] = Uninitialized
    <2>1. /\ status' = "reading" /\ binToFeature' = [vector EXCEPT ![b] = f]
          /\ DOMAIN binToFeature' = D \cup 0 .. b
          /\ binToFeature'[b] = f
          /\ \A i \in DOMAIN vector : i # b => binToFeature'[i] = vector[i]
      BY <1>1, <1>4, <1>10
    <2>2. \A i \in 1 .. lineNo : file[i][2] # b
      BY <1>5, <1>7, <1>9, <1>10, <1>4
    <2>3. \A i \in D : i # b => binToFeature'[i] = binToFeature[i]
      BY <1>4, <1>5, <2>1
    <2>4. TypeOK'
      <3>1. \A i \in DOMAIN binToFeature' : binToFeature'[i] \in {Uninitialized} \cup Nat
        BY <1>2, <1>4, <1>5, <1>6, <2>1
      <3>2. binToFeature' \in [DOMAIN binToFeature' -> {Uninitialized} \cup Nat]
        BY <2>1, <3>1
      <3>3. lineNo' \in 0 .. Len(file)
        <4>1. lineNo' = L
          BY <1>1
        <4> QED BY <1>2, <4>1
      <3> QED BY <1>1, <2>1, <3>2, <3>3 DEF MapInv, TypeOK, Statuses
    <2>5. VectorInv'
      <3>1. CASE b < n
        <4>1. D \cup 0 .. b = D
          BY <1>2, <1>3, <3>1
        <4>2. n > 0 => binToFeature'[n - 1] # Uninitialized
          <5> SUFFICES ASSUME n > 0 PROVE binToFeature'[n - 1] # Uninitialized
            OBVIOUS
          <5>1. n - 1 \in D
            BY <1>3
          <5> QED BY <1>2, <1>3, <1>9, <2>1, <2>3, <5>1
        <4> QED BY <1>3, <2>1, <4>1, <4>2 DEF VectorInv
      <3>2. CASE ~(b < n)
        <4>1. D \cup 0 .. b = 0 .. ((b + 1) - 1) /\ b + 1 \in Nat /\ (b + 1) - 1 = b
          BY <1>2, <1>3, <3>2
        <4>2. binToFeature'[(b + 1) - 1] # Uninitialized
          BY <1>2, <1>9, <2>1, <4>1
        <4> QED BY <2>1, <4>1, <4>2 DEF VectorInv
      <3> QED BY <3>1, <3>2
    <2>6. LinesInv'
      <3>1. \A i \in 1 .. L : /\ Len(file[i]) = 2 /\ file[i][2] \in DOMAIN binToFeature'
                              /\ binToFeature'[file[i][2]] = file[i][1]
        <4> TAKE i \in 1 .. L
        <4>1. CASE i = L
          BY <1>1, <1>4, <2>1, <4>1 DEF L, f, b
        <4>2. CASE i \in 1 .. lineNo
          BY <1>7, <2>1, <2>2, <2>3, <4>2
        <4> QED BY <1>2, <4>1, <4>2
      <3>2. ASSUME NEW i \in DOMAIN binToFeature', binToFeature'[i] # Uninitialized
            PROVE  \E k \in 1 .. L : file[k][2] = i
        <4>1. CASE i = b
          BY <1>2, <4>1 DEF b
        <4>2. CASE i # b
          <5>1. i \in D /\ binToFeature[i] # Uninitialized
            BY <1>4, <1>5, <2>1, <3>2, <4>2
          <5> QED BY <1>2, <1>8, <5>1
        <4> QED BY <4>1, <4>2
      <3>3. ASSUME NEW i \in 1 .. L, NEW k \in 1 .. L, file[i][2] = file[k][2]
            PROVE  i = k
        <4>1. file[L][2] = b
          BY DEF b
        <4> QED BY <1>2, <1>8, <2>2, <3>3, <4>1
      <3> QED BY <1>1, <3>1, <3>2, <3>3 DEF LinesInv
    <2>7. StatusInv'
      BY <2>1 DEF StatusInv
    <2> QED BY <2>4, <2>5, <2>6, <2>7 DEF MapInv
  <1>11. CASE vector[b] # Uninitialized
    <2>1. b \in D /\ binToFeature[b] # Uninitialized
      BY <1>4, <1>5, <1>11
    <2>2. D \cup 0 .. b = D
      BY <1>2, <1>3, <2>1
    <2>3. vector = binToFeature
      <3>1. binToFeature = [i \in D |-> binToFeature[i]]
        BY DEF MapInv, TypeOK, D
      <3>2. vector = [i \in D |-> IF i \in D THEN binToFeature[i] ELSE Uninitialized]
        BY <1>4, <2>2
      <3> QED BY <3>1, <3>2
    <2>4. status' = "binTwice" /\ binToFeature' = binToFeature
      BY <1>1, <1>11, <2>3
    <2>5. PICK k \in 1 .. lineNo : file[k][2] = b
      BY <1>8, <2>1
    <2>6. TypeOK'
      <3>1. lineNo' \in 0 .. Len(file)
        <4>1. lineNo' = L
          BY <1>1
        <4> QED BY <1>2, <4>1
      <3> QED BY <1>1, <2>4, <3>1 DEF MapInv, TypeOK, Statuses
    <2>7. VectorInv'
      BY <2>4 DEF MapInv, VectorInv
    <2>8. LinesInv'
      <3>1. \A i \in 1 .. L : Len(file[i]) = 2 /\ file[i][2] \in D
        <4> TAKE i \in 1 .. L
        <4>1. file[L][2] = b
          BY DEF b
        <4> QED BY <1>1, <1>2, <1>7, <2>1, <4>1
      <3>2. \A i \in D : binToFeature[i] # Uninitialized => \E j \in 1 .. L : file[j][2] = i
        BY <1>2, <1>8
      <3> QED BY <1>1, <2>4, <3>1, <3>2 DEF LinesInv, D
    <2>9. StatusInv'
      <3>1. \E i, j \in 1 .. L : i # j /\ file[i][2] = file[j][2]
        <4>1. k \in 1 .. L /\ k # L /\ file[L][2] = b
          BY <1>2 DEF b
        <4> QED BY <1>2, <2>5, <4>1
      <3> QED BY <1>1, <2>4, <3>1 DEF StatusInv
    <2> QED BY <2>6, <2>7, <2>8, <2>9 DEF MapInv
  <1> QED BY <1>10, <1>11

\* The other steps leave the vector and the lines alone.
LEMMA SameLines ==
  ASSUME MapInv, UNCHANGED <<file, poolBins, lineNo, binToFeature>>, status # "binTwice",
         status' \in Statuses \ {"binTwice"}
  PROVE  TypeOK' /\ VectorInv' /\ LinesInv'
  <1>1. TypeOK'
    BY DEF MapInv, TypeOK
  <1>2. VectorInv'
    BY DEF MapInv, VectorInv
  <1>3. LinesInv'
    BY DEF MapInv, LinesInv
  <1> QED BY <1>1, <1>2, <1>3

\* A line is cut.
LEMMA ReadBrokenLineInv ==
  ASSUME MapInv, ReadBrokenLine
  PROVE  MapInv'
  <1>1. TypeOK' /\ VectorInv' /\ LinesInv'
    BY SameLines DEF ReadBrokenLine, Statuses
  <1>2. StatusInv'
    BY DEF StatusInv, ReadBrokenLine
  <1> QED BY <1>1, <1>2 DEF MapInv

\* The file has been read.
LEMMA EndOfFileInv ==
  ASSUME MapInv, EndOfFile
  PROVE  MapInv'
  <1>1. TypeOK' /\ VectorInv' /\ LinesInv'
    BY SameLines DEF EndOfFile, Statuses
  <1>2. StatusInv'
    BY DEF StatusInv, EndOfFile
  <1> QED BY <1>1, <1>2 DEF MapInv

\* There is nothing to binarize.
LEMMA BinarizeNothingInv ==
  ASSUME MapInv, BinarizeNothing
  PROVE  MapInv'
  <1>1. TypeOK' /\ VectorInv' /\ LinesInv'
    BY SameLines DEF BinarizeNothing, Statuses
  <1>2. poolBins <= 0
    BY DEF BinarizeNothing, MapInv, TypeOK
  <1>3. StatusInv'
    BY <1>2 DEF MapInv, StatusInv, BinarizeNothing
  <1> QED BY <1>1, <1>3 DEF MapInv

\* The pool has another number of bins.
LEMMA WrongSizeInv ==
  ASSUME MapInv, WrongSize
  PROVE  MapInv'
  <1>1. TypeOK' /\ VectorInv' /\ LinesInv'
    BY SameLines DEF WrongSize, Statuses
  <1>2. StatusInv'
    BY DEF MapInv, StatusInv, WrongSize
  <1> QED BY <1>1, <1>2 DEF MapInv

\* The bins are regrouped.
LEMMA BinarizeWithMapInv ==
  ASSUME MapInv, BinarizeWithMap
  PROVE  MapInv'
  <1>1. TypeOK' /\ VectorInv' /\ LinesInv'
    BY SameLines DEF BinarizeWithMap, Statuses
  <1>2. StatusInv'
    BY DEF MapInv, StatusInv, BinarizeWithMap
  <1> QED BY <1>1, <1>2 DEF MapInv

\* Nothing has been read.
LEMMA MapInitInv ==
  ASSUME MapInit
  PROVE  MapInv
  <1>1. /\ file = <<>> /\ poolBins = 0 /\ lineNo = 0 /\ status = "closed"
        /\ binToFeature = NoBins /\ DOMAIN binToFeature = {}
        /\ binToFeature \in [{} -> {Uninitialized} \cup Nat]
    BY DEF MapInit, NoBins
  <1>2. TypeOK
    BY <1>1 DEF TypeOK, Statuses
  <1>3. VectorInv
    <2>1. DOMAIN binToFeature = 0 .. (0 - 1)
      BY <1>1
    <2> QED BY <2>1 DEF VectorInv
  <1>4. LinesInv
    BY <1>1 DEF LinesInv
  <1>5. StatusInv
    BY <1>1 DEF StatusInv
  <1> QED BY <1>2, <1>3, <1>4, <1>5 DEF MapInv

\* A step of the reader, or none.
LEMMA ReadMapInv ==
  ASSUME MapInv, ReadMap \/ UNCHANGED mapVars
  PROVE  MapInv'
  <1>1. CASE UNCHANGED mapVars
    <2>1. TypeOK' /\ VectorInv'
      BY <1>1 DEF MapInv, TypeOK, VectorInv, mapVars
    <2>2. LinesInv'
      BY <1>1 DEF MapInv, LinesInv, mapVars
    <2>3. StatusInv'
      BY <1>1 DEF MapInv, StatusInv, mapVars
    <2> QED BY <2>1, <2>2, <2>3 DEF MapInv
  <1>2. CASE ReadMap
    BY <1>2, ReadLineInv, ReadBrokenLineInv, EndOfFileInv, BinarizeNothingInv, WrongSizeInv,
       BinarizeWithMapInv DEF ReadMap
  <1> QED BY <1>1, <1>2

\* The invariant of the reader.
THEOREM MapInvariance == MapSpec => []MapInv
  <1>1. MapInit => MapInv
    BY MapInitInv
  <1>2. MapInv /\ [MapNext]_mapVars => MapInv'
    BY StartReadingInv, ReadMapInv DEF MapNext
  <1> QED BY <1>1, <1>2, PTL DEF MapSpec

-----------------------------------------------------------------------------
(***************************************************************************)
(* Which maps are accepted.                                                *)
(***************************************************************************)

\* A vector of n bins has n bins.
LEMMA VectorSize ==
  ASSUME NEW n \in Nat
  PROVE  IsFiniteSet(0 .. (n - 1)) /\ Cardinality(0 .. (n - 1)) = n
  <1>1. IsFiniteSet(0 .. (n - 1)) /\ Cardinality(0 .. (n - 1)) = IF 0 > n - 1 THEN 0 ELSE (n - 1) - 0 + 1
    BY FS_Interval
  <1> QED BY <1>1

Decided == status \notin {"closed", "reading", "read"}
Complete ==
  /\ poolBins > 0 /\ Len(file) = poolBins
  /\ \A i \in DOMAIN file : Len(file[i]) = 2
  /\ {file[i][2] : i \in DOMAIN file} = 0 .. (poolBins - 1)

\* A map that is accepted names every bin of the pool once.
LEMMA AcceptedIsComplete ==
  ASSUME MapInv, status = "done"
  PROVE  Complete
  <1>1. PICK n \in Nat : DOMAIN binToFeature = 0 .. (n - 1)
    BY DEF MapInv, VectorInv
  <1>2. /\ lineNo = Len(file) /\ poolBins > 0 /\ Cardinality(DOMAIN binToFeature) = poolBins
        /\ \A b \in DOMAIN binToFeature : binToFeature[b] # Uninitialized
    BY DEF MapInv, StatusInv
  <1>3. poolBins = n
    BY <1>1, <1>2, VectorSize
  <1>4. PICK m \in Nat : m = Len(file) /\ DOMAIN file = 1 .. m
    BY LinesOfFile DEF MapInv
  <1>5. /\ \A i \in 1 .. m : Len(file[i]) = 2 /\ file[i][2] \in 0 .. (n - 1)
        /\ \A b \in 0 .. (n - 1) : \E i \in 1 .. m : file[i][2] = b
        /\ \A i, k \in 1 .. m : file[i][2] = file[k][2] => i = k
    BY <1>1, <1>2, <1>4 DEF MapInv, LinesInv
  <1> DEFINE bin == [i \in 1 .. m |-> file[i][2]]
  <1>6. bin \in [1 .. m -> 0 .. (n - 1)] /\ \A i \in 1 .. m : bin[i] = file[i][2]
    BY <1>5
  <1> HIDE DEF bin
  <1>7. bin \in Injection(1 .. m, 0 .. (n - 1)) /\ bin \in Surjection(1 .. m, 0 .. (n - 1))
    <2>1. \A i, k \in 1 .. m : bin[i] = bin[k] => i = k
      <3> TAKE i \in 1 .. m, k \in 1 .. m
      <3>1. bin[i] = file[i][2] /\ bin[k] = file[k][2]
        BY <1>6
      <3> QED BY <1>5, <3>1
    <2>2. \A b \in 0 .. (n - 1) : \E i \in 1 .. m : bin[i] = b
      <3> TAKE b \in 0 .. (n - 1)
      <3>1. PICK i \in 1 .. m : file[i][2] = b
        BY <1>5
      <3> QED BY <1>6, <3>1
    <2> QED BY <1>6, <2>1, <2>2 DEF Injection, IsInjective, Surjection
  <1>8. Cardinality(1 .. m) = n
    BY <1>7, VectorSize, FS_Injection
  <1>9. Cardinality(1 .. m) = m
    <2>1. Cardinality(1 .. m) = IF 1 > m THEN 0 ELSE m - 1 + 1
      BY FS_Interval
    <2> QED BY <2>1
  <1>10. {file[i][2] : i \in 1 .. m} = 0 .. (n - 1)
    BY <1>5
  <1> QED BY <1>2, <1>3, <1>4, <1>5, <1>8, <1>9, <1>10 DEF Complete

\* A map that names every bin of the pool once is accepted.
LEMMA CompleteIsAccepted ==
  ASSUME MapInv, Complete, Decided
  PROVE  status = "done"
  <1>1. PICK m \in Nat : m = Len(file) /\ DOMAIN file = 1 .. m /\ poolBins = m /\ lineNo \in 0 .. m
                         /\ poolBins > 0
    BY LinesOfFile DEF MapInv, Complete
  <1>2. /\ \A i \in 1 .. m : Len(file[i]) = 2 /\ file[i][2] \in 0 .. (m - 1)
        /\ \A b \in 0 .. (m - 1) : \E i \in 1 .. m : file[i][2] = b
    BY <1>1 DEF Complete
  <1>3. PICK n \in Nat : /\ DOMAIN binToFeature = 0 .. (n - 1)
                         /\ n > 0 => binToFeature[n - 1] # Uninitialized
    BY DEF MapInv, VectorInv
  <1>4. status # "binTwice"
    <2> SUFFICES ASSUME status = "binTwice"
                 PROVE  FALSE
      OBVIOUS
    <2>1. PICK i \in 1 .. m, k \in 1 .. m : i # k /\ file[i][2] = file[k][2]
      <3>1. \A i \in 1 .. lineNo : i \in 1 .. m
        BY <1>1
      <3> QED BY <3>1 DEF MapInv, StatusInv
    <2> DEFINE bin == [j \in 1 .. m |-> file[j][2]]
    <2>2. bin \in [1 .. m -> 0 .. (m - 1)] /\ \A j \in 1 .. m : bin[j] = file[j][2]
      BY <1>2
    <2> HIDE DEF bin
    <2>3. bin \in Surjection(1 .. m, 0 .. (m - 1))
      <3>1. \A b \in 0 .. (m - 1) : \E j \in 1 .. m : bin[j] = b
        <4> TAKE b \in 0 .. (m - 1)
        <4>1. PICK j \in 1 .. m : file[j][2] = b
          BY <1>2
        <4> QED BY <2>2, <4>1
      <3> QED BY <2>2, <3>1 DEF Surjection
    <2>4. IsFiniteSet(1 .. m) /\ Cardinality(1 .. m) = Cardinality(0 .. (m - 1))
      <3>1. IsFiniteSet(1 .. m) /\ Cardinality(1 .. m) = IF 1 > m THEN 0 ELSE m - 1 + 1
        BY FS_Interval
      <3>2. Cardinality(1 .. m) = m
        BY <3>1
      <3> QED BY <3>1, <3>2, VectorSize
    <2>5. bin \in Injection(1 .. m, 0 .. (m - 1))
      BY <2>3, <2>4, FS_SurjSameCardinalityImpliesInj
    <2> QED BY <2>1, <2>2, <2>5 DEF Injection, IsInjective
  <1>5. status # "badNumber"
    <2> SUFFICES ASSUME status = "badNumber"
                 PROVE  FALSE
      OBVIOUS
    <2>1. lineNo < m /\ Len(file[lineNo + 1]) < 2
      BY <1>1 DEF MapInv, StatusInv
    <2>2. lineNo + 1 \in 1 .. m
      BY <1>1, <2>1
    <2>3. Len(file[lineNo + 1]) = 2
      BY <1>2, <2>2
    <2> QED BY <2>1, <2>3
  <1>6. status # "binMissing"
    <2> SUFFICES ASSUME status = "binMissing"
                 PROVE  FALSE
      OBVIOUS
    <2>1. PICK b \in 0 .. (n - 1) : binToFeature[b] = Uninitialized
      BY <1>3 DEF MapInv, StatusInv
    <2>2. lineNo = m
      BY <1>1 DEF MapInv, StatusInv
    <2>3. n > 0 /\ n - 1 \in 0 .. (n - 1)
      BY <2>1
    <2>4. PICK i \in 1 .. m : file[i][2] = n - 1
      BY <1>3, <2>2, <2>3 DEF MapInv, LinesInv
    <2>5. n - 1 \in 0 .. (m - 1)
      BY <1>2, <2>4
    <2>6. b \in 0 .. (m - 1)
      BY <2>1, <2>5
    <2>7. PICK k \in 1 .. m : file[k][2] = b
      BY <1>2, <2>6
    <2>8. binToFeature[b] = file[k][1] /\ file[k][1] \in Nat
      <3>1. binToFeature[b] = file[k][1]
        BY <2>2, <2>7 DEF MapInv, LinesInv
      <3>2. file[k][1] \in Nat
        BY <1>1, <1>2, LinesOfFile DEF MapInv
      <3> QED BY <3>1, <3>2
    <2> QED BY <2>1, <2>8 DEF Uninitialized
  <1>7. status # "wrongSize"
    <2> SUFFICES ASSUME status = "wrongSize"
                 PROVE  FALSE
      OBVIOUS
    <2>1. lineNo = m /\ Cardinality(DOMAIN binToFeature) # m
      BY <1>1 DEF MapInv, StatusInv
    <2>2. \A b \in 0 .. (n - 1) : \E i \in 1 .. m : file[i][2] = b
      BY <1>1, <1>3 DEF MapInv, StatusInv, LinesInv
    <2>3. \A i \in 1 .. m : file[i][2] \in 0 .. (n - 1)
      BY <1>3, <2>1 DEF MapInv, LinesInv
    <2>4. 0 .. (n - 1) = 0 .. (m - 1)
      BY <1>2, <2>2, <2>3
    <2> QED BY <1>3, <2>1, <2>4, VectorSize
  <1>8. status # "undefined"
    BY <1>1 DEF MapInv, StatusInv
  <1> QED BY <1>4, <1>5, <1>6, <1>7, <1>8 DEF MapInv, TypeOK, Statuses, Decided

\* What is accepted, from the invariant.
LEMMA AcceptedFromMapInv ==
  ASSUME MapInv
  PROVE  AcceptedIffComplete
  BY AcceptedIsComplete, CompleteIsAccepted DEF AcceptedIffComplete, Complete, Decided

\* A map is accepted exactly if it names every bin of the pool once and no
\* other bin (the checks of ReadBinToFeatureMap and of BinarizeWithMap), for
\* every file and every pool.
THEOREM MapsAccepted == MapSpec => []AcceptedIffComplete
  BY AcceptedFromMapInv, MapInvariance, PTL

-----------------------------------------------------------------------------
(***************************************************************************)
(* The elements of a finite set of numbers in order.                       *)
(***************************************************************************)

\* A set of natural numbers has a smallest element.
LEMMA SmallestNat ==
  ASSUME NEW T \in SUBSET Nat, T # {}
  PROVE  \E x \in T : \A y \in T : x <= y
  <1>1. PICK x \in T : \A y \in T : <<y, x>> \notin OpToRel(<, Nat)
    BY NatLessThanWellFounded, WFMin
  <1>2. \A y \in T : ~(y < x)
    BY <1>1 DEF OpToRel
  <1> QED BY <1>2

Rank(S, x) == Cardinality({y \in S : y <= x})

\* Ranks grow with the elements, and each is that of one element.
LEMMA Ranks ==
  ASSUME NEW S \in SUBSET Int, IsFiniteSet(S)
  PROVE  /\ Cardinality(S) \in Nat
         /\ \A x \in S : Rank(S, x) \in 1 .. Cardinality(S)
         /\ \A x, y \in S : x < y => Rank(S, x) < Rank(S, y)
         /\ \A i \in 1 .. Cardinality(S) : \E x \in S : Rank(S, x) = i
  <1> DEFINE below(x) == {y \in S : y <= x}
             n == Cardinality(S)
             rank == [x \in S |-> Rank(S, x)]
  <1>1. n \in Nat
    BY FS_CardinalityType
  <1>2. \A x \in S : below(x) \in SUBSET S /\ IsFiniteSet(below(x)) /\ Cardinality(below(x)) \in Nat
    BY FS_Subset, FS_CardinalityType
  <1>3. \A x \in S : Cardinality(below(x)) \in 1 .. n
    <2> TAKE x \in S
    <2>1. x \in below(x)
      OBVIOUS
    <2>2. Cardinality(below(x)) # 0
      BY <1>2, <2>1, FS_EmptySet
    <2>3. Cardinality(below(x)) <= n
      BY <1>2, FS_Subset
    <2> QED BY <1>1, <1>2, <2>2, <2>3
  <1>4. ASSUME NEW x \in S, NEW y \in S, x < y
        PROVE  Cardinality(below(x)) < Cardinality(below(y))
    <2>1. below(x) \in SUBSET below(y) /\ y \in below(y) /\ y \notin below(x)
      <3>1. \A u \in Int : u <= x => u <= y
        BY <1>4
      <3>2. ~(y <= x) /\ y <= y
        BY <1>4
      <3> QED BY <3>1, <3>2
    <2>2. /\ IsFiniteSet(below(y)) /\ Cardinality(below(x)) \in Nat /\ Cardinality(below(y)) \in Nat
      BY <1>2
    <2> HIDE DEF below
    <2>3. Cardinality(below(x)) <= Cardinality(below(y)) /\ Cardinality(below(x)) # Cardinality(below(y))
      BY <2>1, <2>2, FS_Subset
    <2> QED BY <2>2, <2>3
  <1>5. \A x \in S : rank[x] = Cardinality(below(x)) /\ Rank(S, x) = Cardinality(below(x))
    BY DEF Rank
  <1> HIDE DEF below
  <1>6. rank \in [S -> 1 .. n]
    BY <1>3, <1>5
  <1>7. ASSUME NEW x \in S, NEW y \in S, rank[x] = rank[y]
        PROVE  x = y
    <2>1. x < y \/ y < x \/ x = y
      OBVIOUS
    <2>2. /\ Cardinality(below(x)) = Cardinality(below(y))
          /\ Cardinality(below(x)) \in Nat /\ Cardinality(below(y)) \in Nat
      BY <1>2, <1>5, <1>7
    <2> QED BY <1>4, <2>1, <2>2
  <1>8. rank \in Injection(S, 1 .. n)
    BY <1>6, <1>7 DEF Injection, IsInjective
  <1>9. IsFiniteSet(1 .. n) /\ Cardinality(1 .. n) = n
    <2>1. IsFiniteSet(1 .. n) /\ Cardinality(1 .. n) = IF 1 > n THEN 0 ELSE n - 1 + 1
      BY <1>1, FS_Interval
    <2> QED BY <1>1, <2>1
  <1>10. rank \in Surjection(S, 1 .. n)
    BY <1>8, <1>9, FS_Injection
  <1>11. \A i \in 1 .. n : \E x \in S : rank[x] = i
    BY <1>10 DEF Surjection
  <1> QED BY <1>1, <1>3, <1>4, <1>5, <1>11

\* Ascending enumerates a set upwards.
LEMMA AscendingEnumerates ==
  ASSUME NEW S \in SUBSET Nat, IsFiniteSet(S)
  PROVE  /\ Cardinality(S) \in Nat
         /\ Ascending(S) \in [1 .. Cardinality(S) -> Nat]
         /\ \A i \in 1 .. Cardinality(S) : Ascending(S)[i] \in S
         /\ \A i, j \in 1 .. Cardinality(S) : i < j => Ascending(S)[i] < Ascending(S)[j]
         /\ \A x \in S : \E i \in 1 .. Cardinality(S) : Ascending(S)[i] = x
  <1> DEFINE n == Cardinality(S)
             a == Ascending(S)
  <1>0. S \in SUBSET Int
    OBVIOUS
  <1>1. /\ n \in Nat /\ \A x \in S : Rank(S, x) \in 1 .. n
        /\ \A x, y \in S : x < y => Rank(S, x) < Rank(S, y)
    BY <1>0, Ranks
  <1>2. a = [i \in 1 .. n |-> CHOOSE x \in S : Rank(S, x) = i]
    BY DEF Ascending, Rank
  <1>3. \A i \in 1 .. n : a[i] \in S /\ Rank(S, a[i]) = i
    <2> TAKE i \in 1 .. n
    <2>1. \E x \in S : Rank(S, x) = i
      BY <1>0, Ranks
    <2> QED BY <1>2, <2>1
  <1>4. a \in [1 .. n -> Nat]
    BY <1>2, <1>3
  <1> HIDE DEF a, n
  <1>5. ASSUME NEW x \in S, NEW y \in S, Rank(S, x) = Rank(S, y)
        PROVE  x = y
    <2>1. x < y \/ y < x \/ x = y
      OBVIOUS
    <2>2. Rank(S, x) \in Nat /\ Rank(S, y) \in Nat
      BY <1>1
    <2> QED BY <1>1, <1>5, <2>1, <2>2
  <1>6. ASSUME NEW i \in 1 .. n, NEW j \in 1 .. n, i < j
        PROVE  a[i] < a[j]
    <2>1. a[i] \in S /\ a[j] \in S /\ Rank(S, a[i]) = i /\ Rank(S, a[j]) = j
      BY <1>3
    <2>2. a[i] \in Nat /\ a[j] \in Nat
      BY <2>1
    <2>3. a[i] # a[j] /\ ~(a[j] < a[i])
      <3>1. i # j /\ ~(j < i)
        BY <1>1, <1>6
      <3>2. a[j] < a[i] => Rank(S, a[j]) < Rank(S, a[i])
        BY <1>1, <2>1
      <3> QED BY <2>1, <3>1, <3>2
    <2> QED BY <2>2, <2>3
  <1>7. \A x \in S : \E i \in 1 .. n : a[i] = x
    <2> TAKE x \in S
    <2>1. Rank(S, x) \in 1 .. n
      BY <1>1
    <2>2. Rank(S, a[Rank(S, x)]) = Rank(S, x) /\ a[Rank(S, x)] \in S
      BY <1>3, <2>1
    <2> QED BY <1>5, <2>1, <2>2
  <1> QED BY <1>1, <1>3, <1>4, <1>6, <1>7 DEF a, n

\* A finite set of numbers has a largest element.
LEMMA LargestElement ==
  ASSUME NEW S \in SUBSET Nat, IsFiniteSet(S), S # {}
  PROVE  \E x \in S : \A y \in S : y <= x
  <1>1. Cardinality(S) \in Nat /\ Cardinality(S) # 0
    BY FS_CardinalityType, FS_EmptySet
  <1>2. PICK z \in S : Rank(S, z) = Cardinality(S)
    <2>1. S \in SUBSET Int /\ Cardinality(S) \in 1 .. Cardinality(S)
      BY <1>1
    <2> QED BY <2>1, Ranks
  <1>3. {y \in S : y <= z} = S
    <2>1. {y \in S : y <= z} \in SUBSET S /\ Cardinality({y \in S : y <= z}) = Cardinality(S)
      BY <1>2 DEF Rank
    <2> QED BY <2>1, FS_Subset
  <1> QED BY <1>3

-----------------------------------------------------------------------------
(***************************************************************************)
(* The bins of all features, one feature after the other: c[k] holds those *)
(* of the first k, and at[k] is their number.                              *)
(***************************************************************************)
Prefixes(K, G, c) ==
  /\ DOMAIN c = 0 .. K
  /\ c[0] = <<>>
  /\ \A k \in 1 .. K : c[k] = c[k - 1] \o G[k]

Offsets(K, G, at) ==
  /\ at \in [0 .. K -> Nat] /\ at[0] = 0
  /\ \A k \in 1 .. K : at[k] = at[k - 1] + Len(G[k])

\* The bins of all features, laid out one feature after the other.
LaidOut(K, G, at, bins) ==
  /\ DOMAIN bins = 1 .. at[K]
  /\ \A k \in 1 .. K : \A q \in 1 .. Len(G[k]) :
       at[k - 1] + q \in 1 .. at[K] /\ bins[at[k - 1] + q] = G[k][q]

\* Concat is the last of its prefixes.
LEMMA ConcatUnfolds ==
  ASSUME NEW K \in Nat, NEW G, Len(G) = K
  PROVE  \E c : Prefixes(K, G, c) /\ Concat(G) = c[K]
  <1> DEFINE Rec(m, c) == c = [k \in 0 .. m |-> IF k = 0 THEN <<>> ELSE c[k - 1] \o G[k]]
             bad == {m \in 0 .. K : ~\E c : Rec(m, c)}
  <1>1. bad = {}
    <2> SUFFICES ASSUME bad # {} PROVE FALSE
      OBVIOUS
    <2>1. PICK m \in bad : \A x \in bad : m <= x
      <3>1. bad \in SUBSET Nat
        <4> HIDE DEF Rec
        <4> QED OBVIOUS
      <3> HIDE DEF bad
      <3> QED BY <3>1, SmallestNat
    <2>2. m \in 0 .. K /\ ~\E c : Rec(m, c)
      OBVIOUS
    <2>3. CASE m = 0
      <3> DEFINE c == [k \in 0 .. 0 |-> <<>>]
      <3>1. [k \in 0 .. 0 |-> IF k = 0 THEN <<>> ELSE c[k - 1] \o G[k]] = c
        OBVIOUS
      <3> QED BY <2>2, <2>3, <3>1
    <2>4. CASE m # 0
      <3>1. m - 1 \in 0 .. K /\ ~(m <= m - 1) /\ m - 1 \in Nat
        BY <2>2, <2>4
      <3>2. m - 1 \notin bad
        BY <2>1, <3>1
      <3>3. PICK c : Rec(m - 1, c)
        BY <3>1, <3>2
      <3> DEFINE d == [k \in 0 .. m |-> IF k = m THEN c[m - 1] \o G[m] ELSE c[k]]
      <3>4. \A k \in 0 .. (m - 1) : /\ k \in 0 .. m /\ k # m
                                    /\ c[k] = IF k = 0 THEN <<>> ELSE c[k - 1] \o G[k]
        <4> HIDE DEF bad, d
        <4>1. \A k \in 0 .. (m - 1) : k \in 0 .. m /\ k # m
          <5> HIDE DEF Rec
          <5> QED BY <2>2
        <4>2. c = [k \in 0 .. (m - 1) |-> IF k = 0 THEN <<>> ELSE c[k - 1] \o G[k]]
          BY <3>3
        <4>3. \A k \in 0 .. (m - 1) : c[k] = IF k = 0 THEN <<>> ELSE c[k - 1] \o G[k]
          BY ONLY <4>2
        <4> QED BY <4>1, <4>3
      <3>5. ASSUME NEW k \in 0 .. m
            PROVE  d[k] = IF k = 0 THEN <<>> ELSE d[k - 1] \o G[k]
        <4>1. CASE k = m
          <5>1. m - 1 \in 0 .. m /\ m - 1 # m
            BY <2>2, <2>4
          <5>2. d[m - 1] = c[m - 1]
            BY <5>1
          <5> QED BY <2>4, <4>1, <5>2
        <4>2. CASE k # m
          <5>1. k \in 0 .. (m - 1)
            BY <2>2, <4>2
          <5>2. d[k] = c[k]
            BY <4>2
          <5>3. k # 0 => k - 1 \in 0 .. m /\ k - 1 # m
            BY <2>2, <5>1
          <5>4. k # 0 => d[k - 1] = c[k - 1]
            BY <5>3
          <5> HIDE DEF d
          <5> QED BY <3>4, <5>1, <5>2, <5>4
        <4> QED BY <4>1, <4>2
      <3>6. Rec(m, d)
        <4>1. d = [k \in 0 .. m |-> d[k]]
          OBVIOUS
        <4> HIDE DEF d
        <4> QED BY <3>5, <4>1
      <3> QED BY <2>2, <3>6
    <2> QED BY <2>3, <2>4
  <1>2. \E c : Rec(K, c)
    <2>1. K \in 0 .. K
      OBVIOUS
    <2> HIDE DEF Rec
    <2> QED BY <1>1, <2>1
  <1> DEFINE c == CHOOSE c : Rec(K, c)
  <1>3. Rec(K, c)
    BY <1>2
  <1>4. Concat(G) = c[K]
    BY DEF Concat
  <1> HIDE DEF c, bad
  <1>5. Prefixes(K, G, c)
    <2>1. DOMAIN c = 0 .. K
      BY <1>3
    <2>2. \A k \in 0 .. K : c[k] = IF k = 0 THEN <<>> ELSE c[k - 1] \o G[k]
      BY <1>3
    <2>3. 0 \in 0 .. K /\ \A k \in 1 .. K : k \in 0 .. K /\ k # 0
      OBVIOUS
    <2> HIDE DEF Rec
    <2> QED BY <2>1, <2>2, <2>3 DEF Prefixes
  <1> QED BY <1>4, <1>5

\* The number of bins of the first features grows, and every position lies in
\* one feature.
LEMMA OffsetsGrow ==
  ASSUME NEW S, NEW K \in Nat, NEW G \in [1 .. K -> Seq(S)], NEW at, Offsets(K, G, at)
  PROVE  /\ \A j, k \in 0 .. K : j <= k => at[j] <= at[k]
         /\ \A p \in 1 .. at[K] : \E k \in 1 .. K : at[k - 1] < p /\ p <= at[k]
  <1>1. /\ \A k \in 0 .. K : at[k] \in Nat
        /\ at[0] = 0
        /\ \A k \in 1 .. K : at[k - 1] \in Nat /\ at[k - 1] <= at[k]
    <2>1. /\ \A k \in 0 .. K : at[k] \in Nat
          /\ at[0] = 0 /\ \A k \in 1 .. K : at[k] = at[k - 1] + Len(G[k])
      BY DEF Offsets
    <2>2. ASSUME NEW k \in 1 .. K
          PROVE  at[k - 1] \in Nat /\ at[k - 1] <= at[k]
      <3>1. Len(G[k]) \in Nat
        BY LenProperties
      <3>2. k - 1 \in 0 .. K
        OBVIOUS
      <3> QED BY <2>1, <3>1, <3>2
    <2> QED BY <2>1, <2>2
  <1>2. ASSUME NEW j \in 0 .. K
        PROVE  \A k \in 0 .. K : j <= k => at[j] <= at[k]
    <2> DEFINE bad == {k \in 0 .. K : j <= k /\ ~(at[j] <= at[k])}
    <2> SUFFICES ASSUME bad # {} PROVE FALSE
      OBVIOUS
    <2>1. PICK m \in bad : \A x \in bad : m <= x
      <3>1. bad \in SUBSET Nat
        OBVIOUS
      <3> HIDE DEF bad
      <3> QED BY <3>1, SmallestNat
    <2>2. m \in 0 .. K /\ j <= m /\ ~(at[j] <= at[m])
      OBVIOUS
    <2>3. m # j
      <3>1. at[j] \in Nat
        BY <1>1
      <3> QED BY <2>2, <3>1
    <2>4. m - 1 \in 0 .. K /\ j <= m - 1 /\ ~(m <= m - 1) /\ m \in 1 .. K
      BY <2>2, <2>3
    <2>5. m - 1 \notin bad
      BY <2>1, <2>4
    <2>6. at[j] <= at[m - 1]
      BY <2>4, <2>5
    <2>7. at[m - 1] <= at[m] /\ at[j] \in Nat /\ at[m - 1] \in Nat /\ at[m] \in Nat
      BY <1>1, <2>2, <2>4
    <2> HIDE DEF bad
    <2> QED BY <2>2, <2>6, <2>7
  <1>3. ASSUME NEW p \in 1 .. at[K]
        PROVE  \E k \in 1 .. K : at[k - 1] < p /\ p <= at[k]
    <2> DEFINE T == {k \in 0 .. K : p <= at[k]}
    <2>0. K \in 0 .. K /\ at[K] \in Nat
      BY <1>1
    <2>1. T \in SUBSET Nat /\ K \in T
      BY <2>0
    <2>2. PICK k \in T : \A x \in T : k <= x
      <3> HIDE DEF T
      <3> QED BY <2>1, SmallestNat
    <2>3. k \in 0 .. K /\ p <= at[k]
      OBVIOUS
    <2>4. k # 0
      BY <1>1, <2>0, <2>3
    <2>5. k \in 1 .. K /\ k - 1 \in 0 .. K /\ ~(k <= k - 1)
      BY <2>3, <2>4
    <2>6. k - 1 \notin T
      BY <2>2, <2>5
    <2>7. ~(p <= at[k - 1]) /\ at[k - 1] \in Nat
      BY <1>1, <2>5, <2>6
    <2>8. p \in Nat
      BY <2>0
    <2>9. at[k - 1] < p
      <3> HIDE DEF T
      <3> QED BY <2>7, <2>8
    <2> QED BY <2>3, <2>5, <2>9
  <1> QED BY <1>2, <1>3

\* The positions of a feature hold its bins.
LEMMA PrefixesHold ==
  ASSUME NEW S, NEW K \in Nat, NEW G \in [1 .. K -> Seq(S)], NEW c, Prefixes(K, G, c)
  PROVE  \E at : /\ Offsets(K, G, at) /\ LaidOut(K, G, at, c[K])
                 /\ \A k \in 0 .. K : at[k] = Len(c[k]) /\ c[k] \in Seq(S)
  <1> DEFINE at == [k \in 0 .. K |-> Len(c[k])]
  <1>1. /\ c[0] = <<>>
        /\ \A k \in 1 .. K : c[k] = c[k - 1] \o G[k] /\ G[k] \in Seq(S) /\ Len(G[k]) \in Nat
    BY LenProperties DEF Prefixes
  <1>2. \A k \in 0 .. K : c[k] \in Seq(S)
    <2> DEFINE bad == {k \in 0 .. K : c[k] \notin Seq(S)}
    <2> SUFFICES ASSUME bad # {} PROVE FALSE
      OBVIOUS
    <2>1. PICK m \in bad : \A x \in bad : m <= x
      <3>1. bad \in SUBSET Nat
        OBVIOUS
      <3> HIDE DEF bad
      <3> QED BY <3>1, SmallestNat
    <2>2. m \in 0 .. K /\ c[m] \notin Seq(S)
      OBVIOUS
    <2>3. m # 0
      <3>1. <<>> \in Seq(S)
        OBVIOUS
      <3> QED BY <1>1, <2>2, <3>1
    <2>4. m - 1 \in 0 .. K /\ m \in 1 .. K /\ ~(m <= m - 1)
      BY <2>2, <2>3
    <2>5. m - 1 \notin bad
      BY <2>1, <2>4
    <2>6. c[m - 1] \in Seq(S)
      BY <2>4, <2>5
    <2>7. c[m - 1] \o G[m] \in Seq(S)
      BY <1>1, <2>4, <2>6, ConcatProperties
    <2> QED BY <1>1, <2>2, <2>4, <2>7
  <1>3. \A k \in 0 .. K : at[k] = Len(c[k]) /\ at[k] \in Nat /\ DOMAIN c[k] = 1 .. at[k]
    <2> TAKE k \in 0 .. K
    <2>1. c[k] \in Seq(S) /\ at[k] = Len(c[k])
      BY <1>2
    <2> HIDE DEF at
    <2> QED BY <2>1, LenProperties
  <1>4. /\ \A k \in 1 .. K : k \in 0 .. K /\ k - 1 \in 0 .. K
        /\ 0 \in 0 .. K /\ K \in 0 .. K
    OBVIOUS
  <1>5. \A k \in 1 .. K :
          /\ at[k] = at[k - 1] + Len(G[k])
          /\ \A i \in 1 .. at[k - 1] + Len(G[k]) :
               c[k][i] = IF i <= at[k - 1] THEN c[k - 1][i] ELSE G[k][i - at[k - 1]]
    <2> TAKE k \in 1 .. K
    <2>1. c[k - 1] \in Seq(S) /\ G[k] \in Seq(S) /\ c[k] = c[k - 1] \o G[k]
      BY <1>1, <1>2, <1>4
    <2>2. at[k] = Len(c[k]) /\ at[k - 1] = Len(c[k - 1])
      BY <1>3, <1>4
    <2> HIDE DEF at
    <2> QED BY <2>1, <2>2, ConcatProperties
  <1>6. Offsets(K, G, at)
    <2>1. at \in [0 .. K -> Nat]
      BY <1>3
    <2>2. at[0] = 0
      <3>1. Len(<<>>) = 0
        OBVIOUS
      <3> QED BY <1>1, <1>3, <1>4, <3>1
    <2> HIDE DEF at
    <2> QED BY <1>5, <2>1, <2>2 DEF Offsets
  <1> HIDE DEF at
  <1>7. \A j, k \in 0 .. K : j <= k => at[j] <= at[k]
    BY <1>6, OffsetsGrow
  <1>8. ASSUME NEW j \in 0 .. K, NEW i \in 1 .. at[j]
        PROVE  \A k \in 0 .. K : j <= k => c[k][i] = c[j][i]
    <2> DEFINE bad == {k \in 0 .. K : j <= k /\ c[k][i] # c[j][i]}
    <2> SUFFICES ASSUME bad # {} PROVE FALSE
      OBVIOUS
    <2>1. PICK m \in bad : \A x \in bad : m <= x
      <3>1. bad \in SUBSET Nat
        OBVIOUS
      <3> HIDE DEF bad
      <3> QED BY <3>1, SmallestNat
    <2>2. m \in 0 .. K /\ j <= m /\ c[m][i] # c[j][i]
      OBVIOUS
    <2>3. m # j
      BY <2>2
    <2>4. m - 1 \in 0 .. K /\ j <= m - 1 /\ ~(m <= m - 1) /\ m \in 1 .. K
      BY <2>2, <2>3
    <2>5. m - 1 \notin bad
      BY <2>1, <2>4
    <2>6. c[m - 1][i] = c[j][i]
      BY <2>4, <2>5
    <2> HIDE DEF bad
    <2>7. at[j] <= at[m - 1] /\ at[j] \in Nat /\ at[m - 1] \in Nat /\ Len(G[m]) \in Nat
      BY <1>1, <1>3, <1>7, <2>4
    <2>8. i <= at[m - 1] /\ i \in 1 .. at[m - 1] + Len(G[m])
      BY <2>7
    <2>9. c[m][i] = c[m - 1][i]
      BY <1>5, <2>4, <2>8
    <2> QED BY <2>2, <2>6, <2>9
  <1>9. ASSUME NEW k \in 1 .. K, NEW q \in 1 .. Len(G[k])
        PROVE  at[k - 1] + q \in 1 .. at[K] /\ c[K][at[k - 1] + q] = G[k][q]
    <2>1. /\ at[k - 1] \in Nat /\ at[k] \in Nat /\ at[K] \in Nat /\ Len(G[k]) \in Nat
          /\ at[k] = at[k - 1] + Len(G[k])
      BY <1>1, <1>3, <1>4, <1>5
    <2>2. at[k] <= at[K]
      <3>1. k <= K
        OBVIOUS
      <3> QED BY <1>4, <1>7, <3>1
    <2>3. /\ at[k - 1] + q \in 1 .. at[k] /\ at[k - 1] + q \in 1 .. at[K]
          /\ ~(at[k - 1] + q <= at[k - 1]) /\ (at[k - 1] + q) - at[k - 1] = q
      <3>1. \A x, y, z, n \in Nat : y = x + n /\ y <= z /\ q \in 1 .. n =>
              /\ x + q \in 1 .. y /\ x + q \in 1 .. z /\ ~(x + q <= x) /\ (x + q) - x = q
        OBVIOUS
      <3> QED BY <2>1, <2>2, <3>1
    <2>4. c[k][at[k - 1] + q] = G[k][q]
      <3>1. at[k - 1] + q \in 1 .. at[k - 1] + Len(G[k])
        BY <2>1, <2>3
      <3> QED BY <1>5, <2>3, <3>1
    <2>5. c[K][at[k - 1] + q] = c[k][at[k - 1] + q]
      <3>1. k <= K
        OBVIOUS
      <3> QED BY <1>4, <1>8, <2>3, <3>1
    <2> QED BY <2>3, <2>4, <2>5
  <1>10. DOMAIN c[K] = 1 .. at[K]
    BY <1>3, <1>4
  <1>11. LaidOut(K, G, at, c[K])
    BY <1>9, <1>10 DEF LaidOut
  <1> QED BY <1>2, <1>3, <1>6, <1>11

\* A function on 1 .. n is a sequence of length n.
LEMMA FunctionIsSequence ==
  ASSUME NEW S, NEW n \in Nat, NEW f \in [1 .. n -> S]
  PROVE  f \in Seq(S) /\ Len(f) = n
  <1>1. f \in Seq(S)
    BY SeqDef
  <1>2. Len(f) \in Nat /\ 1 .. Len(f) = 1 .. n
    BY <1>1, LenProperties
  <1> QED BY <1>1, <1>2

\* The numbers of bins of the features.
CountsOf(K, G, counts) == Len(counts) = K /\ \A k \in 1 .. K : counts[k] = Len(G[k])

\* AddFeature for one feature after the other: a feature starts where the bins
\* of those before it end.
LEMMA AddFeaturesResult ==
  ASSUME NEW K \in Nat, NEW G, NEW at, Offsets(K, G, at),
         NEW counts, CountsOf(K, G, counts)
  PROVE  AddFeatures(counts) = [binCount |-> at[K], start |-> [i \in 1 .. K |-> at[i - 1]]]
  <1> DEFINE starts(k) == [i \in 1 .. k |-> at[i - 1]]
             w(k) == [binCount |-> at[k], start |-> starts(k)]
             Rec(a) == a = [k \in 0 .. K |-> IF k = 0 THEN DefaultFeatureSet
                                             ELSE AddFeature(a[k - 1], counts[k])]
  <1>0. Len(counts) = K /\ \A k \in 1 .. K : counts[k] = Len(G[k])
    <2> HIDE DEF starts, w, Rec
    <2> QED BY DEF CountsOf
  <1>1. /\ \A k \in 0 .. K : at[k] \in Nat
        /\ at[0] = 0
        /\ \A k \in 1 .. K : at[k] = at[k - 1] + counts[k] /\ k - 1 \in 0 .. K
    <2> HIDE DEF starts, w, Rec
    <2>1. /\ at \in [0 .. K -> Nat] /\ at[0] = 0
          /\ \A k \in 1 .. K : at[k] = at[k - 1] + Len(G[k])
      BY DEF Offsets
    <2>2. ASSUME NEW k \in 1 .. K
          PROVE  at[k] = at[k - 1] + counts[k] /\ k - 1 \in 0 .. K
      <3>1. k - 1 \in 0 .. K
        OBVIOUS
      <3> QED BY <1>0, <2>1, <3>1
    <2>3. \A k \in 0 .. K : at[k] \in Nat
      BY <2>1
    <2> QED BY <2>1, <2>2, <2>3
  <1>2. \A k \in 0 .. K : starts(k) \in [1 .. k -> Nat]
    <2> TAKE k \in 0 .. K
    <2>1. \A i \in 1 .. k : i - 1 \in 0 .. K
      OBVIOUS
    <2> QED BY <1>1, <2>1
  <1>3. w(0) = DefaultFeatureSet
    <2>1. 0 \in 0 .. K /\ starts(0) \in [1 .. 0 -> Nat]
      BY <1>2
    <2> HIDE DEF starts
    <2>2. starts(0) \in Seq(Nat) /\ Len(starts(0)) = 0
      BY <2>1, FunctionIsSequence
    <2>3. starts(0) = <<>>
      BY <2>2, EmptySeq
    <2> QED BY <1>1, <2>3 DEF DefaultFeatureSet
  <1>4. \A k \in 1 .. K : AddFeature(w(k - 1), counts[k]) = w(k)
    <2> TAKE k \in 1 .. K
    <2>1. k - 1 \in 0 .. K /\ k \in 0 .. K /\ k - 1 \in Nat /\ k \in Nat /\ at[k - 1] \in Nat
      BY <1>1
    <2>2. starts(k - 1) \in [1 .. (k - 1) -> Nat] /\ starts(k) \in [1 .. k -> Nat]
      BY <1>2, <2>1
    <2>3. /\ \A i \in 1 .. (k - 1) : starts(k - 1)[i] = at[i - 1] /\ starts(k)[i] = at[i - 1]
          /\ starts(k)[k] = at[k - 1]
      OBVIOUS
    <2> HIDE DEF starts
    <2>4. /\ starts(k - 1) \in Seq(Nat) /\ Len(starts(k - 1)) = k - 1
          /\ starts(k) \in Seq(Nat) /\ Len(starts(k)) = k
      BY <2>1, <2>2, FunctionIsSequence
    <2> DEFINE new == Append(starts(k - 1), at[k - 1])
    <2>5. /\ new \in Seq(Nat) /\ Len(new) = (k - 1) + 1
          /\ \A i \in 1 .. (k - 1) : new[i] = starts(k - 1)[i]
          /\ new[(k - 1) + 1] = at[k - 1]
      BY <2>1, <2>4, AppendProperties
    <2> HIDE DEF new
    <2>6. Len(new) = Len(starts(k)) /\ (k - 1) + 1 = k
      BY <2>1, <2>4, <2>5
    <2>7. \A i \in 1 .. Len(new) : new[i] = starts(k)[i]
      <3> TAKE i \in 1 .. Len(new)
      <3>1. i = k \/ i \in 1 .. (k - 1)
        BY <2>1, <2>5, <2>6
      <3> QED BY <2>3, <2>5, <2>6, <3>1
    <2>8. new = starts(k)
      BY <2>4, <2>5, <2>6, <2>7, SeqEqual
    <2>9. AddFeature(w(k - 1), counts[k]) = [binCount |-> at[k - 1] + counts[k], start |-> new]
      BY DEF AddFeature, new
    <2> QED BY <1>1, <2>8, <2>9
  <1> HIDE DEF w, starts
  <1>5. \E a : Rec(a)
    <2> DEFINE a == [k \in 0 .. K |-> w(k)]
    <2>1. \A k \in 0 .. K : a[k] = IF k = 0 THEN DefaultFeatureSet ELSE AddFeature(a[k - 1], counts[k])
      <3> TAKE k \in 0 .. K
      <3>1. CASE k = 0
        BY <1>3, <3>1
      <3>2. CASE k # 0
        <4>1. k \in 1 .. K /\ k - 1 \in 0 .. K
          BY <3>2
        <4>2. a[k - 1] = w(k - 1) /\ a[k] = w(k)
          BY <4>1
        <4> HIDE DEF a
        <4> QED BY <1>4, <3>2, <4>1, <4>2
      <3> QED BY <3>1, <3>2
    <2>2. a = [k \in 0 .. K |-> a[k]]
      OBVIOUS
    <2> HIDE DEF a
    <2>3. Rec(a)
      BY <2>1, <2>2
    <2> QED BY <2>3
  <1> DEFINE a == CHOOSE a : Rec(a)
  <1>6. Rec(a)
    BY <1>5
  <1>7. AddFeatures(counts) = a[K]
    BY <1>0 DEF AddFeatures
  <1> HIDE DEF a
  <1>8. \A k \in 0 .. K : a[k] = IF k = 0 THEN DefaultFeatureSet ELSE AddFeature(a[k - 1], counts[k])
    BY <1>6
  <1> HIDE DEF Rec
  <1>9. \A k \in 0 .. K : a[k] = w(k)
    <2> DEFINE bad == {k \in 0 .. K : a[k] # w(k)}
    <2> SUFFICES ASSUME bad # {} PROVE FALSE
      OBVIOUS
    <2>1. PICK m \in bad : \A x \in bad : m <= x
      <3>1. bad \in SUBSET Nat
        OBVIOUS
      <3> HIDE DEF bad
      <3> QED BY <3>1, SmallestNat
    <2>2. m \in 0 .. K /\ a[m] # w(m)
      OBVIOUS
    <2>3. m # 0
      BY <1>3, <1>8, <2>2
    <2>4. m - 1 \in 0 .. K /\ m \in 1 .. K /\ ~(m <= m - 1)
      BY <2>2, <2>3
    <2>5. m - 1 \notin bad
      BY <2>1, <2>4
    <2>6. a[m - 1] = w(m - 1)
      BY <2>4, <2>5
    <2> HIDE DEF bad
    <2> QED BY <1>4, <1>8, <2>2, <2>3, <2>4, <2>6
  <1>10. K \in 0 .. K
    OBVIOUS
  <1> QED BY <1>7, <1>9, <1>10 DEF w, starts

Grows(K, at) ==
  /\ \A i \in 0 .. K : at[i] \in Nat
  /\ \A i, j \in 0 .. K : i <= j => at[i] <= at[j]

StartsAt(K, at, features) == features.start = [i \in 1 .. K |-> at[i - 1]]

\* GetFeatureIndexByBinIndex finds the feature of a position.
LEMMA FeatureOfPosition ==
  ASSUME NEW K \in Nat, NEW at, Grows(K, at), NEW features, StartsAt(K, at, features),
         NEW k \in 1 .. K, NEW p \in 1 .. at[K], at[k - 1] < p, p <= at[k]
  PROVE  GetFeatureIndexByBinIndex(features, p - 1) = k - 1
  <1> DEFINE start == features.start
             T == {i \in DOMAIN start : \A j \in 1 .. i : start[j] < (p - 1) + 1}
  <1>1. /\ \A i \in 0 .. K : at[i] \in Nat
        /\ \A i, j \in 0 .. K : i <= j => at[i] <= at[j]
    BY DEF Grows
  <1>2. DOMAIN start = 1 .. K /\ \A i \in 1 .. K : start[i] = at[i - 1] /\ i - 1 \in 0 .. K
    <2>1. start = [i \in 1 .. K |-> at[i - 1]]
      BY DEF StartsAt
    <2> HIDE DEF start
    <2> QED BY <2>1
  <1>3. p \in Nat /\ (p - 1) + 1 = p /\ k \in Nat /\ k \in 0 .. K /\ k - 1 \in 0 .. K
    <2>1. K \in 0 .. K /\ at[K] \in Nat
      BY <1>1
    <2> QED BY <2>1
  <1> HIDE DEF start
  <1>4. ASSUME NEW i \in 1 .. K, i <= k, NEW j \in 1 .. i
        PROVE  start[j] < p
    <2>1. j \in 1 .. K /\ j - 1 \in 0 .. K /\ j - 1 <= k - 1
      BY <1>3, <1>4
    <2>2. start[j] = at[j - 1] /\ at[j - 1] <= at[k - 1] /\ at[j - 1] \in Nat /\ at[k - 1] \in Nat
      BY <1>1, <1>2, <1>3, <2>1
    <2>3. at[k - 1] < p
      OBVIOUS
    <2> QED BY <1>3, <2>2, <2>3
  <1>5. ASSUME NEW i \in 1 .. K, ~(i <= k)
        PROVE  ~(start[i] < p)
    <2>1. i - 1 \in 0 .. K /\ k <= i - 1
      BY <1>3, <1>5
    <2>2. start[i] = at[i - 1] /\ at[k] <= at[i - 1] /\ at[k] \in Nat /\ at[i - 1] \in Nat
      BY <1>1, <1>2, <1>3, <2>1
    <2>3. p <= at[k]
      OBVIOUS
    <2> QED BY <1>3, <2>2, <2>3
  <1>6. T = 1 .. k
    <2>1. ASSUME NEW i \in 1 .. k PROVE i \in T
      <3>1. i \in 1 .. K /\ i <= k
        OBVIOUS
      <3> QED BY <1>2, <1>3, <1>4, <3>1
    <2>2. ASSUME NEW i \in T PROVE i \in 1 .. k
      <3>1. i \in 1 .. K /\ i \in 1 .. i
        BY <1>2
      <3>2. start[i] < p
        BY <1>3, <3>1
      <3>3. i <= k
        BY <1>5, <3>1, <3>2
      <3> HIDE DEF T
      <3> QED BY <3>1, <3>3
    <2> HIDE DEF T
    <2> QED BY <2>1, <2>2
  <1>7. Cardinality(1 .. k) = k
    <2>1. Cardinality(1 .. k) = IF 1 > k THEN 0 ELSE k - 1 + 1
      BY <1>3, FS_Interval
    <2> QED BY <1>3, <2>1
  <1>8. GetFeatureIndexByBinIndex(features, p - 1) = Cardinality(T) - 1
    BY DEF GetFeatureIndexByBinIndex, LowerBound, start
  <1> HIDE DEF T
  <1> QED BY <1>6, <1>7, <1>8

-----------------------------------------------------------------------------
(***************************************************************************)
(* BinarizeWithMap regroups the bins of the pool by their features.        *)
(***************************************************************************)

\* Each bin is in the group of its feature, and a group ascends.
InGroups(n, vector, K, G) ==
  /\ G \in [1 .. K -> Seq(Nat)]
  /\ \A b \in 0 .. (n - 1) :
       /\ vector[b] + 1 \in 1 .. K
       /\ \E q \in 1 .. Len(G[vector[b] + 1]) : G[vector[b] + 1][q] = b
  /\ \A k \in 1 .. K : \A i, j \in 1 .. Len(G[k]) : i < j => G[k][i] < G[k][j]

\* So Grouped makes them.
LEMMA GroupsHold ==
  ASSUME NEW n \in Nat, n > 0, NEW vector \in [0 .. (n - 1) -> Nat],
         NEW G, G = Grouped(vector)
  PROVE  \E K \in Nat : InGroups(n, vector, K, G)
  <1> DEFINE D == 0 .. (n - 1)
             range == {vector[b] : b \in D}
             isLargest(f) == \A b \in D : vector[b] <= f
             largest == CHOOSE f \in range : isLargest(f)
             bins(k) == {b \in D : vector[b] = k - 1}
  <1>1. DOMAIN vector = D /\ IsFiniteSet(D) /\ 0 \in D /\ D \in SUBSET Nat
    <2>1. IsFiniteSet(0 .. (n - 1))
      BY FS_Interval
    <2> QED BY <2>1
  <1>2. range \in SUBSET Nat /\ range # {} /\ IsFiniteSet(range)
    <2>1. IsFiniteSet(range)
      <3>1. vector \in Surjection(D, range)
        BY <1>1 DEF Surjection
      <3> HIDE DEF D, range
      <3> QED BY <1>1, <3>1, FS_Surjection
    <2>2. range \in SUBSET Nat
      OBVIOUS
    <2>3. vector[0] \in range
      BY <1>1
    <2> QED BY <2>1, <2>2, <2>3
  <1>3. \E f \in range : isLargest(f)
    <2>1. PICK f \in range : \A y \in range : y <= f
      <3> HIDE DEF range
      <3> QED BY <1>2, LargestElement
    <2>2. \A b \in D : vector[b] \in range
      OBVIOUS
    <2> QED BY <2>1, <2>2
  <1>4. largest \in range /\ isLargest(largest)
    BY <1>3
  <1>5. G = [k \in 1 .. (largest + 1) |-> Ascending(bins(k))]
    BY <1>1 DEF Grouped
  <1> HIDE DEF largest
  <1>6. largest \in Nat /\ \A b \in D : vector[b] <= largest
    BY <1>2, <1>4
  <1> DEFINE K == largest + 1
  <1>7. K \in Nat /\ \A b \in D : vector[b] + 1 \in 1 .. K /\ b \in bins(vector[b] + 1)
    <2>1. K \in Nat
      BY <1>6
    <2>2. ASSUME NEW b \in D
          PROVE  vector[b] + 1 \in 1 .. K /\ b \in bins(vector[b] + 1)
      <3>1. vector[b] \in Nat /\ vector[b] <= largest
        BY <1>6
      <3>2. (vector[b] + 1) - 1 = vector[b] /\ vector[b] + 1 \in 1 .. K
        BY <1>6, <3>1
      <3> QED BY <3>2
    <2> QED BY <2>1, <2>2
  <1>8. ASSUME NEW k \in 1 .. K
        PROVE  /\ G[k] \in Seq(Nat)
               /\ \A b \in bins(k) : \E q \in 1 .. Len(G[k]) : G[k][q] = b
               /\ \A i, j \in 1 .. Len(G[k]) : i < j => G[k][i] < G[k][j]
    <2>1. bins(k) \in SUBSET Nat /\ IsFiniteSet(bins(k))
      BY <1>1, FS_Subset
    <2>2. G[k] = Ascending(bins(k))
      BY <1>5
    <2> HIDE DEF bins
    <2>3. PICK m \in Nat : m = Cardinality(bins(k))
      BY <2>1, AscendingEnumerates
    <2>4. /\ G[k] \in [1 .. m -> Nat]
          /\ \A i, j \in 1 .. m : i < j => G[k][i] < G[k][j]
          /\ \A x \in bins(k) : \E i \in 1 .. m : G[k][i] = x
      BY <2>1, <2>2, <2>3, AscendingEnumerates
    <2>5. G[k] \in Seq(Nat) /\ Len(G[k]) = m
      BY <2>4, FunctionIsSequence
    <2> QED BY <2>4, <2>5
  <1>9. G \in [1 .. K -> Seq(Nat)]
    <2>1. DOMAIN G = 1 .. K /\ G = [k \in 1 .. K |-> G[k]]
      BY <1>5
    <2> QED BY <1>8, <2>1
  <1> HIDE DEF K, bins
  <1>10. \A b \in D : /\ vector[b] + 1 \in 1 .. K
                      /\ \E q \in 1 .. Len(G[vector[b] + 1]) : G[vector[b] + 1][q] = b
    BY <1>7, <1>8
  <1>11. \A k \in 1 .. K : \A i, j \in 1 .. Len(G[k]) : i < j => G[k][i] < G[k][j]
    BY <1>8
  <1>12. InGroups(n, vector, K, G)
    BY <1>9, <1>10, <1>11 DEF InGroups
  <1> QED BY <1>7, <1>12

\* What BinarizeWithMap assigns.
Binarized(vector, bins, features) ==
  /\ bins = Concat(Grouped(vector))
  /\ features = AddFeatures([k \in DOMAIN Grouped(vector) |-> Len(Grouped(vector)[k])])

\* What BinarizeWithMap makes of a map that names every bin.
LEMMA Regrouped ==
  ASSUME NEW n \in Nat, n > 0, NEW vector \in [0 .. (n - 1) -> Nat],
         NEW bins, NEW features, Binarized(vector, bins, features)
  PROVE  /\ \A b \in 0 .. (n - 1) : \E p \in DOMAIN bins :
              bins[p] = b /\ GetFeatureIndexByBinIndex(features, p - 1) = vector[b]
         /\ \A j, k \in DOMAIN bins :
              /\ j < k
              /\ GetFeatureIndexByBinIndex(features, j - 1) = GetFeatureIndexByBinIndex(features, k - 1)
              => bins[j] < bins[k]
  <1>0. PICK G : G = Grouped(vector)
    OBVIOUS
  <1>1. PICK K \in Nat : InGroups(n, vector, K, G)
    BY <1>0, GroupsHold
  <1>2. PICK counts : counts = [k \in 1 .. K |-> Len(G[k])]
    OBVIOUS
  <1>3. bins = Concat(G) /\ features = AddFeatures(counts) /\ Len(G) = K
    <2>1. DOMAIN G = 1 .. K /\ Len(G) = K
      BY <1>1, FunctionIsSequence DEF InGroups
    <2> QED BY <1>0, <1>2, <2>1 DEF Binarized
  <1>4. PICK c : Prefixes(K, G, c) /\ Concat(G) = c[K]
    BY <1>3, ConcatUnfolds
  <1>5. PICK at : Offsets(K, G, at) /\ LaidOut(K, G, at, bins)
    <2>1. G \in [1 .. K -> Seq(Nat)] /\ Prefixes(K, G, c) /\ bins = c[K]
      BY <1>1, <1>3, <1>4 DEF InGroups
    <2> QED BY <2>1, PrefixesHold
  <1>6. StartsAt(K, at, features)
    <2>1. counts \in [1 .. K -> Nat] /\ \A k \in 1 .. K : counts[k] = Len(G[k])
      <3>1. \A k \in 1 .. K : Len(G[k]) \in Nat
        BY <1>1, LenProperties DEF InGroups
      <3> QED BY <1>2, <3>1
    <2>2. Len(counts) = K
      BY <2>1, FunctionIsSequence
    <2>3. Offsets(K, G, at)
      BY <1>5
    <2>4. AddFeatures(counts) = [binCount |-> at[K], start |-> [i \in 1 .. K |-> at[i - 1]]]
      <3>1. CountsOf(K, G, counts)
        BY <2>1, <2>2 DEF CountsOf
      <3> QED BY <2>3, <3>1, AddFeaturesResult
    <2> QED BY <1>3, <2>4 DEF StartsAt
  <1>7. /\ \A k \in 0 .. K : at[k] \in Nat
        /\ \A k \in 1 .. K : /\ k - 1 \in 0 .. K /\ at[k - 1] \in Nat /\ at[k] \in Nat
                             /\ Len(G[k]) \in Nat /\ at[k] = at[k - 1] + Len(G[k])
    <2>1. /\ at \in [0 .. K -> Nat]
          /\ \A k \in 1 .. K : at[k] = at[k - 1] + Len(G[k])
      BY <1>5 DEF Offsets
    <2>2. ASSUME NEW k \in 1 .. K
          PROVE  /\ k - 1 \in 0 .. K /\ at[k - 1] \in Nat /\ at[k] \in Nat
                 /\ Len(G[k]) \in Nat /\ at[k] = at[k - 1] + Len(G[k])
      <3>1. k - 1 \in 0 .. K /\ k \in 0 .. K
        OBVIOUS
      <3>2. Len(G[k]) \in Nat
        BY <1>1, LenProperties DEF InGroups
      <3> QED BY <2>1, <3>1, <3>2
    <2>3. \A k \in 0 .. K : at[k] \in Nat
      BY <2>1
    <2> QED BY <2>2, <2>3
  <1>8. ASSUME NEW k \in 1 .. K, NEW p \in 1 .. at[K], at[k - 1] < p, p <= at[k]
        PROVE  GetFeatureIndexByBinIndex(features, p - 1) = k - 1
    <2>1. Grows(K, at)
      <3>1. G \in [1 .. K -> Seq(Nat)] /\ Offsets(K, G, at)
        BY <1>1, <1>5 DEF InGroups
      <3> QED BY <1>7, <3>1, OffsetsGrow DEF Grows
    <2> QED BY <1>6, <1>8, <2>1, FeatureOfPosition
  <1>9. ASSUME NEW b \in 0 .. (n - 1)
        PROVE  \E p \in DOMAIN bins :
                 bins[p] = b /\ GetFeatureIndexByBinIndex(features, p - 1) = vector[b]
    <2>1. PICK k \in 1 .. K : k = vector[b] + 1
      BY <1>1 DEF InGroups
    <2>2. PICK q \in 1 .. Len(G[k]) : G[k][q] = b
      BY <1>1, <2>1 DEF InGroups
    <2> DEFINE p == at[k - 1] + q
    <2>3. p \in 1 .. at[K] /\ bins[p] = b
      BY <1>5, <2>2 DEF LaidOut
    <2>4. at[k - 1] < p /\ p <= at[k]
      <3>1. \A x, y, l \in Nat : y = x + l /\ q \in 1 .. l => x < x + q /\ x + q <= y
        OBVIOUS
      <3> QED BY <1>7, <3>1
    <2> HIDE DEF p
    <2>5. GetFeatureIndexByBinIndex(features, p - 1) = k - 1
      BY <1>8, <2>3, <2>4
    <2>6. k - 1 = vector[b]
      <3>1. vector[b] \in Nat
        OBVIOUS
      <3> QED BY <2>1, <3>1
    <2> QED BY <1>5, <2>3, <2>5, <2>6 DEF LaidOut
  <1>10. \A p \in 1 .. at[K] : \E k \in 1 .. K : at[k - 1] < p /\ p <= at[k]
    BY <1>1, <1>5, OffsetsGrow DEF InGroups
  <1>11. ASSUME NEW k \in 1 .. K, NEW p \in 1 .. at[K], at[k - 1] < p, p <= at[k]
         PROVE  /\ p \in Nat /\ p - at[k - 1] \in 1 .. Len(G[k])
                /\ bins[p] = G[k][p - at[k - 1]]
    <2>1. p \in Nat
      <3>1. K \in 0 .. K
        OBVIOUS
      <3>2. at[K] \in Nat
        BY <1>7, <3>1
      <3> QED BY <3>2
    <2>2. p - at[k - 1] \in 1 .. Len(G[k]) /\ at[k - 1] + (p - at[k - 1]) = p
      <3>1. \A x, y, l \in Nat : y = x + l /\ x < p /\ p <= y => p - x \in 1 .. l /\ x + (p - x) = p
        BY <2>1
      <3> QED BY <1>7, <1>11, <3>1
    <2>3. bins[at[k - 1] + (p - at[k - 1])] = G[k][p - at[k - 1]]
      BY <1>5, <2>2 DEF LaidOut
    <2> QED BY <2>1, <2>2, <2>3
  <1>12. ASSUME NEW j \in DOMAIN bins, NEW p \in DOMAIN bins, j < p,
                GetFeatureIndexByBinIndex(features, j - 1) = GetFeatureIndexByBinIndex(features, p - 1)
         PROVE  bins[j] < bins[p]
    <2>1. j \in 1 .. at[K] /\ p \in 1 .. at[K]
      BY <1>5 DEF LaidOut
    <2>2. PICK k \in 1 .. K : at[k - 1] < j /\ j <= at[k]
      BY <1>10, <2>1
    <2>3. PICK m \in 1 .. K : at[m - 1] < p /\ p <= at[m]
      BY <1>10, <2>1
    <2>4. k - 1 = m - 1
      BY <1>8, <1>12, <2>1, <2>2, <2>3
    <2>5. m = k
      BY <2>4
    <2>6. /\ j \in Nat /\ j - at[k - 1] \in 1 .. Len(G[k]) /\ bins[j] = G[k][j - at[k - 1]]
          /\ p \in Nat /\ p - at[k - 1] \in 1 .. Len(G[k]) /\ bins[p] = G[k][p - at[k - 1]]
      BY <1>11, <2>1, <2>2, <2>3, <2>5
    <2>7. j - at[k - 1] < p - at[k - 1]
      <3>1. \A x \in Nat : j - x < p - x
        BY <1>12, <2>6
      <3> QED BY <1>7, <3>1
    <2> QED BY <1>1, <2>6, <2>7 DEF InGroups
  <1> QED BY <1>9, <1>12

\* Where the bins are, from the invariant.
LEMMA RegroupedFromMapInv ==
  ASSUME MapInv
  PROVE  BinsInTheirFeatures
  <1>1. ASSUME MapInv, status = "done"
        PROVE  /\ \A i \in DOMAIN file : \E k \in DOMAIN order :
                    /\ order[k] = file[i][2]
                    /\ GetFeatureIndexByBinIndex(fs, k - 1) = file[i][1]
               /\ \A j, k \in DOMAIN order :
                    /\ j < k
                    /\ GetFeatureIndexByBinIndex(fs, j - 1) = GetFeatureIndexByBinIndex(fs, k - 1)
                    => order[j] < order[k]
    <2>1. PICK n \in Nat : DOMAIN binToFeature = 0 .. (n - 1)
      BY <1>1 DEF MapInv, VectorInv
    <2>2. /\ \A b \in 0 .. (n - 1) : binToFeature[b] # Uninitialized
          /\ poolBins > 0 /\ Cardinality(0 .. (n - 1)) = poolBins
          /\ lineNo = Len(file)
          /\ order = Concat(Grouped(binToFeature))
          /\ fs = AddFeatures([k \in DOMAIN Grouped(binToFeature) |-> Len(Grouped(binToFeature)[k])])
      BY <1>1, <2>1 DEF MapInv, StatusInv
    <2>3. n > 0
      BY <2>2, VectorSize
    <2>4. binToFeature \in [0 .. (n - 1) -> Nat]
      <3>1. binToFeature \in [0 .. (n - 1) -> {Uninitialized} \cup Nat]
        BY <1>1, <2>1 DEF MapInv, TypeOK
      <3> QED BY <2>2, <3>1
    <2>5. /\ \A b \in 0 .. (n - 1) : \E p \in DOMAIN order :
               order[p] = b /\ GetFeatureIndexByBinIndex(fs, p - 1) = binToFeature[b]
          /\ \A j, k \in DOMAIN order :
               /\ j < k
               /\ GetFeatureIndexByBinIndex(fs, j - 1) = GetFeatureIndexByBinIndex(fs, k - 1)
               => order[j] < order[k]
      <3>1. Binarized(binToFeature, order, fs)
        BY <2>2 DEF Binarized
      <3> QED BY <2>3, <2>4, <3>1, Regrouped
    <2>6. \A i \in DOMAIN file : file[i][2] \in 0 .. (n - 1) /\ binToFeature[file[i][2]] = file[i][1]
      <3>1. DOMAIN file = 1 .. lineNo
        BY <1>1, <2>2, LinesOfFile DEF MapInv
      <3> QED BY <1>1, <2>1, <3>1 DEF MapInv, LinesInv
    <2> QED BY <2>5, <2>6
  <1> QED BY <1>1 DEF BinsInTheirFeatures

\* In an accepted map every bin of the pool is in the feature its line names,
\* and the bins of a feature keep their order (BinarizeWithMap), for every
\* file and every pool.
THEOREM BinsRegrouped == MapSpec => []BinsInTheirFeatures
  BY RegroupedFromMapInv, MapInvariance, PTL

-----------------------------------------------------------------------------
(***************************************************************************)
(* The numbers of the map file and the units of its lines.                 *)
(***************************************************************************)

\* A power of the base is greater than its exponent.
LEMMA PowerGrows ==
  ASSUME NEW n \in Nat
  PROVE  Power(n) \in Nat /\ Power(n) > n
  <1> DEFINE Rec(m, p) == p = [i \in 0 .. m |-> IF i = 0 THEN 1 ELSE Base * p[i - 1]]
             none == {m \in 0 .. n : ~\E p : Rec(m, p)}
  <1>1. none = {}
    <2> SUFFICES ASSUME none # {} PROVE FALSE
      OBVIOUS
    <2>1. PICK m \in none : \A x \in none : m <= x
      <3>1. none \in SUBSET Nat
        <4> HIDE DEF Rec
        <4> QED OBVIOUS
      <3> HIDE DEF none
      <3> QED BY <3>1, SmallestNat
    <2>2. m \in 0 .. n /\ ~\E p : Rec(m, p)
      OBVIOUS
    <2>3. CASE m = 0
      <3> DEFINE p == [i \in 0 .. 0 |-> 1]
      <3>1. [i \in 0 .. 0 |-> IF i = 0 THEN 1 ELSE Base * p[i - 1]] = p
        OBVIOUS
      <3> QED BY <2>2, <2>3, <3>1
    <2>4. CASE m # 0
      <3>1. m - 1 \in 0 .. n /\ ~(m <= m - 1) /\ m - 1 \in Nat
        BY <2>2, <2>4
      <3>2. m - 1 \notin none
        BY <2>1, <3>1
      <3>3. PICK p : Rec(m - 1, p)
        BY <3>1, <3>2
      <3> DEFINE q == [i \in 0 .. m |-> IF i = m THEN Base * p[m - 1] ELSE p[i]]
      <3>4. \A i \in 0 .. (m - 1) : /\ i \in 0 .. m /\ i # m
                                    /\ p[i] = IF i = 0 THEN 1 ELSE Base * p[i - 1]
        <4> HIDE DEF none, q
        <4>1. \A i \in 0 .. (m - 1) : i \in 0 .. m /\ i # m
          <5> HIDE DEF Rec
          <5> QED BY <2>2
        <4>2. p = [i \in 0 .. (m - 1) |-> IF i = 0 THEN 1 ELSE Base * p[i - 1]]
          BY <3>3
        <4>3. \A i \in 0 .. (m - 1) : p[i] = IF i = 0 THEN 1 ELSE Base * p[i - 1]
          BY ONLY <4>2
        <4> QED BY <4>1, <4>3
      <3>5. ASSUME NEW i \in 0 .. m
            PROVE  q[i] = IF i = 0 THEN 1 ELSE Base * q[i - 1]
        <4>1. CASE i = m
          <5>1. m - 1 \in 0 .. m /\ m - 1 # m
            BY <2>2, <2>4
          <5>2. q[m - 1] = p[m - 1]
            BY <5>1
          <5> QED BY <2>4, <4>1, <5>2
        <4>2. CASE i # m
          <5>1. i \in 0 .. (m - 1)
            BY <2>2, <4>2
          <5>2. q[i] = p[i]
            BY <4>2
          <5>3. i # 0 => i - 1 \in 0 .. m /\ i - 1 # m
            BY <2>2, <5>1
          <5>4. i # 0 => q[i - 1] = p[i - 1]
            BY <5>3
          <5> HIDE DEF q
          <5> QED BY <3>4, <5>1, <5>2, <5>4
        <4> QED BY <4>1, <4>2
      <3>6. Rec(m, q)
        <4>1. q = [i \in 0 .. m |-> q[i]]
          OBVIOUS
        <4> HIDE DEF q
        <4> QED BY <3>5, <4>1
      <3> QED BY <2>2, <3>6
    <2> QED BY <2>3, <2>4
  <1>2. \E p : Rec(n, p)
    <2>1. n \in 0 .. n
      OBVIOUS
    <2> HIDE DEF Rec
    <2> QED BY <1>1, <2>1
  <1> DEFINE p == CHOOSE p : Rec(n, p)
  <1>3. Rec(n, p)
    BY <1>2
  <1>4. Power(n) = p[n]
    BY DEF Power
  <1> HIDE DEF p, none
  <1>5. \A i \in 0 .. n : p[i] = IF i = 0 THEN 1 ELSE Base * p[i - 1]
    BY <1>3
  <1> HIDE DEF Rec
  <1>6. \A i \in 0 .. n : p[i] \in Nat /\ p[i] > i
    <2> DEFINE bad == {i \in 0 .. n : ~(p[i] \in Nat /\ p[i] > i)}
    <2> SUFFICES ASSUME bad # {} PROVE FALSE
      OBVIOUS
    <2>1. PICK m \in bad : \A x \in bad : m <= x
      <3>1. bad \in SUBSET Nat
        OBVIOUS
      <3> HIDE DEF bad
      <3> QED BY <3>1, SmallestNat
    <2>2. m \in 0 .. n /\ ~(p[m] \in Nat /\ p[m] > m)
      OBVIOUS
    <2>3. m # 0
      BY <1>5, <2>2
    <2>4. m - 1 \in 0 .. n /\ m \in Nat /\ ~(m <= m - 1)
      BY <2>2, <2>3
    <2>5. m - 1 \notin bad
      BY <2>1, <2>4
    <2>6. p[m - 1] \in Nat /\ p[m - 1] > m - 1
      BY <2>4, <2>5
    <2> HIDE DEF bad
    <2>7. p[m] = Base * p[m - 1]
      BY <1>5, <2>2, <2>3
    <2>8. \A B, x \in Nat : B >= 2 => B * x \in Nat /\ B * x >= 2 * x
      OBVIOUS
    <2>9. Base \in Nat /\ Base >= 2
      BY BinaryPoolAssumption
    <2>10. p[m] \in Nat /\ p[m] >= 2 * p[m - 1]
      BY <2>6, <2>7, <2>8, <2>9
    <2> QED BY <2>2, <2>3, <2>4, <2>6, <2>10
  <1> QED BY <1>4, <1>6

\* A number has a digit, and zero has one.
LEMMA DigitsBound ==
  ASSUME NEW n \in Nat
  PROVE  Digits(n) \in Nat /\ Digits(n) >= 1 /\ (n = 0 => Digits(n) = 1)
  <1> DEFINE S == {k \in 1 .. (n + 1) : n < Power(k)}
  <1>1. S \in SUBSET Nat /\ S \subseteq 1 .. (n + 1)
    OBVIOUS
  <1>2. n + 1 \in S
    <2>1. Power(n + 1) \in Nat /\ Power(n + 1) > n + 1
      BY PowerGrows
    <2>2. \A x \in Nat : x > n + 1 => n < x
      OBVIOUS
    <2> QED BY <2>1, <2>2
  <1>3. Digits(n) = CHOOSE x \in S : \A y \in S : x <= y
    BY DEF Digits, Min
  <1> HIDE DEF S
  <1>4. Digits(n) \in 1 .. (n + 1)
    <2>1. \E x \in S : \A y \in S : x <= y
      BY <1>1, <1>2, SmallestNat
    <2> QED BY <1>1, <1>3, <2>1
  <1>5. PICK k \in 1 .. (n + 1) : k = Digits(n)
    BY <1>4
  <1>6. k \in Nat /\ k >= 1 /\ (n = 0 => k = 1)
    OBVIOUS
  <1> QED BY <1>5, <1>6

\* Cutting digits makes a number smaller.
LEMMA CutIsSmaller ==
  ASSUME NEW n \in Nat, NEW k \in Nat, k >= 1
  PROVE  n \div Power(k) \in Nat /\ (n > 0 => n \div Power(k) < n)
  <1>1. PICK b \in Nat : b = Power(k) /\ b >= 2
    BY PowerGrows
  <1>2. n \div b \in Nat
    BY <1>1
  <1>3. b * (n \div b) <= n
    BY <1>1
  <1>4. \A q \in Nat : b * q <= n => (n > 0 => q < n)
    <2> SUFFICES ASSUME NEW q \in Nat, b * q <= n, n > 0 PROVE q < n
      OBVIOUS
    <2>1. b * q >= 2 * q
      BY <1>1
    <2> QED BY <2>1
  <1> QED BY <1>1, <1>2, <1>3, <1>4

\* The offsets of features with these numbers of bins.
OffsetsOf(K, counts, at) ==
  /\ at \in [0 .. K -> Nat] /\ at[0] = 0
  /\ \A k \in 1 .. K : at[k] = at[k - 1] + counts[k]

\* There are offsets, and vectors that lie at them.
LEMMA OffsetsExist ==
  ASSUME NEW K \in Nat, NEW counts \in [1 .. K -> Nat]
  PROVE  \E at : OffsetsOf(K, counts, at)
  <1> DEFINE G == [k \in 1 .. K |-> [q \in 1 .. counts[k] |-> 0]]
  <1>1. ASSUME NEW k \in 1 .. K
        PROVE  G[k] \in Seq(Nat) /\ Len(G[k]) = counts[k]
    <2>1. G[k] \in [1 .. counts[k] -> Nat] /\ counts[k] \in Nat
      OBVIOUS
    <2> HIDE DEF G
    <2> QED BY <2>1, FunctionIsSequence
  <1>2. DOMAIN G = 1 .. K /\ G = [k \in 1 .. K |-> G[k]]
    OBVIOUS
  <1> HIDE DEF G
  <1>3. G \in [1 .. K -> Seq(Nat)]
    BY <1>1, <1>2
  <1>4. Len(G) = K
    BY <1>3, FunctionIsSequence
  <1>5. PICK c : Prefixes(K, G, c)
    BY <1>4, ConcatUnfolds
  <1>6. PICK at : Offsets(K, G, at)
    BY <1>3, <1>5, PrefixesHold
  <1>7. OffsetsOf(K, counts, at)
    BY <1>1, <1>6 DEF Offsets, OffsetsOf
  <1> QED BY <1>7

\* MapBefore adds up the units of the lines.
LEMMA MapBeforeIs ==
  ASSUME NEW K \in Nat, NEW at, OffsetsOf(K, [k \in 1 .. K |-> MapLine(k - 1)], at),
         NEW b \in 0 .. K
  PROVE  MapBefore(b) = at[b]
  <1> DEFINE Rec(u) == u = [i \in 0 .. b |-> IF i = 0 THEN 0 ELSE u[i - 1] + MapLine(i - 1)]
             v == [i \in 0 .. b |-> at[i]]
  <1>1. at[0] = 0 /\ \A k \in 1 .. K : at[k] = at[k - 1] + MapLine(k - 1)
    BY DEF OffsetsOf
  <1>2. \A i \in 0 .. b : v[i] = IF i = 0 THEN 0 ELSE v[i - 1] + MapLine(i - 1)
    <2> TAKE i \in 0 .. b
    <2>1. CASE i = 0
      BY <1>1, <2>1
    <2>2. CASE i # 0
      <3>1. i \in 1 .. K /\ i - 1 \in 0 .. b
        BY <2>2
      <3>2. v[i - 1] = at[i - 1] /\ v[i] = at[i]
        BY <3>1
      <3> HIDE DEF v
      <3> QED BY <1>1, <2>2, <3>1, <3>2
    <2> QED BY <2>1, <2>2
  <1>3. Rec(v)
    <2>1. v = [i \in 0 .. b |-> v[i]]
      OBVIOUS
    <2> HIDE DEF v
    <2> QED BY <1>2, <2>1
  <1> HIDE DEF v
  <1> DEFINE u == CHOOSE u : Rec(u)
  <1>4. Rec(u)
    BY <1>3
  <1>5. MapBefore(b) = u[b]
    BY DEF MapBefore
  <1> HIDE DEF u
  <1>6. \A i \in 0 .. b : u[i] = IF i = 0 THEN 0 ELSE u[i - 1] + MapLine(i - 1)
    BY <1>4
  <1> HIDE DEF Rec
  <1>7. \A i \in 0 .. b : u[i] = at[i]
    <2> DEFINE bad == {i \in 0 .. b : u[i] # at[i]}
    <2> SUFFICES ASSUME bad # {} PROVE FALSE
      OBVIOUS
    <2>1. PICK m \in bad : \A x \in bad : m <= x
      <3>1. bad \in SUBSET Nat
        OBVIOUS
      <3> HIDE DEF bad
      <3> QED BY <3>1, SmallestNat
    <2>2. m \in 0 .. b /\ u[m] # at[m]
      OBVIOUS
    <2>3. m # 0
      BY <1>1, <1>6, <2>2
    <2>4. m - 1 \in 0 .. b /\ m \in 1 .. K /\ ~(m <= m - 1)
      BY <2>2, <2>3
    <2>5. m - 1 \notin bad
      BY <2>1, <2>4
    <2>6. u[m - 1] = at[m - 1]
      BY <2>4, <2>5
    <2> HIDE DEF bad
    <2> QED BY <1>1, <1>6, <2>2, <2>3, <2>4, <2>6
  <1>8. b \in 0 .. b
    OBVIOUS
  <1> QED BY <1>5, <1>7, <1>8

\* The lines of a map begin at positions of the file, the first at its start.
LEMMA MapBeforeIsPosition ==
  ASSUME NEW K \in Nat
  PROVE  MapBefore(0) = 0 /\ \A b \in 0 .. K : MapBefore(b) \in Nat
  <1> DEFINE units == [k \in 1 .. K |-> MapLine(k - 1)]
  <1>1. units \in [1 .. K -> Nat]
    <2>1. ASSUME NEW k \in 1 .. K PROVE MapLine(k - 1) \in Nat
      <3>1. k - 1 \in Nat
        OBVIOUS
      <3> QED BY <3>1, DigitsBound DEF MapLine
    <2> QED BY <2>1
  <1>2. PICK at : OffsetsOf(K, units, at)
    <2> HIDE DEF units
    <2> QED BY <1>1, OffsetsExist
  <1>3. \A b \in 0 .. K : MapBefore(b) = at[b]
    BY <1>2, MapBeforeIs
  <1>4. at[0] = 0 /\ \A b \in 0 .. K : at[b] \in Nat
    BY <1>2 DEF OffsetsOf
  <1>5. 0 \in 0 .. K
    OBVIOUS
  <1> QED BY <1>3, <1>4, <1>5

-----------------------------------------------------------------------------
(***************************************************************************)
(* The map that is written.                                                *)
(***************************************************************************)

\* There is one sequence of offsets.
LEMMA OffsetsUnique ==
  ASSUME NEW K \in Nat, NEW counts, NEW at, NEW too, OffsetsOf(K, counts, at), OffsetsOf(K, counts, too)
  PROVE  \A k \in 0 .. K : at[k] = too[k]
  <1>1. /\ at[0] = 0 /\ \A k \in 1 .. K : at[k] = at[k - 1] + counts[k]
        /\ too[0] = 0 /\ \A k \in 1 .. K : too[k] = too[k - 1] + counts[k]
    BY DEF OffsetsOf
  <1> DEFINE bad == {k \in 0 .. K : at[k] # too[k]}
  <1> SUFFICES ASSUME bad # {} PROVE FALSE
    OBVIOUS
  <1>2. PICK m \in bad : \A x \in bad : m <= x
    <2>1. bad \in SUBSET Nat
      OBVIOUS
    <2> HIDE DEF bad
    <2> QED BY <2>1, SmallestNat
  <1>3. m \in 0 .. K /\ at[m] # too[m]
    OBVIOUS
  <1>4. m # 0
    BY <1>1, <1>3
  <1>5. m - 1 \in 0 .. K /\ m \in 1 .. K /\ ~(m <= m - 1)
    BY <1>3, <1>4
  <1>6. m - 1 \notin bad
    BY <1>2, <1>5
  <1>7. at[m - 1] = too[m - 1]
    BY <1>5, <1>6
  <1> HIDE DEF bad
  <1> QED BY <1>1, <1>3, <1>5, <1>7

\* The offset before a feature, and that of its last bin.
LEMMA OffsetsStep ==
  ASSUME NEW K \in Nat, NEW counts \in [1 .. K -> Nat], NEW at, OffsetsOf(K, counts, at), NEW k \in 1 .. K
  PROVE  /\ k - 1 \in 0 .. K /\ k \in 0 .. K
         /\ at[k - 1] \in Nat /\ at[k] \in Nat /\ counts[k] \in Nat
         /\ at[k] = at[k - 1] + counts[k]
  <1>1. k - 1 \in 0 .. K /\ k \in 0 .. K
    OBVIOUS
  <1> QED BY <1>1 DEF OffsetsOf

\* The bins of every feature as they are exported.
ExportedBins(K, counts, at) == [k \in 1 .. K |-> [q \in 1 .. counts[k] |-> at[k - 1] + (q - 1)]]

\* They lie at the offsets of their features.
LEMMA ExportedOffsets ==
  ASSUME NEW K \in Nat, NEW counts \in [1 .. K -> Nat], NEW at, OffsetsOf(K, counts, at),
         NEW G, G = ExportedBins(K, counts, at)
  PROVE  /\ G \in [1 .. K -> Seq(Nat)] /\ Len(G) = K
         /\ Offsets(K, G, at) /\ CountsOf(K, G, counts)
         /\ \A k \in 1 .. K : \A q \in 1 .. Len(G[k]) : G[k][q] = at[k - 1] + (q - 1)
  <1>1. ASSUME NEW k \in 1 .. K
        PROVE  /\ G[k] \in Seq(Nat) /\ Len(G[k]) = counts[k]
               /\ \A q \in 1 .. Len(G[k]) : G[k][q] = at[k - 1] + (q - 1)
    <2>1. at[k - 1] \in Nat /\ counts[k] \in Nat
      BY OffsetsStep
    <2>2. G[k] = [q \in 1 .. counts[k] |-> at[k - 1] + (q - 1)]
      BY DEF ExportedBins
    <2>3. G[k] \in [1 .. counts[k] -> Nat]
      BY <2>1, <2>2
    <2>4. G[k] \in Seq(Nat) /\ Len(G[k]) = counts[k]
      BY <2>1, <2>3, FunctionIsSequence
    <2> QED BY <2>2, <2>4
  <1>2. G = [k \in 1 .. K |-> G[k]]
    BY DEF ExportedBins
  <1>3. G \in [1 .. K -> Seq(Nat)]
    BY <1>1, <1>2
  <1>4. Len(G) = K /\ Len(counts) = K
    BY <1>3, FunctionIsSequence
  <1>5. Offsets(K, G, at) /\ CountsOf(K, G, counts)
    BY <1>1, <1>4 DEF OffsetsOf, Offsets, CountsOf
  <1> QED BY <1>1, <1>3, <1>4, <1>5

\* The features that are exported.
LEMMA ExportedFeatures ==
  ASSUME NEW K \in Nat, NEW counts \in [1 .. K -> Nat], NEW at, OffsetsOf(K, counts, at)
  PROVE  /\ AddFeatures(counts) = [binCount |-> at[K], start |-> [i \in 1 .. K |-> at[i - 1]]]
         /\ GetFeatureCount(AddFeatures(counts)) = K
         /\ \A k \in 1 .. K : Cardinality(GetFeatureBinIndexes(AddFeatures(counts), k - 1)) = counts[k]
  <1>1. PICK G : G = ExportedBins(K, counts, at)
    OBVIOUS
  <1>2. Offsets(K, G, at) /\ CountsOf(K, G, counts)
    BY <1>1, ExportedOffsets
  <1>3. AddFeatures(counts) = [binCount |-> at[K], start |-> [i \in 1 .. K |-> at[i - 1]]]
    BY <1>2, AddFeaturesResult
  <1>4. PICK F : F = AddFeatures(counts)
    OBVIOUS
  <1>5. F.binCount = at[K] /\ F.start = [i \in 1 .. K |-> at[i - 1]]
    BY <1>3, <1>4
  <1>6. /\ \A i \in 1 .. K : F.start[i] = at[i - 1] /\ F.start[i] \in Nat
        /\ F.start \in [1 .. K -> Nat]
    <2>1. \A i \in 1 .. K : F.start[i] = at[i - 1] /\ F.start[i] \in Nat
      <3> TAKE i \in 1 .. K
      <3>1. at[i - 1] \in Nat
        BY OffsetsStep
      <3> QED BY <1>5, <3>1
    <2> QED BY <1>5, <2>1
  <1>7. Len(F.start) = K
    BY <1>6, FunctionIsSequence
  <1>8. ASSUME NEW k \in 1 .. K
        PROVE  Cardinality(GetFeatureBinIndexes(F, k - 1)) = counts[k]
    <2>1. /\ at[k - 1] \in Nat /\ at[k] \in Nat /\ counts[k] \in Nat
          /\ at[k] = at[k - 1] + counts[k]
      BY OffsetsStep
    <2> DEFINE last == IF k - 1 < K - 1 THEN F.start[(k - 1) + 2] ELSE F.binCount
    <2>2. last = at[k]
      <3>1. CASE k - 1 < K - 1
        <4>1. (k - 1) + 2 \in 1 .. K /\ ((k - 1) + 2) - 1 = k
          BY <3>1
        <4> QED BY <1>6, <3>1, <4>1
      <3>2. CASE ~(k - 1 < K - 1)
        <4>1. k = K
          BY <3>2
        <4> QED BY <1>5, <3>2, <4>1
      <3> QED BY <3>1, <3>2
    <2>3. F.start[(k - 1) + 1] = at[k - 1]
      <3>1. (k - 1) + 1 = k
        OBVIOUS
      <3> QED BY <1>6, <3>1
    <2>4. GetFeatureBinIndexes(F, k - 1) = F.start[(k - 1) + 1] .. (last - 1)
      BY <1>7 DEF GetFeatureBinIndexes, GetFeatureCount
    <2> HIDE DEF last
    <2>5. GetFeatureBinIndexes(F, k - 1) = at[k - 1] .. (at[k] - 1)
      BY <2>2, <2>3, <2>4
    <2>6. Cardinality(at[k - 1] .. (at[k] - 1)) =
            IF at[k - 1] > at[k] - 1 THEN 0 ELSE (at[k] - 1) - at[k - 1] + 1
      <3>1. at[k - 1] \in Int /\ at[k] - 1 \in Int
        BY <2>1
      <3> QED BY <3>1, FS_Interval
    <2>7. \A x, y, z \in Nat : y = x + z => (IF x > y - 1 THEN 0 ELSE (y - 1) - x + 1) = z
      OBVIOUS
    <2> QED BY <2>1, <2>5, <2>6, <2>7
  <1> QED BY <1>3, <1>4, <1>7, <1>8 DEF GetFeatureCount

\* Each line of the map names the feature of its bin.
WrittenAt(K, counts, at, text) ==
  /\ text \in Seq(Seq(Nat)) /\ Len(text) = at[K]
  /\ \A k \in 1 .. K : \A q \in 1 .. counts[k] : text[at[k - 1] + q] = <<k - 1, (at[k - 1] + q) - 1>>

\* So OutputBinFeatureMap writes them.
LEMMA WrittenLines ==
  ASSUME NEW K \in Nat, NEW counts \in [1 .. K -> Nat], NEW at, OffsetsOf(K, counts, at)
  PROVE  WrittenAt(K, counts, at, OutputBinFeatureMap(AddFeatures(counts)))
  <1> DEFINE L == [k \in 1 .. K |-> [j \in 1 .. counts[k] |-> <<k - 1, at[k - 1] + (j - 1)>>]]
  <1>1. ASSUME NEW k \in 1 .. K
        PROVE  /\ L[k] \in Seq(Seq(Nat)) /\ Len(L[k]) = counts[k]
               /\ L[k] = [j \in 1 .. counts[k] |-> <<k - 1, at[k - 1] + (j - 1)>>]
    <2>1. at[k - 1] \in Nat /\ counts[k] \in Nat
      BY OffsetsStep
    <2>2. L[k] = [j \in 1 .. counts[k] |-> <<k - 1, at[k - 1] + (j - 1)>>]
      OBVIOUS
    <2> HIDE DEF L
    <2>3. ASSUME NEW j \in 1 .. counts[k]
          PROVE  <<k - 1, at[k - 1] + (j - 1)>> \in Seq(Nat)
      <3>1. k - 1 \in Nat /\ at[k - 1] + (j - 1) \in Nat
        BY <2>1
      <3> QED BY <3>1
    <2>4. L[k] \in [1 .. counts[k] -> Seq(Nat)]
      BY <2>2, <2>3
    <2>5. L[k] \in Seq(Seq(Nat)) /\ Len(L[k]) = counts[k]
      BY <2>1, <2>4, FunctionIsSequence
    <2> QED BY <2>2, <2>5
  <1>2. L = [k \in 1 .. K |-> L[k]]
    OBVIOUS
  <1> HIDE DEF L
  <1>3. L \in [1 .. K -> Seq(Seq(Nat))]
    BY <1>1, <1>2
  <1>4. Len(L) = K
    BY <1>3, FunctionIsSequence
  <1>5. PICK c : Prefixes(K, L, c)
    BY <1>4, ConcatUnfolds
  <1>6. PICK S : S = Seq(Nat)
    OBVIOUS
  <1>7. PICK too : /\ Offsets(K, L, too) /\ LaidOut(K, L, too, c[K])
                   /\ \A k \in 0 .. K : too[k] = Len(c[k]) /\ c[k] \in Seq(S)
    <2>1. L \in [1 .. K -> Seq(S)]
      BY <1>3, <1>6
    <2> QED BY <1>5, <2>1, PrefixesHold
  <1>8. \A k \in 0 .. K : at[k] = too[k]
    <2>1. OffsetsOf(K, counts, too)
      BY <1>1, <1>7 DEF Offsets, OffsetsOf
    <2> QED BY <2>1, OffsetsUnique
  <1>9. PICK F : F = AddFeatures(counts)
    OBVIOUS
  <1>10. /\ GetFeatureCount(F) = K
         /\ \A k \in 1 .. K : Cardinality(GetFeatureBinIndexes(F, k - 1)) = counts[k]
    BY <1>9, ExportedFeatures
  <1> DEFINE Line1(n, k) == [j \in 1 .. Cardinality(GetFeatureBinIndexes(F, k - 1)) |-> <<k - 1, n + (j - 1)>>]
             Rec(l) == l = [k \in 0 .. K |-> IF k = 0 THEN <<>> ELSE l[k - 1] \o Line1(Len(l[k - 1]), k)]
             v == [k \in 0 .. K |-> c[k]]
  <1>11. \A k \in 1 .. K : Line1(at[k - 1], k) = L[k]
    <2> TAKE k \in 1 .. K
    <2>1. Cardinality(GetFeatureBinIndexes(F, k - 1)) = counts[k]
      BY <1>10
    <2>2. L[k] = [j \in 1 .. counts[k] |-> <<k - 1, at[k - 1] + (j - 1)>>]
      BY <1>1
    <2> QED BY <2>1, <2>2
  <1>12. \A k \in 0 .. K : Len(c[k]) = at[k]
    BY <1>7, <1>8
  <1>13. /\ c[0] = <<>>
         /\ \A k \in 1 .. K : /\ k - 1 \in 0 .. K
                              /\ c[k] = c[k - 1] \o Line1(Len(c[k - 1]), k)
    <2> HIDE DEF Line1
    <2>1. c[0] = <<>> /\ \A k \in 1 .. K : c[k] = c[k - 1] \o L[k]
      BY <1>5 DEF Prefixes
    <2>2. \A k \in 1 .. K : k - 1 \in 0 .. K
      OBVIOUS
    <2> QED BY <1>11, <1>12, <2>1, <2>2
  <1>14. OutputBinFeatureMap(F) = (CHOOSE l : Rec(l))[K]
    BY <1>10 DEF OutputBinFeatureMap
  <1> HIDE DEF Line1
  <1>15. Rec(v)
    <2>1. \A k \in 0 .. K : v[k] = IF k = 0 THEN <<>> ELSE v[k - 1] \o Line1(Len(v[k - 1]), k)
      <3> TAKE k \in 0 .. K
      <3>1. CASE k = 0
        BY <1>13, <3>1
      <3>2. CASE k # 0
        <4>1. k \in 1 .. K /\ k - 1 \in 0 .. K
          BY <3>2
        <4>2. v[k - 1] = c[k - 1] /\ v[k] = c[k]
          BY <4>1
        <4> HIDE DEF v
        <4> QED BY <1>13, <3>2, <4>1, <4>2
      <3> QED BY <3>1, <3>2
    <2>2. v = [k \in 0 .. K |-> v[k]]
      OBVIOUS
    <2> HIDE DEF v
    <2> QED BY <2>1, <2>2
  <1> HIDE DEF v
  <1> DEFINE l == CHOOSE l : Rec(l)
  <1>16. Rec(l)
    BY <1>15
  <1>17. OutputBinFeatureMap(F) = l[K]
    BY <1>14
  <1> HIDE DEF l
  <1>18. \A k \in 0 .. K : l[k] = IF k = 0 THEN <<>> ELSE l[k - 1] \o Line1(Len(l[k - 1]), k)
    BY <1>16
  <1> HIDE DEF Rec
  <1>19. \A k \in 0 .. K : l[k] = c[k]
    <2> DEFINE bad == {k \in 0 .. K : l[k] # c[k]}
    <2> SUFFICES ASSUME bad # {} PROVE FALSE
      OBVIOUS
    <2>1. PICK m \in bad : \A x \in bad : m <= x
      <3>1. bad \in SUBSET Nat
        OBVIOUS
      <3> HIDE DEF bad
      <3> QED BY <3>1, SmallestNat
    <2>2. m \in 0 .. K /\ l[m] # c[m]
      OBVIOUS
    <2>3. m # 0
      BY <1>13, <1>18, <2>2
    <2>4. m - 1 \in 0 .. K /\ m \in 1 .. K /\ ~(m <= m - 1)
      BY <2>2, <2>3
    <2>5. m - 1 \notin bad
      BY <2>1, <2>4
    <2>6. l[m - 1] = c[m - 1]
      BY <2>4, <2>5
    <2> HIDE DEF bad
    <2> QED BY <1>13, <1>18, <2>2, <2>3, <2>4, <2>6
  <1>20. K \in 0 .. K
    OBVIOUS
  <1>21. OutputBinFeatureMap(F) = c[K]
    BY <1>17, <1>19, <1>20
  <1>22. c[K] \in Seq(Seq(Nat)) /\ Len(c[K]) = at[K]
    BY <1>6, <1>7, <1>12, <1>20
  <1>23. ASSUME NEW k \in 1 .. K, NEW q \in 1 .. counts[k]
         PROVE  c[K][at[k - 1] + q] = <<k - 1, (at[k - 1] + q) - 1>>
    <2>1. at[k - 1] = too[k - 1]
      BY <1>8, <1>13
    <2>2. q \in 1 .. Len(L[k]) /\ L[k][q] = <<k - 1, at[k - 1] + (q - 1)>>
      BY <1>1
    <2>3. c[K][too[k - 1] + q] = L[k][q]
      BY <1>7, <2>2 DEF LaidOut
    <2>4. at[k - 1] + (q - 1) = (at[k - 1] + q) - 1
      <3>1. at[k - 1] \in Nat /\ counts[k] \in Nat
        BY OffsetsStep
      <3> QED BY <3>1
    <2> QED BY <2>1, <2>2, <2>3, <2>4
  <1>24. WrittenAt(K, counts, at, c[K])
    BY <1>22, <1>23 DEF WrittenAt
  <1> QED BY <1>9, <1>21, <1>24

\* Ascending lists an interval.
LEMMA AscendingInterval ==
  ASSUME NEW a \in Nat, NEW m \in Nat, NEW S, S = a .. (a + m - 1)
  PROVE  Ascending(S) = [i \in 1 .. m |-> a + (i - 1)]
  <1>1. Cardinality(S) = m
    <2>1. Cardinality(a .. (a + m - 1)) = IF a > a + m - 1 THEN 0 ELSE (a + m - 1) - a + 1
      BY FS_Interval
    <2>2. (IF a > a + m - 1 THEN 0 ELSE (a + m - 1) - a + 1) = m
      OBVIOUS
    <2> QED BY <2>1, <2>2
  <1>2. ASSUME NEW x \in S
        PROVE  x \in Nat /\ Cardinality({y \in S : y <= x}) = x - a + 1
    <2>1. x \in Int /\ a <= x /\ x <= a + m - 1
      OBVIOUS
    <2>2. {y \in S : y <= x} = a .. x
      BY <2>1
    <2>3. Cardinality(a .. x) = IF a > x THEN 0 ELSE x - a + 1
      BY <2>1, FS_Interval
    <2>4. Cardinality({y \in S : y <= x}) = Cardinality(a .. x)
      BY <2>2
    <2>5. x \in Nat /\ ~(a > x)
      BY <2>1
    <2> QED BY <2>3, <2>4, <2>5
  <1>3. ASSUME NEW i \in 1 .. m
        PROVE  (CHOOSE x \in S : Cardinality({y \in S : y <= x}) = i) = a + (i - 1)
    <2>1. a + (i - 1) \in S
      OBVIOUS
    <2>2. Cardinality({y \in S : y <= a + (i - 1)}) = i
      <3>1. (a + (i - 1)) - a + 1 = i
        OBVIOUS
      <3> QED BY <1>2, <2>1, <3>1
    <2> DEFINE z == CHOOSE x \in S : Cardinality({y \in S : y <= x}) = i
    <2>3. z \in S /\ Cardinality({y \in S : y <= z}) = i
      BY <2>1, <2>2
    <2> HIDE DEF z
    <2>4. z \in Nat /\ z - a + 1 = i
      BY <1>2, <2>3
    <2>5. z = a + (i - 1)
      BY <2>4
    <2> QED BY <2>5 DEF z
  <1>4. Ascending(S) = [i \in 1 .. m |-> CHOOSE x \in S : Cardinality({y \in S : y <= x}) = i]
    BY <1>1 DEF Ascending
  <1> QED BY <1>3, <1>4

\* The vector that names the feature of each exported bin.
NamesFeatures(K, counts, at, vector) ==
  /\ DOMAIN vector = 0 .. (at[K] - 1)
  /\ \A k \in 1 .. K : \A q \in 1 .. counts[k] : vector[(at[k - 1] + q) - 1] = k - 1

\* Bin p, counted from one, belongs to a feature.
InFeature(K, counts, at, p) ==
  \E k \in 1 .. K : \E q \in 1 .. counts[k] : at[k - 1] \in Nat /\ q \in Nat /\ p = at[k - 1] + q

\* Each bin belongs to a feature.
LEMMA BinsOfFeatures ==
  ASSUME NEW K \in Nat, NEW counts \in [1 .. K -> Nat], NEW at, OffsetsOf(K, counts, at),
         NEW p \in 1 .. at[K]
  PROVE  /\ at[K] \in Nat /\ p \in Nat
         /\ InFeature(K, counts, at, p)
  <1>1. PICK G : G = ExportedBins(K, counts, at)
    OBVIOUS
  <1>2. G \in [1 .. K -> Seq(Nat)] /\ Offsets(K, G, at)
    BY <1>1, ExportedOffsets
  <1>3. PICK k \in 1 .. K : at[k - 1] < p /\ p <= at[k]
    BY <1>2, OffsetsGrow
  <1>4. at[k - 1] \in Nat /\ counts[k] \in Nat /\ at[k] = at[k - 1] + counts[k]
    BY OffsetsStep
  <1>5. at[K] \in Nat
    <2>1. K \in 0 .. K
      OBVIOUS
    <2> QED BY <2>1 DEF OffsetsOf
  <1>6. p \in Nat
    BY <1>5
  <1>7. p - at[k - 1] \in 1 .. counts[k] /\ p = at[k - 1] + (p - at[k - 1]) /\ p - at[k - 1] \in Nat
    BY <1>3, <1>4, <1>6
  <1> QED BY <1>4, <1>5, <1>6, <1>7 DEF InFeature

\* Grouped by it the bins are in their features again.
LEMMA ExportedGroups ==
  ASSUME NEW K \in Nat, K > 0, NEW counts \in [1 .. K -> Nat], counts[K] > 0,
         NEW at, OffsetsOf(K, counts, at), NEW vector, NamesFeatures(K, counts, at, vector)
  PROVE  Grouped(vector) = ExportedBins(K, counts, at)
  <1> DEFINE D == 0 .. (at[K] - 1)
             range == {vector[b] : b \in D}
             largest == CHOOSE f \in range : \A b \in D : vector[b] <= f
  <1>1. /\ DOMAIN vector = D
        /\ \A k \in 1 .. K : \A q \in 1 .. counts[k] : vector[(at[k - 1] + q) - 1] = k - 1
    BY DEF NamesFeatures
  <1>2. ASSUME NEW b \in D
        PROVE  \E k \in 1 .. K : \E q \in 1 .. counts[k] :
                 at[k - 1] \in Nat /\ q \in Nat /\ b = (at[k - 1] + q) - 1 /\ vector[b] = k - 1
    <2>1. at[K] \in Nat /\ b \in Nat /\ b + 1 \in 1 .. at[K]
      <3>1. K \in 0 .. K
        OBVIOUS
      <3>2. at[K] \in Nat
        BY <3>1 DEF OffsetsOf
      <3> QED BY <3>2
    <2>2. PICK k \in 1 .. K : \E q \in 1 .. counts[k] : at[k - 1] \in Nat /\ q \in Nat /\ b + 1 = at[k - 1] + q
      <3>1. InFeature(K, counts, at, b + 1)
        BY <2>1, BinsOfFeatures
      <3> QED BY <3>1 DEF InFeature
    <2>3. PICK q \in 1 .. counts[k] : at[k - 1] \in Nat /\ q \in Nat /\ b + 1 = at[k - 1] + q
      BY <2>2
    <2>4. b = (at[k - 1] + q) - 1
      BY <2>1, <2>3
    <2> QED BY <1>1, <2>3, <2>4
  <1>3. ASSUME NEW k \in 1 .. K, NEW q \in 1 .. counts[k]
        PROVE  (at[k - 1] + q) - 1 \in D
    <2>1. /\ at[k - 1] \in Nat /\ counts[k] \in Nat /\ at[k] = at[k - 1] + counts[k] /\ at[K] \in Nat
          /\ k \in 0 .. K /\ K \in 0 .. K /\ k <= K
      <3>1. K \in 0 .. K /\ k <= K
        OBVIOUS
      <3>2. at[K] \in Nat
        BY <3>1 DEF OffsetsOf
      <3> QED BY <3>1, <3>2, OffsetsStep
    <2>2. PICK G : G = ExportedBins(K, counts, at)
      OBVIOUS
    <2>3. at[k] <= at[K]
      <3>1. G \in [1 .. K -> Seq(Nat)] /\ Offsets(K, G, at)
        BY <2>2, ExportedOffsets
      <3> QED BY <2>1, <3>1, OffsetsGrow
    <2>4. \A x, y, z, m \in Nat : y = x + m /\ y <= z /\ q \in 1 .. m => (x + q) - 1 \in 0 .. (z - 1)
      OBVIOUS
    <2>5. at[k] \in Nat
      BY <2>1
    <2> QED BY <2>1, <2>3, <2>4, <2>5
  <1>4. largest = K - 1
    <2>1. K - 1 \in range
      <3>1. K \in 1 .. K /\ 1 \in 1 .. counts[K]
        OBVIOUS
      <3> HIDE DEF D
      <3> QED BY <1>1, <1>3, <3>1
    <2>2. \A b \in D : vector[b] \in Nat /\ vector[b] <= K - 1
      <3> TAKE b \in D
      <3>1. PICK k \in 1 .. K : vector[b] = k - 1
        BY <1>2
      <3> QED BY <3>1
    <2> HIDE DEF D
    <2>3. largest \in range /\ \A b \in D : vector[b] <= largest
      BY <2>1, <2>2
    <2> HIDE DEF largest
    <2>4. PICK d \in D : largest = vector[d]
      BY <2>3
    <2>5. PICK e \in D : K - 1 = vector[e]
      BY <2>1
    <2>6. largest \in Nat /\ largest <= K - 1 /\ K - 1 <= largest
      BY <2>2, <2>3, <2>4, <2>5
    <2> QED BY <2>6
  <1>5. ASSUME NEW k \in 1 .. K
        PROVE  Ascending({b \in D : vector[b] = k - 1}) = [q \in 1 .. counts[k] |-> at[k - 1] + (q - 1)]
    <2>1. at[k - 1] \in Nat /\ counts[k] \in Nat
      BY OffsetsStep
    <2> DEFINE S == at[k - 1] .. (at[k - 1] + counts[k] - 1)
    <2>2. ASSUME NEW b \in D, vector[b] = k - 1
          PROVE  b \in S
      <3>0. PICK j \in 1 .. K : \E q \in 1 .. counts[j] :
              at[j - 1] \in Nat /\ q \in Nat /\ b = (at[j - 1] + q) - 1 /\ vector[b] = j - 1
        BY <1>2
      <3>1. PICK q \in 1 .. counts[j] :
              at[j - 1] \in Nat /\ q \in Nat /\ b = (at[j - 1] + q) - 1 /\ vector[b] = j - 1
        BY <3>0
      <3>2. j = k
        BY <2>2, <3>1
      <3>3. q \in 1 .. counts[k] /\ b = (at[k - 1] + q) - 1
        BY <3>1, <3>2
      <3> QED BY <2>1, <3>3
    <2>3. ASSUME NEW b \in S
          PROVE  b \in D /\ vector[b] = k - 1
      <3>1. b \in Int /\ at[k - 1] <= b /\ b <= at[k - 1] + counts[k] - 1
        BY <2>1
      <3>2. (b - at[k - 1]) + 1 \in 1 .. counts[k] /\ (at[k - 1] + ((b - at[k - 1]) + 1)) - 1 = b
        <4> HIDE DEF S, D
        <4> QED BY <2>1, <3>1
      <3> HIDE DEF D, S
      <3> QED BY <1>1, <1>3, <3>2
    <2>4. {b \in D : vector[b] = k - 1} = S
      <3>1. S \subseteq D
        BY <2>3
      <3> HIDE DEF S, D
      <3> QED BY <2>2, <2>3, <3>1
    <2> QED BY <2>1, <2>4, AscendingInterval
  <1>6. Grouped(vector) = [k \in 1 .. (largest + 1) |-> Ascending({b \in D : vector[b] = k - 1})]
    BY <1>1 DEF Grouped
  <1> HIDE DEF D, range, largest
  <1>7. largest + 1 = K
    BY <1>4
  <1> QED BY <1>5, <1>6, <1>7 DEF ExportedBins

\* Concatenated they are the bins in their order, and the features are those
\* that were exported.
LEMMA ExportedBack ==
  ASSUME NEW K \in Nat, NEW counts \in [1 .. K -> Nat], NEW at, OffsetsOf(K, counts, at),
         NEW G, G = ExportedBins(K, counts, at)
  PROVE  /\ Concat(G) = [p \in 1 .. at[K] |-> p - 1]
         /\ [k \in DOMAIN G |-> Len(G[k])] = counts
  <1>1. /\ G \in [1 .. K -> Seq(Nat)] /\ Len(G) = K
        /\ CountsOf(K, G, counts)
        /\ \A k \in 1 .. K : \A q \in 1 .. Len(G[k]) : G[k][q] = at[k - 1] + (q - 1)
    <2>1. G \in [1 .. K -> Seq(Nat)] /\ Len(G) = K /\ CountsOf(K, G, counts)
      BY ExportedOffsets
    <2>2. ASSUME NEW k \in 1 .. K, NEW q \in 1 .. Len(G[k])
          PROVE  G[k][q] = at[k - 1] + (q - 1)
      <3>1. Len(G[k]) = counts[k]
        BY <2>1 DEF CountsOf
      <3>2. G[k] = [i \in 1 .. counts[k] |-> at[k - 1] + (i - 1)]
        BY DEF ExportedBins
      <3> QED BY <3>1, <3>2
    <2> QED BY <2>1, <2>2
  <1>2. \A k \in 1 .. K : Len(G[k]) = counts[k]
    BY <1>1 DEF CountsOf
  <1>3. [k \in DOMAIN G |-> Len(G[k])] = counts
    BY <1>1, <1>2
  <1>4. PICK c : Prefixes(K, G, c) /\ Concat(G) = c[K]
    BY <1>1, ConcatUnfolds
  <1>5. PICK too : /\ Offsets(K, G, too) /\ LaidOut(K, G, too, c[K])
                   /\ \A k \in 0 .. K : c[k] \in Seq(Nat)
    BY <1>1, <1>4, PrefixesHold
  <1>6. \A k \in 0 .. K : at[k] = too[k]
    <2>1. OffsetsOf(K, counts, too)
      BY <1>2, <1>5 DEF Offsets, OffsetsOf
    <2> QED BY <2>1, OffsetsUnique
  <1>7. K \in 0 .. K /\ \A k \in 1 .. K : k - 1 \in 0 .. K
    OBVIOUS
  <1>8. ASSUME NEW p \in 1 .. at[K]
        PROVE  c[K][p] = p - 1
    <2>1. PICK k \in 1 .. K : \E q \in 1 .. counts[k] : at[k - 1] \in Nat /\ q \in Nat /\ p = at[k - 1] + q
      <3>1. InFeature(K, counts, at, p)
        BY BinsOfFeatures
      <3> QED BY <3>1 DEF InFeature
    <2>1a. PICK q \in 1 .. counts[k] : at[k - 1] \in Nat /\ q \in Nat /\ p = at[k - 1] + q
      BY <2>1
    <2>2. q \in 1 .. Len(G[k]) /\ G[k][q] = at[k - 1] + (q - 1)
      BY <1>1, <1>2
    <2>3. c[K][too[k - 1] + q] = G[k][q]
      BY <1>5, <2>2 DEF LaidOut
    <2>4. too[k - 1] = at[k - 1]
      BY <1>6, <1>7
    <2>5. at[k - 1] + (q - 1) = (at[k - 1] + q) - 1
      BY <2>1a
    <2> QED BY <2>1a, <2>2, <2>3, <2>4, <2>5
  <1>9. DOMAIN c[K] = 1 .. at[K]
    BY <1>5, <1>6, <1>7 DEF LaidOut
  <1>10. c[K] = [p \in 1 .. at[K] |-> c[K][p]]
    <2>1. c[K] \in Seq(Nat)
      BY <1>5, <1>7
    <2>2. c[K] = [p \in DOMAIN c[K] |-> c[K][p]]
      BY <2>1
    <2> QED BY <1>9, <2>2
  <1>11. c[K] = [p \in 1 .. at[K] |-> p - 1]
    BY <1>8, <1>10
  <1> QED BY <1>3, <1>4, <1>11

-----------------------------------------------------------------------------
(***************************************************************************)
(* What is left of the map, and what the second run makes of it.           *)
(***************************************************************************)

\* The numbers of bins of the exported features.
SizesOK == sizes \in Seq(Nat) /\ Len(sizes) > 0 /\ sizes[Len(sizes)] # 0

\* There is a feature, and the last one has a bin.
LEMMA SizesLaidOut ==
  ASSUME SizesOK
  PROVE  \E K \in Nat : \E at :
           /\ K > 0 /\ sizes \in [1 .. K -> Nat] /\ sizes[K] > 0 /\ OffsetsOf(K, sizes, at)
           /\ at[K] = BinCount /\ BinCount \in Nat /\ BinCount > 0
  <1>1. PICK K \in Nat : K = Len(sizes)
    BY LenProperties DEF SizesOK
  <1>2. K > 0 /\ sizes[K] # 0
    BY <1>1, LenProperties DEF SizesOK
  <1>3. sizes \in [1 .. K -> Nat]
    BY <1>1, LenProperties DEF SizesOK
  <1>4. PICK at : OffsetsOf(K, sizes, at)
    BY <1>3, OffsetsExist
  <1>5. BinCount = at[K]
    <2>1. AddFeatures(sizes) = [binCount |-> at[K], start |-> [i \in 1 .. K |-> at[i - 1]]]
      BY <1>3, <1>4, ExportedFeatures
    <2> QED BY <2>1 DEF BinCount
  <1>6. sizes[K] \in Nat \ {0} /\ K \in 1 .. K
    BY <1>2, <1>3
  <1>7. at[K - 1] \in Nat /\ at[K] \in Nat /\ at[K] = at[K - 1] + sizes[K]
    BY <1>3, <1>4, <1>6, OffsetsStep
  <1>8. at[K] > 0
    BY <1>6, <1>7
  <1> QED BY <1>2, <1>3, <1>4, <1>5, <1>6, <1>7, <1>8

\* Line b of a text names bin b - 1.
NamesBins(n, text) ==
  /\ text \in Seq(Seq(Nat)) /\ Len(text) = n
  /\ \A b \in 1 .. n : text[b] \in Seq(Nat) /\ Len(text[b]) = 2 /\ text[b][1] \in Nat /\ text[b][2] = b - 1

\* The map that is written names every bin, in order.
LEMMA WrittenMap ==
  ASSUME SizesOK
  PROVE  BinCount \in Nat /\ BinCount > 0 /\ NamesBins(BinCount, MapWritten)
  <1>1. PICK K \in Nat : \E at :
           /\ K > 0 /\ sizes \in [1 .. K -> Nat] /\ sizes[K] > 0 /\ OffsetsOf(K, sizes, at)
           /\ at[K] = BinCount /\ BinCount \in Nat /\ BinCount > 0
    BY SizesLaidOut
  <1>2. PICK at :
           /\ K > 0 /\ sizes \in [1 .. K -> Nat] /\ sizes[K] > 0 /\ OffsetsOf(K, sizes, at)
           /\ at[K] = BinCount /\ BinCount \in Nat /\ BinCount > 0
    BY <1>1
  <1>3. WrittenAt(K, sizes, at, MapWritten)
    BY <1>2, WrittenLines DEF MapWritten
  <1>4. MapWritten \in Seq(Seq(Nat)) /\ Len(MapWritten) = BinCount
    BY <1>2, <1>3 DEF WrittenAt
  <1>5. ASSUME NEW b \in 1 .. BinCount
        PROVE  /\ MapWritten[b] \in Seq(Nat) /\ Len(MapWritten[b]) = 2
               /\ MapWritten[b][1] \in Nat /\ MapWritten[b][2] = b - 1
    <2>1. InFeature(K, sizes, at, b)
      BY <1>2, BinsOfFeatures
    <2>2. PICK k \in 1 .. K : \E q \in 1 .. sizes[k] : at[k - 1] \in Nat /\ q \in Nat /\ b = at[k - 1] + q
      BY <2>1 DEF InFeature
    <2>3. PICK q \in 1 .. sizes[k] : b = at[k - 1] + q
      BY <2>2
    <2>4. MapWritten[b] = <<k - 1, b - 1>>
      BY <1>3, <2>3 DEF WrittenAt
    <2>5. k - 1 \in Nat /\ b - 1 \in Nat
      BY <1>2
    <2> QED BY <2>4, <2>5
  <1> QED BY <1>2, <1>4, <1>5 DEF NamesBins

\* The second run gets the features from the map that was written.
LEMMA ReadBackFeatures ==
  ASSUME SizesOK, MapInv, status = "done", file = MapWritten
  PROVE  GotFeatures
  <1>1. PICK K \in Nat : \E at :
           /\ K > 0 /\ sizes \in [1 .. K -> Nat] /\ sizes[K] > 0 /\ OffsetsOf(K, sizes, at)
           /\ at[K] = BinCount /\ BinCount \in Nat /\ BinCount > 0
    BY SizesLaidOut
  <1>2. PICK at :
           /\ K > 0 /\ sizes \in [1 .. K -> Nat] /\ sizes[K] > 0 /\ OffsetsOf(K, sizes, at)
           /\ at[K] = BinCount /\ BinCount \in Nat /\ BinCount > 0
    BY <1>1
  <1>3. WrittenAt(K, sizes, at, file)
    BY <1>2, WrittenLines DEF MapWritten
  <1>4. PICK n \in Nat : n = BinCount
    BY <1>2
  <1>5. Len(file) = n /\ \A b \in 1 .. n : Len(file[b]) = 2 /\ file[b][2] = b - 1
    BY <1>4, WrittenMap DEF NamesBins
  <1>6. /\ lineNo = n
        /\ \A i \in 1 .. n : file[i][2] \in DOMAIN binToFeature /\ binToFeature[file[i][2]] = file[i][1]
        /\ \A b \in DOMAIN binToFeature : \E i \in 1 .. n : file[i][2] = b
    BY <1>5 DEF MapInv, StatusInv, LinesInv
  <1>7. DOMAIN binToFeature = 0 .. (n - 1)
    <2>1. ASSUME NEW b \in 0 .. (n - 1) PROVE b \in DOMAIN binToFeature
      <3>1. b + 1 \in 1 .. n /\ (b + 1) - 1 = b
        OBVIOUS
      <3>2. file[b + 1][2] = (b + 1) - 1 /\ file[b + 1][2] \in DOMAIN binToFeature
        BY <1>5, <1>6, <3>1
      <3> QED BY <3>1, <3>2
    <2>2. ASSUME NEW b \in DOMAIN binToFeature PROVE b \in 0 .. (n - 1)
      <3>1. PICK i \in 1 .. n : b = i - 1
        BY <1>5, <1>6
      <3> QED BY <3>1
    <2> QED BY <2>1, <2>2
  <1>8. ASSUME NEW k \in 1 .. K, NEW q \in 1 .. sizes[k]
        PROVE  binToFeature[(at[k - 1] + q) - 1] = k - 1
    <2>1. file[at[k - 1] + q] = <<k - 1, (at[k - 1] + q) - 1>>
      BY <1>3 DEF WrittenAt
    <2>2. at[k - 1] + q \in 1 .. n
      <3>0. sizes \in [1 .. K -> Nat] /\ OffsetsOf(K, sizes, at)
        BY <1>2
      <3>1. at[k - 1] \in Nat /\ at[k] \in Nat /\ sizes[k] \in Nat /\ at[k] = at[k - 1] + sizes[k] /\ k \in 0 .. K
        BY <3>0, OffsetsStep
      <3>2. PICK G : G = ExportedBins(K, sizes, at)
        OBVIOUS
      <3>3. G \in [1 .. K -> Seq(Nat)] /\ Offsets(K, G, at)
        BY <1>2, <3>2, ExportedOffsets
      <3>4. at[k] <= at[K]
        <4>1. K \in 0 .. K /\ k <= K
          OBVIOUS
        <4> QED BY <3>1, <3>3, <4>1, OffsetsGrow
      <3>5. at[k] <= n
        BY <1>2, <1>4, <3>4
      <3> QED BY <3>1, <3>5
    <2>3. binToFeature[file[at[k - 1] + q][2]] = file[at[k - 1] + q][1]
      BY <1>6, <2>2
    <2> QED BY <2>1, <2>3
  <1>9. NamesFeatures(K, sizes, at, binToFeature)
    BY <1>2, <1>4, <1>7, <1>8 DEF NamesFeatures
  <1>10. PICK G : G = ExportedBins(K, sizes, at)
    OBVIOUS
  <1>11. Grouped(binToFeature) = G
    BY <1>2, <1>9, <1>10, ExportedGroups
  <1>12. Concat(G) = [p \in 1 .. at[K] |-> p - 1] /\ [k \in DOMAIN G |-> Len(G[k])] = sizes
    BY <1>2, <1>10, ExportedBack
  <1>13. /\ order = Concat(Grouped(binToFeature))
         /\ fs = AddFeatures([k \in DOMAIN Grouped(binToFeature) |-> Len(Grouped(binToFeature)[k])])
    BY DEF MapInv, StatusInv
  <1>14. order = Concat(G) /\ fs = AddFeatures([k \in DOMAIN G |-> Len(G[k])])
    BY <1>11, <1>13
  <1>15. order = [p \in 1 .. BinCount |-> p - 1] /\ fs = AddFeatures(sizes)
    BY <1>2, <1>12, <1>14
  <1> QED BY <1>15 DEF GotFeatures

\* A text that names n bins, each once.
CompleteFor(n, text) ==
  /\ Len(text) = n
  /\ \A i \in DOMAIN text : Len(text[i]) = 2
  /\ {text[i][2] : i \in DOMAIN text} = 0 .. (n - 1)

\* Two numbers are a line.
LEMMA PairIsLine ==
  ASSUME NEW s \in Seq(Nat), Len(s) = 2
  PROVE  s \in Line
  <1>1. Len(s) <= 2
    OBVIOUS
  <1> QED BY <1>1 DEF Line

\* The text that is written is one.
LEMMA WrittenIsComplete ==
  ASSUME NEW n \in Nat, NEW text, NamesBins(n, text)
  PROVE  CompleteFor(n, text) /\ text \in Seq(Line)
  <1>1. text \in Seq(Seq(Nat)) /\ Len(text) = n
    BY DEF NamesBins
  <1>2. \A b \in 1 .. n : text[b] \in Seq(Nat) /\ Len(text[b]) = 2 /\ text[b][2] = b - 1
    BY DEF NamesBins
  <1>3. DOMAIN text = 1 .. n /\ text \in [1 .. n -> Seq(Nat)]
    BY <1>1, LenProperties
  <1>4. \A b \in 1 .. n : text[b] \in Line
    BY <1>2, PairIsLine
  <1>5. text \in Seq(Line)
    <2>1. text \in [1 .. n -> Line]
      BY <1>3, <1>4
    <2> QED BY <2>1, FunctionIsSequence
  <1>6. {text[i][2] : i \in 1 .. n} = 0 .. (n - 1)
    <2>1. ASSUME NEW i \in 1 .. n PROVE text[i][2] \in 0 .. (n - 1)
      BY <1>2
    <2>2. ASSUME NEW b \in 0 .. (n - 1) PROVE \E i \in 1 .. n : text[i][2] = b
      <3>1. b + 1 \in 1 .. n /\ (b + 1) - 1 = b
        OBVIOUS
      <3>2. text[b + 1][2] = (b + 1) - 1
        BY <1>2, <3>1
      <3> QED BY <3>1, <3>2
    <2> QED BY <2>1, <2>2
  <1> QED BY <1>1, <1>2, <1>3, <1>5, <1>6 DEF CompleteFor

\* The whole lines of a file that holds w of the n lines, and a line after
\* them that is cut somewhere, or none.
CutAt(n, text, w, cut, left) ==
  LET head == [k \in 1 .. w |-> text[k]]
  IN  \/ left = head \o <<>>
      \/ /\ w < n /\ left = head \o <<cut>>
         /\ \/ cut = <<text[w + 1][1]>>
            \/ cut = text[w + 1]
            \/ \E j \in Nat : j >= 1 /\ w > 0 /\ cut = <<text[w + 1][1], w \div Power(j)>>

\* Only the whole map is complete.
LEMMA CutIsIncomplete ==
  ASSUME NEW n \in Nat, n > 0, NEW text, NamesBins(n, text), NEW w \in 0 .. n, NEW cut, NEW left,
         CutAt(n, text, w, cut, left)
  PROVE  /\ left \in Seq(Line)
         /\ CompleteFor(n, left) => left = text
  <1> DEFINE head == [k \in 1 .. w |-> text[k]]
  <1>1. /\ text \in Seq(Seq(Nat)) /\ Len(text) = n /\ text \in Seq(Line)
        /\ \A b \in 1 .. n : /\ text[b] \in Seq(Nat) /\ Len(text[b]) = 2 /\ text[b] \in Line
                             /\ text[b][1] \in Nat /\ text[b][2] = b - 1
    <2>1. /\ text \in Seq(Seq(Nat)) /\ Len(text) = n /\ text \in Seq(Line)
      BY WrittenIsComplete DEF NamesBins
    <2>2. \A b \in 1 .. n : /\ text[b] \in Seq(Nat) /\ Len(text[b]) = 2
                            /\ text[b][1] \in Nat /\ text[b][2] = b - 1
      BY DEF NamesBins
    <2>3. \A b \in 1 .. n : text[b] \in Line
      BY <2>2, PairIsLine
    <2> QED BY <2>1, <2>2, <2>3
  <1>2. /\ head \in Seq(Line) /\ Len(head) = w
        /\ \A k \in 1 .. w : head[k] = text[k] /\ k \in 1 .. n
    <2>1. \A k \in 1 .. w : head[k] = text[k] /\ k \in 1 .. n
      OBVIOUS
    <2>2. head \in [1 .. w -> Line]
      BY <1>1
    <2> HIDE DEF head
    <2>3. w \in Nat
      OBVIOUS
    <2> QED BY <2>1, <2>2, <2>3, FunctionIsSequence
  <1> HIDE DEF head
  <1>3. CASE left = head \o <<>>
    <2>1. left = head
      BY <1>2, <1>3, ConcatEmptySeq
    <2>2. ASSUME CompleteFor(n, left) PROVE left = text
      <3>1. Len(left) = n
        BY <2>2 DEF CompleteFor
      <3>2. Len(left) = Len(text) /\ w = n
        BY <1>1, <1>2, <2>1, <3>1
      <3>3. \A i \in 1 .. Len(left) : left[i] = text[i]
        BY <1>2, <2>1, <3>1, <3>2
      <3> QED BY <1>1, <1>2, <2>1, <3>2, <3>3, SeqEqual
    <2> QED BY <1>2, <2>1, <2>2
  <1>4. CASE /\ w < n /\ left = head \o <<cut>>
             /\ \/ cut = <<text[w + 1][1]>>
                \/ cut = text[w + 1]
                \/ \E j \in Nat : j >= 1 /\ w > 0 /\ cut = <<text[w + 1][1], w \div Power(j)>>
    <2>1. w + 1 \in 1 .. n /\ (w + 1) - 1 = w /\ w \in Nat
      BY <1>4
    <2>2. cut \in Line
      <3>1. CASE cut = <<text[w + 1][1]>>
        <4>1. text[w + 1][1] \in Nat
          BY <1>1, <2>1
        <4> QED BY <3>1, <4>1 DEF Line
      <3>2. CASE cut = text[w + 1]
        BY <1>1, <2>1, <3>2
      <3>3. CASE \E j \in Nat : j >= 1 /\ w > 0 /\ cut = <<text[w + 1][1], w \div Power(j)>>
        <4>1. PICK j \in Nat : j >= 1 /\ cut = <<text[w + 1][1], w \div Power(j)>>
          BY <3>3
        <4>2. text[w + 1][1] \in Nat /\ w \div Power(j) \in Nat
          BY <1>1, <2>1, <4>1, CutIsSmaller
        <4> QED BY <4>1, <4>2 DEF Line
      <3> QED BY <1>4, <3>1, <3>2, <3>3
    <2>3. <<cut>> \in Seq(Line) /\ Len(<<cut>>) = 1 /\ <<cut>>[1] = cut
      BY <2>2
    <2>4. /\ left \in Seq(Line) /\ Len(left) = w + 1
          /\ \A i \in 1 .. (w + 1) : left[i] = IF i <= w THEN head[i] ELSE <<cut>>[i - w]
      <3>1. left = head \o <<cut>>
        BY <1>4
      <3> QED BY <1>2, <2>3, <3>1, ConcatProperties
    <2>5. left[w + 1] = cut /\ \A i \in 1 .. w : left[i] = text[i]
      <3>1. w + 1 \in 1 .. (w + 1) /\ ~(w + 1 <= w) /\ (w + 1) - w = 1
        BY <2>1
      <3>2. \A i \in 1 .. w : i \in 1 .. (w + 1) /\ i <= w
        BY <2>1
      <3> QED BY <1>2, <2>3, <2>4, <3>1, <3>2
    <2>6. ASSUME CompleteFor(n, left) PROVE left = text
      <3>1. n = w + 1 /\ DOMAIN left = 1 .. n
        <4>1. Len(left) = n
          BY <2>6 DEF CompleteFor
        <4> QED BY <2>4, <4>1, LenProperties
      <3>2. /\ \A i \in 1 .. n : Len(left[i]) = 2
            /\ {left[i][2] : i \in 1 .. n} = 0 .. (n - 1)
        BY <2>6, <3>1 DEF CompleteFor
      <3>3. cut = text[w + 1]
        <4>1. ASSUME cut = <<text[w + 1][1]>> PROVE FALSE
          <5>1. Len(cut) = 1
            BY <4>1
          <5>2. Len(cut) = 2
            BY <2>1, <2>5, <3>2
          <5> QED BY <5>1, <5>2
        <4>2. ASSUME NEW j \in Nat, j >= 1, w > 0, cut = <<text[w + 1][1], w \div Power(j)>>
              PROVE  FALSE
          <5>1. w \in 0 .. (n - 1)
            BY <2>1, <3>1
          <5>2. PICK i \in 1 .. n : left[i][2] = w
            BY <3>2, <5>1
          <5>3. CASE i = w + 1
            <6>1. cut[2] = w \div Power(j)
              BY <4>2
            <6>2. w \div Power(j) \in Nat /\ w \div Power(j) < w
              BY <2>1, <4>2, CutIsSmaller
            <6>3. w \div Power(j) = w
              BY <2>5, <5>2, <5>3, <6>1
            <6> QED BY <2>1, <6>2, <6>3
          <5>4. CASE i # w + 1
            <6>1. i \in 1 .. w
              BY <2>1, <3>1, <5>4
            <6>2. left[i][2] = i - 1
              BY <1>1, <1>2, <2>5, <6>1
            <6> QED BY <2>1, <5>2, <6>1, <6>2
          <5> QED BY <5>3, <5>4
        <4> QED BY <1>4, <4>1, <4>2
      <3>4. \A i \in 1 .. n : left[i] = text[i]
        <4> TAKE i \in 1 .. n
        <4>1. i = w + 1 \/ i \in 1 .. w
          BY <2>1, <3>1
        <4> QED BY <2>5, <3>3, <4>1
      <3> QED BY <1>1, <2>4, <3>1, <3>4, SeqEqual
    <2> QED BY <2>4, <2>6
  <1> QED BY <1>3, <1>4 DEF CutAt, head

\* Division is what it should be.
LEMMA QuotientIs ==
  ASSUME NEW b \in Nat, b >= 2, NEW q \in Nat, NEW r \in 0 .. (b - 1), NEW n \in Nat, n = b * q + r
  PROVE  n \div b = q /\ n % b = r
  <1>1. n \div b = q
    OBVIOUS
  <1>2. n % b = r
    OBVIOUS
  <1> QED BY <1>1, <1>2

\* What the map file holds after some of its units have been written.
LEMMA LeftOfMap ==
  ASSUME SizesOK, NEW d \in Nat, d <= MapUnits
  PROVE  /\ MapLines(d) \in Seq(Line)
         /\ CompleteFor(BinCount, MapLines(d)) => MapLines(d) = MapWritten
         /\ d = MapUnits => MapLines(d) = MapWritten
  <1>1. PICK n \in Nat : n = BinCount /\ n > 0 /\ NamesBins(n, MapWritten)
    BY WrittenMap
  <1>2. PICK text : text = MapWritten
    OBVIOUS
  <1>3. MapBefore(0) = 0 /\ \A b \in 0 .. n : MapBefore(b) \in Nat
    BY MapBeforeIsPosition
  <1> DEFINE T == {b \in 0 .. n : MapBefore(b) <= d}
  <1>4. T \in SUBSET Nat /\ T \subseteq 0 .. n /\ 0 \in T /\ IsFiniteSet(T)
    <2>1. IsFiniteSet(0 .. n)
      BY FS_Interval
    <2>2. T \subseteq 0 .. n /\ 0 \in 0 .. n
      OBVIOUS
    <2>3. IsFiniteSet(T)
      BY <2>1, <2>2, FS_Subset
    <2>4. 0 \in T
      BY <1>3, <2>2
    <2> QED BY <2>2, <2>3, <2>4
  <1>5. PICK w : w = Max(T)
    OBVIOUS
  <1>6. w \in T /\ \A y \in T : y <= w
    <2>1. \E x \in T : \A y \in T : y <= x
      <3> HIDE DEF T
      <3> QED BY <1>4, LargestElement
    <2>2. \A x, y \in T : y <= x <=> x >= y
      BY <1>4
    <2> HIDE DEF T
    <2>3. \E x \in T : \A y \in T : x >= y
      BY <2>1, <2>2
    <2>4. w \in T /\ \A y \in T : w >= y
      BY <1>5, <2>3 DEF Max
    <2> QED BY <2>2, <2>4
  <1>7. w \in 0 .. n /\ w \in Nat /\ MapBefore(w) \in Nat /\ MapBefore(w) <= d
    BY <1>3, <1>6
  <1>8. MapUnits = MapBefore(n) /\ n \in 0 .. n
    BY <1>1 DEF MapUnits
  <1>9. w = n => d = MapBefore(w)
    <2>1. w = n => MapBefore(w) = MapUnits /\ MapUnits \in Nat
      BY <1>7, <1>8
    <2> QED BY <1>7, <2>1
  <1>10. d = MapUnits => w = n
    <2> SUFFICES ASSUME d = MapUnits PROVE w = n
      OBVIOUS
    <2>1. MapBefore(n) <= d
      BY <1>3, <1>8
    <2>2. n <= w
      BY <1>6, <1>8, <2>1
    <2> QED BY <1>7, <2>2
  <1> DEFINE digits == d - MapBefore(w) - 2
             cut == IF digits <= 0 THEN <<text[w + 1][1]>>
                    ELSE IF digits >= Digits(w) THEN text[w + 1]
                    ELSE <<text[w + 1][1], w \div Power(Digits(w) - digits)>>
             head == [k \in 1 .. w |-> text[k]]
  <1>11. MapLines(d) = head \o (IF d = MapBefore(w) THEN <<>> ELSE <<cut>>)
    BY <1>1, <1>2, <1>5 DEF MapLines
  <1> HIDE DEF T
  <1>12. \/ cut = <<text[w + 1][1]>>
         \/ cut = text[w + 1]
         \/ \E j \in Nat : j >= 1 /\ w > 0 /\ cut = <<text[w + 1][1], w \div Power(j)>>
    <2>1. digits \in Int /\ Digits(w) \in Nat /\ (w = 0 => Digits(w) = 1)
      BY <1>7, DigitsBound
    <2> HIDE DEF digits
    <2>2. CASE digits <= 0
      BY <2>2
    <2>3. CASE ~(digits <= 0) /\ digits >= Digits(w)
      BY <2>3
    <2>4. CASE ~(digits <= 0) /\ ~(digits >= Digits(w))
      <3>1. Digits(w) - digits \in Nat /\ Digits(w) - digits >= 1
        BY <2>1, <2>4
      <3>2. w > 0
        BY <1>7, <2>1, <2>4
      <3>3. cut = <<text[w + 1][1], w \div Power(Digits(w) - digits)>>
        BY <2>4
      <3> HIDE DEF cut
      <3> QED BY <3>1, <3>2, <3>3
    <2> QED BY <2>2, <2>3, <2>4
  <1> HIDE DEF cut, digits
  <1>13. CutAt(n, text, w, cut, MapLines(d))
    <2>1. CASE d = MapBefore(w)
      <3>1. MapLines(d) = head \o <<>>
        BY <1>11, <2>1
      <3> QED BY <3>1 DEF CutAt
    <2>2. CASE d # MapBefore(w)
      <3>1. MapLines(d) = head \o <<cut>>
        BY <1>11, <2>2
      <3>2. w < n
        BY <1>7, <1>9, <2>2
      <3> QED BY <1>12, <3>1, <3>2 DEF CutAt
    <2> QED BY <2>1, <2>2
  <1>14. PICK left : left = MapLines(d)
    OBVIOUS
  <1>15. left \in Seq(Line) /\ (CompleteFor(n, left) => left = text)
    BY <1>1, <1>2, <1>7, <1>13, <1>14, CutIsIncomplete
  <1>16. ASSUME d = MapUnits PROVE MapLines(d) = MapWritten
    <2>1. w = n /\ d = MapBefore(w)
      BY <1>9, <1>10, <1>16
    <2>2. text \in Seq(Seq(Nat)) /\ Len(text) = n
      BY <1>1, <1>2 DEF NamesBins
    <2>3. head = text
      BY <2>1, <2>2
    <2> HIDE DEF head
    <2>4. MapLines(d) = text \o <<>>
      BY <1>11, <2>1, <2>3
    <2> QED BY <1>2, <2>2, <2>4, ConcatEmptySeq
  <1> QED BY <1>1, <1>2, <1>14, <1>15, <1>16

\* What ReadPool finds in a pool that holds at least one line, the end of it
\* perhaps missing.
LEMMA LeftOfPool ==
  ASSUME SizesOK, NEW d \in Nat, d >= PoolLine - 1, ReadPool(d).ok
  PROVE  ReadPool(d).bins = BinCount /\ ReadPool(d).lines = (d + 1) \div PoolLine
  <1>1. BinCount \in Nat /\ BinCount > 0
    BY WrittenMap
  <1>2. PICK b \in Nat : b = PoolLine /\ b >= 4
    BY <1>1 DEF PoolLine
  <1>3. PICK q \in Nat : q = d \div b
    BY <1>2
  <1>4. PICK r \in 0 .. (b - 1) : r = d % b
    BY <1>2
  <1>5. r = d - b * q
    <2>1. d % b = d - b * (d \div b)
      BY <1>2
    <2> QED BY <1>3, <1>4, <2>1
  <1>6. d = b * q + r
    <2>1. b * q \in Int
      BY <1>2
    <2> QED BY <1>5, <2>1
  <1>7. ReadPool(d) = IF r \in {0, b - 1}
                      THEN [ok |-> TRUE, lines |-> IF r = 0 THEN q ELSE q + 1, bins |-> IF d = 0 THEN -1 ELSE BinCount]
                      ELSE [ok |-> r % 2 = 1 /\ q = 0, lines |-> 1, bins |-> r \div 2]
    BY <1>2, <1>3, <1>4 DEF ReadPool
  <1>8. r \in {0, b - 1}
    <2> SUFFICES ASSUME r \notin {0, b - 1} PROVE FALSE
      OBVIOUS
    <2>1. q = 0
      <3>1. ReadPool(d) = [ok |-> r % 2 = 1 /\ q = 0, lines |-> 1, bins |-> r \div 2]
        BY <1>7
      <3>2. ReadPool(d).ok = (r % 2 = 1 /\ q = 0)
        BY ONLY <3>1
      <3> QED BY <3>2, Zenon
    <2>2. d = r
      BY <1>2, <1>6, <2>1
    <2> QED BY <1>2, <2>2
  <1>9. d # 0
    BY <1>2
  <1>10. ReadPool(d).bins = BinCount /\ ReadPool(d).lines = IF r = 0 THEN q ELSE q + 1
    BY <1>7, <1>8, <1>9
  <1>11. CASE r = 0
    <2>1. d + 1 = b * q + 1 /\ 1 \in 0 .. (b - 1) /\ d + 1 \in Nat
      BY <1>2, <1>6, <1>11
    <2>2. (d + 1) \div b = q
      BY <1>2, <2>1, QuotientIs
    <2> QED BY <1>2, <1>10, <1>11, <2>2
  <1>12. CASE r # 0
    <2>1. r = b - 1
      BY <1>8, <1>12
    <2>2. d + 1 = b * (q + 1) + 0 /\ 0 \in 0 .. (b - 1) /\ d + 1 \in Nat /\ q + 1 \in Nat
      BY <1>2, <1>6, <2>1
    <2>3. (d + 1) \div b = q + 1
      <3>1. PICK p \in Nat : p = q + 1
        OBVIOUS
      <3>2. PICK e \in Nat : e = d + 1
        OBVIOUS
      <3>3. e = b * p + 0
        BY <2>2, <3>1, <3>2
      <3>4. e \div b = p
        BY <1>2, <2>2, <3>3, QuotientIs
      <3> QED BY <3>1, <3>2, <3>4
    <2> QED BY <1>2, <1>10, <1>12, <2>3
  <1> QED BY <1>11, <1>12

\* A complete pool is read.
LEMMA WholePool ==
  ASSUME SizesOK, lineCount \in Nat \ {0}
  PROVE  /\ PoolUnits \in Nat /\ PoolUnits >= PoolLine - 1
         /\ ReadPool(PoolUnits).ok
         /\ (PoolUnits + 1) \div PoolLine = lineCount
  <1>1. BinCount \in Nat /\ BinCount > 0
    BY WrittenMap
  <1>2. PICK b \in Nat : b = PoolLine /\ b >= 4
    BY <1>1 DEF PoolLine
  <1>3. PICK q \in Nat : q = lineCount /\ q > 0
    OBVIOUS
  <1>4. PoolUnits = b * q
    <2>1. PoolUnits = q * b
      BY <1>2, <1>3 DEF PoolUnits
    <2>2. q * b = b * q
      OBVIOUS
    <2> QED BY <2>1, <2>2
  <1>5. PICK d \in Nat : d = PoolUnits /\ d = b * q + 0 /\ d >= b
    <2>1. b * q \in Nat /\ b * q = b * q + 0
      OBVIOUS
    <2>2. b * q >= b
      BY <1>3
    <2> QED BY <1>4, <2>1, <2>2
  <1>6. d % b = 0
    <2>1. 0 \in 0 .. (b - 1)
      BY <1>2
    <2> QED BY <1>2, <1>5, <2>1, QuotientIs
  <1>7. (d + 1) \div b = q
    <2>1. d + 1 = b * q + 1 /\ 1 \in 0 .. (b - 1) /\ d + 1 \in Nat
      BY <1>2, <1>5
    <2> QED BY <1>2, <2>1, QuotientIs
  <1>8. ReadPool(d).ok
    BY <1>2, <1>6 DEF ReadPool
  <1> QED BY <1>2, <1>3, <1>5, <1>7, <1>8

-----------------------------------------------------------------------------
(***************************************************************************)
(* The two streams and the second run.                                     *)
(***************************************************************************)
Stream == [stored : Nat, disk : Nat]

\* What is exported, and through which buffers.
ExportTypeOK ==
  /\ SizesOK /\ lineCount \in Nat \ {0} /\ bufferSize \in Nat \ {0} /\ oldMap \in Seq(Line)
  /\ pool \in Stream /\ map \in Stream /\ mapOpen \in BOOLEAN /\ failed \in BOOLEAN
  /\ pc \in {"pool", "map", "closePool", "ended", "read"}

\* How far the streams are: the map is opened when the pool has been given to
\* its stream, and a process that exits without a failed write has given both
\* files to the operating system.
StreamsInv ==
  /\ Length(pool) <= PoolUnits /\ Length(map) <= MapUnits
  /\ pc = "pool" => ~mapOpen /\ ~failed
  /\ pc = "map" => mapOpen /\ ~failed /\ Length(pool) = PoolUnits
  /\ pc = "closePool" => mapOpen /\ Length(pool) = PoolUnits /\ (~failed => map.disk = MapUnits)
  /\ pc \in {"pool", "map", "closePool"} => ended = ""
  /\ ended = "exited" /\ mapOpen /\ ~failed => pool.disk = PoolUnits /\ map.disk = MapUnits

\* What the second run has of the files.
ReaderInv ==
  /\ pc # "read" => MapInit
  /\ status = "badPool" => pc = "read" /\ poolBins = 0 /\ ~ReadPool(pool.disk).ok
  /\ status = "noMap" => pc = "read" /\ poolBins = 0 /\ MapFile = NoFile
  /\ status \notin {"badPool", "noMap"} => MapInv
  /\ pc = "read" /\ status \notin {"badPool", "noMap"} =>
       /\ ReadPool(pool.disk).ok /\ MapFile # NoFile /\ file = MapFile
       /\ poolBins = ReadPool(pool.disk).bins /\ lines = ReadPool(pool.disk).lines

ExportInv == ExportTypeOK /\ StreamsInv /\ ReaderInv

\* What does not change with the input.
LEMMA SameInput ==
  ASSUME UNCHANGED input
  PROVE  /\ PoolUnits' = PoolUnits /\ MapUnits' = MapUnits
         /\ SizesOK' = SizesOK
         /\ UNCHANGED <<sizes, lineCount, bufferSize, oldMap>>
  <1>1. UNCHANGED <<sizes, lineCount, bufferSize, oldMap>>
    BY DEF input
  <1>2. SizesOK' = SizesOK
    BY <1>1 DEF SizesOK
  <1>3. BinCount' = BinCount
    BY <1>1 DEF BinCount
  <1>4. PoolUnits' = PoolUnits
    BY <1>1, <1>3 DEF PoolUnits, PoolLine
  <1>5. MapUnits' = MapUnits
    BY <1>3 DEF MapUnits
  <1> QED BY <1>1, <1>2, <1>4, <1>5

\* What does not change with the files.
LEMMA SameFiles ==
  ASSUME UNCHANGED <<input, pool, map, mapOpen>>
  PROVE  ReadPool(pool.disk)' = ReadPool(pool.disk) /\ MapFile' = MapFile
  <1>1. UNCHANGED <<sizes, oldMap, pool, map, mapOpen>>
    BY DEF input
  <1>2. BinCount' = BinCount
    BY <1>1 DEF BinCount
  <1>3. PoolLine' = PoolLine
    BY <1>2 DEF PoolLine
  <1>4. ReadPool(pool.disk)' = ReadPool(pool.disk)
    BY <1>1, <1>2, <1>3 DEF ReadPool
  <1>5. MapWritten' = MapWritten
    BY <1>1 DEF MapWritten
  <1>6. MapFile' = MapFile
    BY <1>1, <1>2, <1>5 DEF MapFile, MapLines
  <1> QED BY <1>4, <1>6

\* The operations of a stream.
LEMMA StreamSteps ==
  ASSUME NEW s \in Stream, bufferSize \in Nat \ {0}
  PROVE  /\ Length(s) \in Nat /\ s.disk \in Nat /\ s.disk <= Length(s)
         /\ Put(s) \in Stream /\ Length(Put(s)) = Length(s) + 1
         /\ Flush(s) \in Stream /\ Length(Flush(s)) = Length(s) /\ Flush(s).disk = Length(s)
         /\ \A t \in Torn(s) : t \in Stream /\ Length(t) <= Length(s)
         /\ [s EXCEPT !.stored = 0] \in Stream /\ Length([s EXCEPT !.stored = 0]) <= Length(s)
  <1>1. s.stored \in Nat /\ s.disk \in Nat
    BY DEF Stream
  <1>2. Length(s) \in Nat /\ s.disk <= Length(s)
    BY <1>1 DEF Length
  <1>3. Put(s) \in Stream /\ Length(Put(s)) = Length(s) + 1
    <2>1. CASE s.stored < bufferSize
      <3>1. Put(s) = [s EXCEPT !.stored = s.stored + 1]
        BY <2>1 DEF Put
      <3>2. Put(s) = [stored |-> s.stored + 1, disk |-> s.disk]
        BY <3>1 DEF Stream
      <3> QED BY <1>1, <3>2 DEF Stream, Length
    <2>2. CASE ~(s.stored < bufferSize)
      <3>1. Put(s) = [stored |-> 1, disk |-> s.disk + s.stored]
        BY <2>2 DEF Put
      <3> QED BY <1>1, <3>1 DEF Stream, Length
    <2> QED BY <2>1, <2>2
  <1>4. Flush(s) \in Stream /\ Length(Flush(s)) = Length(s) /\ Flush(s).disk = Length(s)
    BY <1>1 DEF Flush, Stream, Length
  <1>5. ASSUME NEW t \in Torn(s)
        PROVE  t \in Stream /\ Length(t) <= Length(s)
    <2>1. PICK k \in 0 .. (s.stored - 1) : t = [stored |-> 0, disk |-> s.disk + k]
      BY DEF Torn
    <2> QED BY <1>1, <2>1 DEF Stream, Length
  <1>6. [s EXCEPT !.stored = 0] \in Stream /\ Length([s EXCEPT !.stored = 0]) <= Length(s)
    <2>1. [s EXCEPT !.stored = 0] = [stored |-> 0, disk |-> s.disk]
      BY DEF Stream
    <2> QED BY <1>1, <2>1 DEF Stream, Length
  <1> QED BY <1>1, <1>2, <1>3, <1>4, <1>5, <1>6

\* While the first run is writing, nothing has been read.
LEMMA NothingRead ==
  ASSUME ExportInv, pc # "read", pc' # "read", UNCHANGED mapVars
  PROVE  ReaderInv'
  <1>1. MapInit
    BY DEF ExportInv, ReaderInv
  <1>2. MapInit'
    BY <1>1 DEF MapInit, mapVars
  <1>3. MapInv'
    <2>1. MapInv
      BY <1>1, MapInitInv
    <2> QED BY <2>1, ReadMapInv
  <1>4. status' = "closed"
    BY <1>2 DEF MapInit
  <1> QED BY <1>2, <1>3, <1>4 DEF ReaderInv

\* The steps of the first run.
Writing == \/ WritePool \/ WritePoolFails \/ OpenMap \/ WriteMap \/ WriteMapFails
           \/ CloseMap \/ ClosePool \/ Crash

\* They preserve the invariant: one step of this proof for each.
LEMMA WritingInv ==
  ASSUME ExportInv, Writing
  PROVE  ExportInv'
  <1>1. /\ UNCHANGED input /\ UNCHANGED mapVars /\ pc # "read" /\ pc' # "read"
    BY DEF Writing, WritePool, WritePoolFails, OpenMap, WriteMap, WriteMapFails, CloseMap, ClosePool, Crash
  <1>2. ReaderInv'
    BY <1>1, NothingRead
  <1>3. PICK P \in Nat : P = PoolUnits /\ P = PoolUnits'
    BY <1>1, SameInput, WholePool DEF ExportInv, ExportTypeOK
  <1>4. PICK M : M = MapUnits /\ M = MapUnits'
    BY <1>1, SameInput
  <1>5. M \in Nat
    <2>1. BinCount \in Nat
      BY WrittenMap DEF ExportInv, ExportTypeOK
    <2>2. BinCount \in 0 .. BinCount
      BY <2>1
    <2> QED BY <1>4, <2>1, <2>2, MapBeforeIsPosition DEF MapUnits
  <1>6. /\ SizesOK' /\ lineCount' \in Nat \ {0} /\ bufferSize' \in Nat \ {0} /\ oldMap' \in Seq(Line)
    BY <1>1, SameInput DEF ExportInv, ExportTypeOK
  <1>7. /\ pool \in Stream /\ map \in Stream /\ bufferSize \in Nat \ {0}
        /\ mapOpen \in BOOLEAN /\ failed \in BOOLEAN
    BY DEF ExportInv, ExportTypeOK
  <1>8. /\ Length(pool) <= P /\ Length(map) <= M
        /\ pc = "pool" => ~mapOpen /\ ~failed
        /\ pc = "map" => mapOpen /\ ~failed /\ Length(pool) = P
        /\ pc = "closePool" => mapOpen /\ Length(pool) = P /\ (~failed => map.disk = M)
        /\ pc \in {"pool", "map", "closePool"} => ended = ""
    BY <1>3, <1>4 DEF ExportInv, StreamsInv
  <1> DEFINE Goal == /\ pool' \in Stream /\ map' \in Stream /\ mapOpen' \in BOOLEAN /\ failed' \in BOOLEAN
                     /\ pc' \in {"pool", "map", "closePool", "ended", "read"}
                     /\ Length(pool') <= P /\ Length(map') <= M
                     /\ pc' = "pool" => ~mapOpen' /\ ~failed'
                     /\ pc' = "map" => mapOpen' /\ ~failed' /\ Length(pool') = P
                     /\ pc' = "closePool" => mapOpen' /\ Length(pool') = P /\ (~failed' => map'.disk = M)
                     /\ pc' \in {"pool", "map", "closePool"} => ended' = ""
                     /\ ended' = "exited" /\ mapOpen' /\ ~failed' => pool'.disk = P /\ map'.disk = M
  <1>9. PICK p \in Nat : p = Length(pool)
    BY <1>7, StreamSteps
  <1>10. PICK m \in Nat : m = Length(map)
    BY <1>7, StreamSteps
  <1>10a. p <= P /\ m <= M
    BY <1>8, <1>9, <1>10
  <1>11. ASSUME WritePool PROVE Goal
    <2>1. /\ pc = "pool" /\ p < P /\ pool' = Put(pool)
          /\ UNCHANGED <<pc, map, mapOpen, failed, ended>>
      BY <1>3, <1>9, <1>11 DEF WritePool
    <2>2. pool' \in Stream /\ Length(pool') = p + 1
      BY <1>7, <1>9, <2>1, StreamSteps
    <2>3. Length(pool') <= P
      BY <2>1, <2>2
    <2> QED BY <1>7, <1>8, <2>1, <2>2, <2>3
  <1>12. ASSUME WritePoolFails PROVE Goal
    <2>1. /\ pc = "pool" /\ pool' \in Torn(pool) /\ failed' = TRUE /\ pc' = "ended" /\ ended' = "aborted"
          /\ UNCHANGED <<map, mapOpen>>
      BY <1>12 DEF WritePoolFails
    <2>2. pool' \in Stream /\ Length(pool') <= p /\ Length(pool') \in Nat
      <3>1. pool' \in Stream /\ Length(pool') <= p
        BY <1>7, <1>9, <2>1, StreamSteps
      <3> QED BY <1>7, <3>1, StreamSteps
    <2>3. Length(pool') <= P
      BY <1>10a, <2>2
    <2> QED BY <1>7, <1>8, <2>1, <2>2, <2>3
  <1>13. ASSUME OpenMap PROVE Goal
    <2>1. /\ pc = "pool" /\ p = P /\ mapOpen' = TRUE /\ pc' = "map" /\ UNCHANGED <<pool, map, failed, ended>>
      BY <1>3, <1>9, <1>13 DEF OpenMap
    <2> QED BY <1>7, <1>8, <1>9, <2>1
  <1>14. ASSUME WriteMap PROVE Goal
    <2>1. /\ pc = "map" /\ m < M /\ map' = Put(map)
          /\ UNCHANGED <<pc, pool, mapOpen, failed, ended>>
      BY <1>4, <1>10, <1>14 DEF WriteMap
    <2>2. map' \in Stream /\ Length(map') = m + 1
      BY <1>7, <1>10, <2>1, StreamSteps
    <2>3. Length(map') <= M
      BY <1>5, <2>1, <2>2
    <2> QED BY <1>7, <1>8, <2>1, <2>2, <2>3
  <1>15. ASSUME WriteMapFails PROVE Goal
    <2>1. /\ pc = "map" /\ map' \in Torn(map) /\ failed' = TRUE /\ pc' = "ended" /\ ended' = "aborted"
          /\ UNCHANGED <<pool, mapOpen>>
      BY <1>15 DEF WriteMapFails
    <2>2. map' \in Stream /\ Length(map') <= m /\ Length(map') \in Nat
      <3>1. map' \in Stream /\ Length(map') <= m
        BY <1>7, <1>10, <2>1, StreamSteps
      <3> QED BY <1>7, <3>1, StreamSteps
    <2>3. Length(map') <= M
      BY <1>5, <1>10a, <2>2
    <2> QED BY <1>7, <1>8, <2>1, <2>2, <2>3
  <1>16. ASSUME CloseMap PROVE Goal
    <2>1. /\ pc = "map" /\ m = M /\ pc' = "closePool" /\ UNCHANGED <<pool, mapOpen, ended>>
          /\ \/ map' = Flush(map) /\ failed' = failed
             \/ map' \in Torn(map) /\ failed' = TRUE
      BY <1>4, <1>10, <1>16 DEF CloseMap
    <2>2. CASE map' = Flush(map) /\ failed' = failed
      <3>1. map' \in Stream /\ Length(map') = m /\ map'.disk = m
        BY <1>7, <1>10, <2>2, StreamSteps
      <3> QED BY <1>7, <1>8, <1>10, <2>1, <2>2, <3>1
    <2>3. CASE map' \in Torn(map) /\ failed' = TRUE
      <3>1. map' \in Stream /\ Length(map') <= m
        BY <1>7, <1>10, <2>3, StreamSteps
      <3> QED BY <1>7, <1>8, <1>10, <2>1, <2>3, <3>1
    <2> QED BY <2>1, <2>2, <2>3
  <1>17. ASSUME ClosePool PROVE Goal
    <2>1. /\ pc = "closePool" /\ pc' = "ended" /\ ended' = "exited" /\ UNCHANGED <<map, mapOpen>>
          /\ \/ pool' = Flush(pool) /\ failed' = failed
             \/ pool' \in Torn(pool) /\ failed' = TRUE
      BY <1>17 DEF ClosePool
    <2>2. CASE pool' = Flush(pool) /\ failed' = failed
      <3>1. pool' \in Stream /\ Length(pool') = p /\ pool'.disk = p
        BY <1>7, <1>9, <2>2, StreamSteps
      <3> QED BY <1>7, <1>8, <1>9, <2>1, <2>2, <3>1
    <2>3. CASE pool' \in Torn(pool) /\ failed' = TRUE
      <3>1. pool' \in Stream /\ Length(pool') <= p
        BY <1>7, <1>9, <2>3, StreamSteps
      <3>2. p = P
        BY <1>8, <1>9, <2>1
      <3> QED BY <1>7, <1>8, <2>1, <2>3, <3>1, <3>2
    <2> QED BY <2>1, <2>2, <2>3
  <1>18. ASSUME Crash PROVE Goal
    <2>1. /\ pool' = [pool EXCEPT !.stored = 0] /\ map' = [map EXCEPT !.stored = 0]
          /\ pc' = "ended" /\ ended' = "crashed" /\ UNCHANGED <<mapOpen, failed>>
      BY <1>18 DEF Crash
    <2>2. pool' \in Stream /\ map' \in Stream /\ Length(pool') <= p /\ Length(map') <= m
      BY <1>7, <1>9, <1>10, <2>1, StreamSteps
    <2>3. Length(pool') \in Nat /\ Length(map') \in Nat
      BY <1>7, <2>2, StreamSteps
    <2>4. Length(pool') <= P /\ Length(map') <= M
      BY <1>5, <1>10a, <2>2, <2>3
    <2> QED BY <1>7, <2>1, <2>2, <2>4
  <1>19. Goal
    BY <1>11, <1>12, <1>13, <1>14, <1>15, <1>16, <1>17, <1>18 DEF Writing
  <1>20. ExportTypeOK'
    BY <1>6, <1>19 DEF ExportTypeOK
  <1>21. Length(pool)' = Length(pool') /\ Length(map)' = Length(map')
    BY DEF Length
  <1>22. StreamsInv'
    BY <1>3, <1>4, <1>19, <1>21 DEF StreamsInv
  <1> QED BY <1>2, <1>20, <1>22 DEF ExportInv

\* Map files hold lines.
LEMMA MapsAreLines ==
  ASSUME NEW m \in OldMaps \cup OtherMaps
  PROVE  m \in Seq(Line)
  <1>1. m \in Seq(Seq(Nat)) /\ \A i \in DOMAIN m : Len(m[i]) <= 2
    BY BinaryPoolAssumption
  <1>2. PICK n \in Nat : n = Len(m)
    BY <1>1, LenProperties
  <1>3. DOMAIN m = 1 .. n /\ m \in [1 .. n -> Seq(Nat)]
    BY <1>1, <1>2, LenProperties
  <1>4. \A i \in 1 .. n : m[i] \in Line
    BY <1>1, <1>3 DEF Line
  <1>5. m \in [1 .. n -> Line]
    BY <1>3, <1>4
  <1> QED BY <1>5, FunctionIsSequence

\* The first run has opened the pool, or there is a pool with its map.
LEMMA ExportInit ==
  ASSUME Init
  PROVE  ExportInv
  <1>1. /\ map = Closed /\ mapOpen = FALSE /\ failed = FALSE /\ lines = 0 /\ MapInit
    BY DEF Init
  <1>2. \/ /\ sizes \in FeatureSizes /\ lineCount \in LineCounts /\ oldMap \in OldMaps /\ bufferSize \in BufferSizes
           /\ pc = "pool" /\ pool = Closed /\ ended = ""
        \/ /\ \E n \in PoolSizes : sizes = <<n>>
           /\ lineCount = 1 /\ oldMap \in OtherMaps /\ bufferSize = 1
           /\ pc = "ended" /\ pool = [Closed EXCEPT !.disk = PoolUnits] /\ ended = "exited"
    BY DEF Init
  <1>3. SizesOK
    <2>1. CASE sizes \in FeatureSizes
      BY <2>1, BinaryPoolAssumption DEF SizesOK
    <2>2. CASE \E n \in PoolSizes : sizes = <<n>>
      <3>1. PICK n \in Nat \ {0} : sizes = <<n>>
        BY <2>2, BinaryPoolAssumption
      <3> QED BY <3>1 DEF SizesOK
    <2> QED BY <1>2, <2>1, <2>2
  <1>4. lineCount \in Nat \ {0} /\ bufferSize \in Nat \ {0}
    <2>1. LineCounts \subseteq Nat \ {0} /\ BufferSizes \subseteq Nat \ {0}
      BY BinaryPoolAssumption
    <2>2. lineCount \in LineCounts \cup {1} /\ bufferSize \in BufferSizes \cup {1}
      BY <1>2
    <2> QED BY <2>1, <2>2
  <1>5. oldMap \in Seq(Line)
    BY <1>2, MapsAreLines
  <1>6. PoolUnits \in Nat /\ MapUnits \in Nat
    <2>1. BinCount \in Nat
      BY <1>3, WrittenMap
    <2>2. BinCount \in 0 .. BinCount
      BY <2>1
    <2> QED BY <1>3, <1>4, <2>1, <2>2, WholePool, MapBeforeIsPosition DEF MapUnits
  <1>7. /\ map \in Stream /\ Length(map) <= MapUnits
    BY <1>1, <1>6 DEF Closed, Stream, Length
  <1>8. /\ pool \in Stream /\ Length(pool) <= PoolUnits
    <2>1. CASE pool = Closed
      BY <1>6, <2>1 DEF Closed, Stream, Length
    <2>2. CASE pool = [Closed EXCEPT !.disk = PoolUnits]
      <3>1. pool = [stored |-> 0, disk |-> PoolUnits]
        BY <2>2 DEF Closed
      <3> QED BY <1>6, <3>1 DEF Stream, Length
    <2> QED BY <1>2, <2>1, <2>2
  <1>9. pc \in {"pool", "ended"} /\ (pc = "pool" => ended = "")
    BY <1>2
  <1>10. ExportTypeOK
    BY <1>1, <1>3, <1>4, <1>5, <1>7, <1>8, <1>9 DEF ExportTypeOK
  <1>11. StreamsInv
    BY <1>1, <1>7, <1>8, <1>9 DEF StreamsInv
  <1>12. MapInv /\ status = "closed"
    BY <1>1, MapInitInv DEF MapInit
  <1>13. ReaderInv
    BY <1>1, <1>9, <1>12 DEF ReaderInv
  <1> QED BY <1>10, <1>11, <1>13 DEF ExportInv

\* The second run leaves the files alone.
LEMMA FilesStay ==
  ASSUME ExportInv, UNCHANGED <<input, pool, map, mapOpen, failed, ended>>, pc' \in {pc, "read"}
  PROVE  ExportTypeOK' /\ StreamsInv'
  <1>1. PoolUnits' = PoolUnits /\ MapUnits' = MapUnits /\ SizesOK' = SizesOK
    BY SameInput
  <1>2. UNCHANGED <<sizes, lineCount, bufferSize, oldMap>>
    BY DEF input
  <1>3. ExportTypeOK'
    <2>1. SizesOK'
      BY <1>1 DEF ExportInv, ExportTypeOK
    <2> QED BY <1>2, <2>1 DEF ExportInv, ExportTypeOK
  <1>4. Length(pool)' = Length(pool) /\ Length(map)' = Length(map)
    BY DEF Length
  <1>5. StreamsInv'
    BY <1>1, <1>4 DEF ExportInv, StreamsInv
  <1> QED BY <1>3, <1>5

\* The map that is read is a sequence of lines.
LEMMA MapFileIsText ==
  ASSUME ExportInv
  PROVE  MapFile \in Seq(Line)
  <1>1. CASE mapOpen
    <2>1. map.disk \in Nat /\ map.disk <= Length(map) /\ Length(map) \in Nat
      BY StreamSteps DEF ExportInv, ExportTypeOK
    <2>2. Length(map) <= MapUnits
      BY DEF ExportInv, StreamsInv
    <2>3. MapUnits \in Nat
      <3>1. BinCount \in Nat
        BY WrittenMap DEF ExportInv, ExportTypeOK
      <3>2. BinCount \in 0 .. BinCount
        BY <3>1
      <3> QED BY <3>1, <3>2, MapBeforeIsPosition DEF MapUnits
    <2>4. map.disk <= MapUnits
      BY <2>1, <2>2, <2>3
    <2> QED BY <1>1, <2>1, <2>4, LeftOfMap DEF MapFile, ExportInv, ExportTypeOK
  <1>2. CASE ~mapOpen
    BY <1>2 DEF MapFile, ExportInv, ExportTypeOK
  <1> QED BY <1>1, <1>2

\* The bins ReadPool counts.
LEMMA PoolBins ==
  ASSUME SizesOK, NEW d \in Nat
  PROVE  ReadPool(d).bins \in {-1} \cup Nat
  <1>1. BinCount \in Nat /\ BinCount > 0
    BY WrittenMap
  <1>2. PICK b \in Nat : b = PoolLine /\ b >= 4
    BY <1>1 DEF PoolLine
  <1>3. PICK r \in Nat : r = d % b
    BY <1>2
  <1>4. r \div 2 \in Nat
    OBVIOUS
  <1> QED BY <1>1, <1>2, <1>3, <1>4 DEF ReadPool

\* The second run refuses the pool, or finds no map.
LEMMA RefusingInv ==
  ASSUME ExportInv, PoolRefused \/ MapMissing
  PROVE  ExportInv'
  <1>1. /\ pc = "ended" /\ pc' = "read" /\ UNCHANGED <<input, pool, map, mapOpen, failed, ended, poolBins>>
        /\ \/ status' = "badPool" /\ ~ReadPool(pool.disk).ok
           \/ status' = "noMap" /\ MapFile = NoFile
    BY DEF PoolRefused, MapMissing
  <1>2. ExportTypeOK' /\ StreamsInv'
    BY <1>1, FilesStay
  <1>3. ReadPool(pool.disk)' = ReadPool(pool.disk) /\ MapFile' = MapFile
    BY <1>1, SameFiles
  <1>4. poolBins' = 0
    BY <1>1 DEF ExportInv, ReaderInv, MapInit
  <1>5. ReaderInv'
    BY <1>1, <1>3, <1>4 DEF ReaderInv
  <1> QED BY <1>2, <1>5 DEF ExportInv

\* The second run opens the map.
LEMMA OpeningInv ==
  ASSUME ExportInv, ReadBinarizedPool
  PROVE  ExportInv'
  <1>1. /\ pc = "ended" /\ ReadPool(pool.disk).ok /\ MapFile # NoFile
        /\ pc' = "read" /\ lines' = ReadPool(pool.disk).lines
        /\ StartReading(MapFile, ReadPool(pool.disk).bins)
        /\ UNCHANGED <<input, pool, map, mapOpen, failed, ended>>
    BY DEF ReadBinarizedPool
  <1>2. ExportTypeOK' /\ StreamsInv'
    BY <1>1, FilesStay
  <1>3. ReadPool(pool.disk)' = ReadPool(pool.disk) /\ MapFile' = MapFile
    BY <1>1, SameFiles
  <1>4. PICK text \in Seq(Line) : text = MapFile
    BY MapFileIsText
  <1>5. PICK bins \in {-1} \cup Nat : bins = ReadPool(pool.disk).bins
    <2>1. SizesOK /\ pool.disk \in Nat
      BY StreamSteps DEF ExportInv, ExportTypeOK
    <2> QED BY <2>1, PoolBins
  <1>6. StartReading(text, bins) /\ MapInv
    <2>1. MapInit
      BY <1>1 DEF ExportInv, ReaderInv
    <2> QED BY <1>1, <1>4, <1>5, <2>1, MapInitInv
  <1>7. MapInv'
    BY <1>6, StartReadingInv
  <1>8. status' = "reading" /\ file' = text /\ poolBins' = bins
    BY <1>6 DEF StartReading
  <1>9. ReaderInv'
    BY <1>1, <1>3, <1>4, <1>5, <1>7, <1>8 DEF ReaderInv
  <1> QED BY <1>2, <1>9 DEF ExportInv

\* The map is read, or nothing happens.
LEMMA ReadingInv ==
  ASSUME ExportInv, ReadMap \/ UNCHANGED mapVars, UNCHANGED export
  PROVE  ExportInv'
  <1>1. UNCHANGED <<input, pc, pool, map, mapOpen, failed, ended, lines>>
    BY DEF export
  <1>2. ExportTypeOK' /\ StreamsInv'
    BY <1>1, FilesStay
  <1>3. ReadPool(pool.disk)' = ReadPool(pool.disk) /\ MapFile' = MapFile
    BY <1>1, SameFiles
  <1>4. CASE UNCHANGED mapVars
    <2>1. UNCHANGED <<file, poolBins, status>>
      BY <1>4 DEF mapVars
    <2>2. MapInit => MapInit'
      BY <1>4 DEF MapInit, mapVars
    <2>3. MapInv => MapInv'
      BY <1>4, ReadMapInv
    <2>4. ReaderInv'
      BY <1>1, <1>3, <2>1, <2>2, <2>3 DEF ExportInv, ReaderInv
    <2> QED BY <1>2, <2>4 DEF ExportInv
  <1>5. CASE ReadMap
    <2>1. status \in {"reading", "read"} /\ UNCHANGED <<file, poolBins>>
      BY <1>5 DEF ReadMap, ReadLine, ReadBrokenLine, EndOfFile, BinarizeNothing, WrongSize, BinarizeWithMap
    <2>2. pc = "read"
      BY <2>1 DEF ExportInv, ReaderInv, MapInit
    <2>3. MapInv
      BY <2>1 DEF ExportInv, ReaderInv
    <2>4. MapInv'
      BY <1>5, <2>3, ReadMapInv
    <2>5. status' \notin {"badPool", "noMap"}
      BY <2>4 DEF MapInv, TypeOK, Statuses
    <2>6. /\ ReadPool(pool.disk).ok /\ MapFile # NoFile /\ file = MapFile
          /\ poolBins = ReadPool(pool.disk).bins /\ lines = ReadPool(pool.disk).lines
      BY <2>1, <2>2 DEF ExportInv, ReaderInv
    <2>7. ReaderInv'
      BY <1>1, <1>3, <2>1, <2>2, <2>4, <2>5, <2>6 DEF ReaderInv
    <2> QED BY <1>2, <2>7 DEF ExportInv
  <1> QED BY <1>4, <1>5

\* The invariant of an export and of the run that reads its files, for all
\* pools, maps and sizes of the buffers.
THEOREM ExportInvariance == Spec => []ExportInv
  <1>1. Init => ExportInv
    BY ExportInit
  <1>2. ExportInv /\ [Next]_vars => ExportInv'
    <2> SUFFICES ASSUME ExportInv, [Next]_vars PROVE ExportInv'
      OBVIOUS
    <2>1. CASE Writing
      BY <2>1, WritingInv
    <2>2. CASE PoolRefused \/ MapMissing
      BY <2>2, RefusingInv
    <2>3. CASE ReadBinarizedPool
      BY <2>3, OpeningInv
    <2>4. CASE ReadMap /\ UNCHANGED export
      BY <2>4, ReadingInv
    <2>5. CASE UNCHANGED vars
      BY <2>5, ReadingInv DEF vars
    <2> QED BY <2>1, <2>2, <2>3, <2>4, <2>5 DEF Next, Writing
  <1> QED BY <1>1, <1>2, PTL DEF Spec

\* A second run that accepts the map of this export has read all of it.
LEMMA AcceptedIsWritten ==
  ASSUME ExportInv, mapOpen, pool.disk >= PoolLine - 1, status = "done"
  PROVE  GotFeatures /\ lines = (pool.disk + 1) \div PoolLine
  <1>1. SizesOK /\ map.disk \in Nat /\ pool.disk \in Nat /\ map.disk <= Length(map) /\ Length(map) \in Nat
    BY StreamSteps DEF ExportInv, ExportTypeOK
  <1>2. map.disk <= MapUnits
    <2>1. MapUnits \in Nat
      <3>1. BinCount \in Nat
        BY <1>1, WrittenMap
      <3>2. BinCount \in 0 .. BinCount
        BY <3>1
      <3> QED BY <3>1, <3>2, MapBeforeIsPosition DEF MapUnits
    <2>2. Length(map) <= MapUnits
      BY DEF ExportInv, StreamsInv
    <2> QED BY <1>1, <2>1, <2>2
  <1>3. MapInv /\ pc = "read"
    BY DEF ExportInv, ReaderInv, MapInit
  <1>4. /\ ReadPool(pool.disk).ok /\ file = MapLines(map.disk)
        /\ poolBins = ReadPool(pool.disk).bins /\ lines = ReadPool(pool.disk).lines
    BY <1>3 DEF ExportInv, ReaderInv, MapFile
  <1>5. ReadPool(pool.disk).bins = BinCount /\ ReadPool(pool.disk).lines = (pool.disk + 1) \div PoolLine
    BY <1>1, <1>4, LeftOfPool
  <1>6. CompleteFor(BinCount, MapLines(map.disk))
    <2>1. Complete
      BY <1>3, AcceptedIsComplete
    <2>2. poolBins = BinCount
      BY <1>4, <1>5
    <2> QED BY <1>4, <2>1, <2>2 DEF Complete, CompleteFor
  <1>7. file = MapWritten
    BY <1>1, <1>2, <1>4, <1>6, LeftOfMap
  <1> QED BY <1>1, <1>3, <1>4, <1>5, <1>7, ReadBackFeatures

\* After a crash or failed writes, at any unit of the two files, the second run
\* reports an error or gets the bins of every feature as they were exported,
\* for every pool of one whole line or more, all sizes of the buffers and
\* every base of the numbers: a number of a bin that lost digits is never
\* taken for a bin that is missing.
THEOREM DamageIsContained == Spec => []DamageContained
  <1>1. ExportInv => DamageContained
    <2> SUFFICES ASSUME ExportInv, pool.disk >= PoolLine - 1, mapOpen \/ oldMap = NoFile
                 PROVE  /\ status # "undefined"
                        /\ status = "done" => GotFeatures /\ lines = (pool.disk + 1) \div PoolLine
      BY DEF DamageContained
    <2>1. SizesOK /\ pool.disk \in Nat /\ mapOpen \in BOOLEAN
      BY StreamSteps DEF ExportInv, ExportTypeOK
    <2>2. ASSUME status = "undefined" PROVE FALSE
      <3>1. MapInv /\ pc = "read"
        BY <2>2 DEF ExportInv, ReaderInv, MapInit
      <3>2. poolBins <= 0
        BY <2>2, <3>1 DEF MapInv, StatusInv
      <3>3. ReadPool(pool.disk).ok /\ poolBins = ReadPool(pool.disk).bins
        BY <2>2, <3>1 DEF ExportInv, ReaderInv
      <3>4. poolBins = BinCount
        BY <2>1, <3>3, LeftOfPool
      <3>5. BinCount \in Nat /\ BinCount > 0
        BY <2>1, WrittenMap
      <3> QED BY <3>2, <3>4, <3>5
    <2>3. ASSUME status = "done" PROVE mapOpen
      <3>1. pc = "read"
        BY <2>3 DEF ExportInv, ReaderInv, MapInit
      <3>2. MapFile # NoFile
        BY <2>3, <3>1 DEF ExportInv, ReaderInv
      <3> QED BY <3>2 DEF MapFile
    <2> QED BY <2>2, <2>3, AcceptedIsWritten
  <1> QED BY <1>1, ExportInvariance, PTL

\* If no write fails and the process exits, the second run accepts the two
\* files and has every line, every bin and the feature of every bin.
THEOREM ExportIsReadBack == Spec => []ExportReadBack
  <1>1. ExportInv => ExportReadBack
    <2> SUFFICES ASSUME ExportInv, mapOpen, ended = "exited", ~failed,
                        status \notin {"closed", "reading", "read"}
                 PROVE  GotFeatures /\ lines = lineCount
      BY DEF ExportReadBack
    <2>1. SizesOK /\ lineCount \in Nat \ {0}
      BY DEF ExportInv, ExportTypeOK
    <2>2. pool.disk = PoolUnits /\ map.disk = MapUnits
      BY DEF ExportInv, StreamsInv
    <2>3. /\ PoolUnits \in Nat /\ PoolUnits >= PoolLine - 1 /\ ReadPool(PoolUnits).ok
          /\ (PoolUnits + 1) \div PoolLine = lineCount
      BY <2>1, WholePool
    <2>4. BinCount \in Nat /\ BinCount > 0 /\ NamesBins(BinCount, MapWritten)
      BY <2>1, WrittenMap
    <2>5. MapUnits \in Nat /\ MapUnits <= MapUnits
      <3>1. BinCount \in 0 .. BinCount
        BY <2>4
      <3>2. MapUnits \in Nat
        BY <2>4, <3>1, MapBeforeIsPosition DEF MapUnits
      <3> QED BY <3>2
    <2>6. MapFile = MapWritten
      <3>1. MapLines(MapUnits) = MapWritten
        BY <2>1, <2>5, LeftOfMap
      <3> QED BY <2>2, <3>1 DEF MapFile
    <2>7. MapWritten # NoFile
      <3>1. 1 \in 1 .. BinCount
        BY <2>4
      <3>2. Len(MapWritten[1]) = 2
        BY <2>4, <3>1 DEF NamesBins
      <3>3. NoFile[1] = <<>> /\ Len(<<>>) = 0
        BY DEF NoFile
      <3> QED BY <3>2, <3>3
    <2>8. status \notin {"badPool", "noMap"}
      BY <2>2, <2>3, <2>6, <2>7 DEF ExportInv, ReaderInv
    <2>9. MapInv /\ pc = "read"
      BY <2>8 DEF ExportInv, ReaderInv, MapInit
    <2>10. file = MapWritten /\ poolBins = BinCount
      <3>1. file = MapFile /\ poolBins = ReadPool(pool.disk).bins /\ ReadPool(pool.disk).ok
        BY <2>8, <2>9 DEF ExportInv, ReaderInv
      <3> QED BY <2>1, <2>2, <2>3, <2>6, <3>1, LeftOfPool
    <2>11. Complete
      <3>1. CompleteFor(BinCount, MapWritten)
        BY <2>4, WrittenIsComplete
      <3> QED BY <2>4, <2>10, <3>1 DEF Complete, CompleteFor
    <2>12. status = "done"
      BY <2>9, <2>11, CompleteIsAccepted DEF Decided
    <2> QED BY <2>2, <2>3, <2>12, AcceptedIsWritten
  <1> QED BY <1>1, ExportInvariance, PTL

\* In every export and for every map beside a pool, a map is accepted exactly
\* if it names every bin of the pool once, and each bin is then in the feature
\* its line names.
THEOREM ExportedMapsAccepted == Spec => [](AcceptedIffComplete /\ BinsInTheirFeatures)
  <1>1. ExportInv => AcceptedIffComplete /\ BinsInTheirFeatures
    <2> SUFFICES ASSUME ExportInv PROVE AcceptedIffComplete /\ BinsInTheirFeatures
      OBVIOUS
    <2>1. CASE status \in {"badPool", "noMap"}
      <3>1. poolBins = 0
        BY <2>1 DEF ExportInv, ReaderInv
      <3> QED BY <2>1, <3>1 DEF AcceptedIffComplete, BinsInTheirFeatures
    <2>2. CASE status \notin {"badPool", "noMap"}
      <3>1. MapInv
        BY <2>2 DEF ExportInv, ReaderInv
      <3> QED BY <3>1, AcceptedFromMapInv, RegroupedFromMapInv
    <2> QED BY <2>1, <2>2
  <1> QED BY <1>1, ExportInvariance, PTL

=============================================================================
