----------------------------- MODULE BinaryPool -------------------------------
(***************************************************************************)
(* --just-binarize and a later run with --binary-pool and --map            *)
(* (cmicot/cmicot/feature_selection.cpp): two files written through        *)
(* buffered streams (util/stream/buffered.cpp), with failing writes and a  *)
(* process that may die, and what ReadBinarizedPool makes of the files     *)
(* that are left.                                                          *)
(*                                                                         *)
(* A file is a prefix of what was to be written, counted in units: a       *)
(* label, a bin, the number of a feature, a digit of the number of a bin,  *)
(* a tab and the end of a line.  Data given to the operating system        *)
(* survive the process.                                                    *)
(***************************************************************************)
EXTENDS FeatureMap, FiniteSetsExt

CONSTANTS
  FeatureSizes,    \* numbers of bins of the features of a pool: 0 where its own map had a gap
  LineCounts,      \* numbers of its lines
  OldMaps,         \* map files of earlier exports, or NoFile
  OtherMaps,       \* map files of other programs, for a pool of one of PoolSizes bins
  PoolSizes,
  BufferSizes,     \* units a stream may store
  Base             \* of the numbers in the map file

ASSUME BinaryPoolAssumption ==
  /\ \A s \in FeatureSizes : s \in Seq(Nat) /\ Len(s) > 0 /\ s[Len(s)] # 0
  /\ \A m \in OldMaps \cup OtherMaps : m \in Seq(Seq(Nat)) /\ \A i \in DOMAIN m : Len(m[i]) <= 2
  /\ LineCounts \subseteq Nat \ {0} /\ PoolSizes \subseteq Nat \ {0}
  /\ BufferSizes \subseteq Nat \ {0} /\ Base \in Nat \ {0, 1}

VARIABLES
  sizes, lineCount, oldMap, bufferSize,
  pc,              \* "pool", "map", "closePool", "ended", "read"
  pool, map,       \* streams: units stored in the buffer and units on disk
  mapOpen,         \* the new map file has replaced the old one
  failed,          \* a write has failed
  ended,           \* "exited", "aborted" or "crashed"
  lines            \* number of lines the second run has read

input == <<sizes, lineCount, oldMap, bufferSize>>
export == <<input, pc, pool, map, mapOpen, failed, ended, lines>>
vars == <<export, mapVars>>

NoFile == <<<<>>>>

BinCount == AddFeatures(sizes).binCount

\* The lines of the map that is written.
MapWritten == OutputBinFeatureMap(AddFeatures(sizes))

\* A label, a tab and a bin for every bin, an end of line.
PoolLine == 2 * BinCount + 2
PoolUnits == lineCount * PoolLine

\* Digits of a number.
Power(k) ==
  LET p[i \in 0 .. k] == IF i = 0 THEN 1 ELSE Base * p[i - 1]
  IN  p[k]

Digits(n) == Min({k \in 1 .. (n + 1) : n < Power(k)})

\* A feature, a tab, the digits of a bin, an end of line.
MapLine(b) == 3 + Digits(b)

\* The units of the lines of bins 0, 1, ..., b - 1.
MapBefore(b) ==
  LET units[i \in 0 .. b] == IF i = 0 THEN 0 ELSE units[i - 1] + MapLine(i - 1)
  IN  units[b]

MapUnits == MapBefore(BinCount)

Closed == [stored |-> 0, disk |-> 0]

\* The pool file has been opened; or there is a complete pool of somebody
\* else with a map.
Init ==
  /\ \/ /\ sizes \in FeatureSizes /\ lineCount \in LineCounts /\ oldMap \in OldMaps /\ bufferSize \in BufferSizes
        /\ pc = "pool" /\ pool = Closed /\ ended = ""
     \/ /\ \E n \in PoolSizes : sizes = <<n>>
        /\ lineCount = 1 /\ oldMap \in OtherMaps /\ bufferSize = 1
        /\ pc = "ended" /\ pool = [Closed EXCEPT !.disk = PoolUnits] /\ ended = "exited"
  /\ map = Closed /\ mapOpen = FALSE
  /\ failed = FALSE /\ lines = 0
  /\ MapInit

-----------------------------------------------------------------------------
\* TBufferedOutput

Put(stream) ==
  IF stream.stored < bufferSize THEN [stream EXCEPT !.stored = @ + 1]
  ELSE [stored |-> 1, disk |-> stream.disk + stream.stored]

Flush(stream) == [stored |-> 0, disk |-> stream.disk + stream.stored]

\* What a write of the buffer that fails may leave.
Torn(stream) == {[stored |-> 0, disk |-> stream.disk + k] : k \in 0 .. (stream.stored - 1)}

Length(stream) == stream.stored + stream.disk

-----------------------------------------------------------------------------
\* main: nobody catches an exception, std::terminate unwinds nothing.

WritePool ==
  /\ pc = "pool" /\ Length(pool) < PoolUnits
  /\ pool' = Put(pool)
  /\ UNCHANGED <<input, pc, map, mapOpen, failed, ended, lines, mapVars>>

WritePoolFails ==
  /\ pc = "pool" /\ Length(pool) < PoolUnits /\ pool.stored = bufferSize
  /\ pool' \in Torn(pool)
  /\ failed' = TRUE /\ pc' = "ended" /\ ended' = "aborted"
  /\ UNCHANGED <<input, map, mapOpen, lines, mapVars>>

\* The map file is truncated or created; the pool stays open.
OpenMap ==
  /\ pc = "pool" /\ Length(pool) = PoolUnits
  /\ mapOpen' = TRUE /\ pc' = "map"
  /\ UNCHANGED <<input, pool, map, failed, ended, lines, mapVars>>

WriteMap ==
  /\ pc = "map" /\ Length(map) < MapUnits
  /\ map' = Put(map)
  /\ UNCHANGED <<input, pc, pool, mapOpen, failed, ended, lines, mapVars>>

WriteMapFails ==
  /\ pc = "map" /\ Length(map) < MapUnits /\ map.stored = bufferSize
  /\ map' \in Torn(map)
  /\ failed' = TRUE /\ pc' = "ended" /\ ended' = "aborted"
  /\ UNCHANGED <<input, pool, mapOpen, lines, mapVars>>

\* The destructor of mapOutput runs first; it swallows the exception.
CloseMap ==
  /\ pc = "map" /\ Length(map) = MapUnits
  /\ \/ map' = Flush(map) /\ UNCHANGED failed
     \/ map' \in Torn(map) /\ failed' = TRUE
  /\ pc' = "closePool"
  /\ UNCHANGED <<input, pool, mapOpen, ended, lines, mapVars>>

\* Mutant: the destructor of the stream does not flush.
ClosePoolUnflushed ==
  /\ pc = "closePool"
  /\ pool' = [pool EXCEPT !.stored = 0]
  /\ pc' = "ended" /\ ended' = "exited"
  /\ UNCHANGED <<input, map, mapOpen, failed, lines, mapVars>>

\* Then that of poolOutput; main returns 0.
ClosePool ==
  /\ pc = "closePool"
  /\ \/ pool' = Flush(pool) /\ UNCHANGED failed
     \/ pool' \in Torn(pool) /\ failed' = TRUE
  /\ pc' = "ended" /\ ended' = "exited"
  /\ UNCHANGED <<input, map, mapOpen, lines, mapVars>>

\* The process dies; what is in the buffers is lost.
Crash ==
  /\ pc \in {"pool", "map", "closePool"}
  /\ pool' = [pool EXCEPT !.stored = 0] /\ map' = [map EXCEPT !.stored = 0]
  /\ pc' = "ended" /\ ended' = "crashed"
  /\ UNCHANGED <<input, mapOpen, failed, lines, mapVars>>

-----------------------------------------------------------------------------
\* ReadBinarizedPool

\* The pool of the first d units: the number of its lines and of its bins.
\* A line may lack its end, or end in the middle.
ReadPool(d) ==
  LET whole == d \div PoolLine
      rest  == d % PoolLine
  IN  IF rest \in {0, PoolLine - 1}
      THEN [ok |-> TRUE, lines |-> IF rest = 0 THEN whole ELSE whole + 1, bins |-> IF d = 0 THEN -1 ELSE BinCount]
      ELSE [ok |-> rest % 2 = 1 /\ whole = 0, lines |-> 1, bins |-> rest \div 2]

\* The lines of the map of the first d units; a number that is cut loses its
\* last digits, or is missing.
MapLines(d) ==
  LET whole  == Max({b \in 0 .. BinCount : MapBefore(b) <= d})
      digits == d - MapBefore(whole) - 2
      cut    == IF digits <= 0 THEN <<MapWritten[whole + 1][1]>>
                ELSE IF digits >= Digits(whole) THEN MapWritten[whole + 1]
                ELSE <<MapWritten[whole + 1][1], whole \div Power(Digits(whole) - digits)>>
  IN  [k \in 1 .. whole |-> MapWritten[k]] \o (IF d = MapBefore(whole) THEN <<>> ELSE <<cut>>)

MapFile == IF mapOpen THEN MapLines(map.disk) ELSE oldMap

PoolRefused ==
  /\ pc = "ended" /\ ~ReadPool(pool.disk).ok
  /\ pc' = "read" /\ status' = "badPool"
  /\ UNCHANGED <<input, pool, map, mapOpen, failed, ended, lines>>
  /\ UNCHANGED <<file, poolBins, lineNo, binToFeature, order, fs>>

MapMissing ==
  /\ pc = "ended" /\ ReadPool(pool.disk).ok /\ MapFile = NoFile
  /\ pc' = "read" /\ status' = "noMap"
  /\ UNCHANGED <<input, pool, map, mapOpen, failed, ended, lines>>
  /\ UNCHANGED <<file, poolBins, lineNo, binToFeature, order, fs>>

\* The pool is read, then the map.
ReadBinarizedPool ==
  LET data == ReadPool(pool.disk)
  IN  /\ pc = "ended" /\ data.ok /\ MapFile # NoFile
      /\ pc' = "read" /\ lines' = data.lines
      /\ StartReading(MapFile, data.bins)
      /\ UNCHANGED <<input, pool, map, mapOpen, failed, ended>>

Next ==
  \/ WritePool \/ WritePoolFails \/ OpenMap \/ WriteMap \/ WriteMapFails
  \/ CloseMap \/ ClosePool \/ Crash
  \/ PoolRefused \/ MapMissing \/ ReadBinarizedPool
  \/ ReadMap /\ UNCHANGED export

Spec == Init /\ [][Next]_vars

-----------------------------------------------------------------------------
(***************************************************************************)
(* Properties                                                              *)
(***************************************************************************)

\* The second run has all features, with the bins they had.
GotFeatures ==
  status = "done" /\ fs = AddFeatures(sizes) /\ order = [k \in 1 .. BinCount |-> k - 1]

\* If nothing fails the second run gets every line, every bin and the feature
\* of every bin, whatever the order the two buffers are written in.
ExportReadBack ==
  mapOpen /\ ended = "exited" /\ ~failed /\ status \notin {"closed", "reading", "read"} =>
    GotFeatures /\ lines = lineCount

\* After a crash or failed writes, wherever they hit the two files, the second
\* run reports an error or gets the bins of every feature as they were
\* exported, for the lines that are there: if the pool has one whole line and
\* the map is not still that of an earlier export.
DamageContained ==
  pool.disk >= PoolLine - 1 /\ (mapOpen \/ oldMap = NoFile) =>
    /\ status # "undefined"
    /\ status = "done" => GotFeatures /\ lines = (pool.disk + 1) \div PoolLine

=============================================================================
