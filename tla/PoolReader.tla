----------------------------- MODULE PoolReader -------------------------------
(***************************************************************************)
(* ReadPool and TBatchParser (cmicot/lib/io.cpp): the lines of a pool are  *)
(* read in batches, every batch is parsed by a thread of a queue through   *)
(* Async (library/threading/future/async.h), and the parsed batches are    *)
(* joined into columns.                                                    *)
(*                                                                         *)
(* A line is the number of its columns, or Malformed if one of its tokens  *)
(* is no number (an empty line has such a token).  A value is the number   *)
(* of its line, so that a column is a sequence of lines.  A future is      *)
(* what module OneShot says, the queue what MtpQueue shows.                *)
(***************************************************************************)
EXTENDS Integers, Sequences

CONSTANTS
  Files,           \* files: sequences of lines
  LinesInBatch,
  Workers

Malformed == 0

ASSUME PoolReaderAssumption ==
  /\ Files \subseteq Seq(Nat)
  /\ LinesInBatch \in Nat \ {0}

VARIABLES
  file, pc,        \* pc: "read", "join", "leave", "returned" or "thrown"
  position,        \* lines read
  batches,         \* first and last line of each batch
  futures,         \* its outcome: Pending, Failed or Parsed columns
  queue, job,      \* batches no thread has taken; the batch a thread parses
  joined,          \* number of batches joined
  result,
  error            \* the batch whose exception was thrown, or ReadError

reader == <<position, batches>>
pool == <<queue, job>>
vars == <<file, pc, reader, futures, pool, joined, result, error>>

Pending == [state |-> "pending", columns |-> <<>>]
Failed == [state |-> "failed", columns |-> <<>>]
Parsed(columns) == [state |-> "parsed", columns |-> columns]
NoBatch == 0
NoError == 0
ReadError == -1

Init ==
  /\ file \in Files
  /\ pc = "read" /\ position = 0
  /\ batches = <<>> /\ futures = <<>>
  /\ queue = <<>> /\ job = [w \in Workers |-> NoBatch]
  /\ joined = 0 /\ result = <<>> /\ error = NoError

-----------------------------------------------------------------------------
\* The caller

\* Up to LinesInBatch lines become a batch with a future and a job.
ReadBatch ==
  LET rest == Len(file) - position
      size == IF rest < LinesInBatch THEN rest ELSE LinesInBatch
  IN  /\ pc = "read" /\ rest > 0
      /\ batches' = Append(batches, <<position + 1, position + size>>)
      /\ futures' = Append(futures, Pending)
      /\ queue' = Append(queue, Len(batches) + 1)
      /\ position' = position + size
      /\ UNCHANGED <<file, pc, job, joined, result, error>>

EndOfFile ==
  /\ pc = "read" /\ position = Len(file)
  /\ pc' = "join"
  /\ UNCHANGED <<file, reader, futures, pool, joined, result, error>>

\* The input stream fails while jobs are in the queue.
StreamFails ==
  /\ pc = "read"
  /\ pc' = "leave" /\ error' = ReadError
  /\ UNCHANGED <<file, reader, futures, pool, joined, result>>

\* Every column of the result grows by that of the batch.
Insert(columns, data) ==
  [c \in DOMAIN data |-> (IF columns = <<>> THEN <<>> ELSE columns[c]) \o data[c]]

\* Mutant: the batch that is ready is joined, not the next one.
JoinAnyBatch ==
  /\ pc = "join" /\ joined < Len(batches)
  /\ \E k \in DOMAIN batches :
       /\ futures[k] \notin {Pending, Failed}
       /\ result = <<>> \/ Len(result) = Len(futures[k].columns)
       /\ result' = Insert(result, futures[k].columns)
  /\ joined' = joined + 1
  /\ UNCHANGED <<file, pc, reader, futures, pool, error>>

\* Wait and GetValue of the next future: its exception is thrown, the check
\* of the number of columns fails, or the batch is appended.
JoinBatch ==
  LET data == futures[joined + 1]
  IN  /\ pc = "join" /\ joined < Len(batches)
      /\ data # Pending
      /\ IF data # Failed /\ (result = <<>> \/ Len(result) = Len(data.columns))
         THEN /\ result' = Insert(result, data.columns)
              /\ joined' = joined + 1
              /\ UNCHANGED <<pc, error>>
         ELSE pc' = "leave" /\ error' = joined + 1 /\ UNCHANGED <<result, joined>>
      /\ UNCHANGED <<file, reader, futures, pool>>

AllJoined ==
  /\ pc = "join" /\ joined = Len(batches)
  /\ pc' = "leave"
  /\ UNCHANGED <<file, reader, futures, pool, joined, result, error>>

\* Mutant: the destructor waits for the queue to be empty, not for the threads.
LeaveEarly ==
  /\ pc = "leave"
  /\ queue = <<>>
  /\ pc' = IF error = NoError THEN "returned" ELSE "thrown"
  /\ UNCHANGED <<file, reader, futures, pool, joined, result, error>>

\* The destructor of the queue, on both ways out.
Leave ==
  /\ pc = "leave"
  /\ queue = <<>> /\ \A w \in Workers : job[w] = NoBatch
  /\ pc' = IF error = NoError THEN "returned" ELSE "thrown"
  /\ UNCHANGED <<file, reader, futures, pool, joined, result, error>>

Caller == ReadBatch \/ EndOfFile \/ StreamFails \/ JoinBatch \/ AllJoined \/ Leave

-----------------------------------------------------------------------------
\* A thread of the queue

Take(w) ==
  /\ job[w] = NoBatch
  /\ queue # <<>>
  /\ job' = [job EXCEPT ![w] = Head(queue)]
  /\ queue' = Tail(queue)
  /\ UNCHANGED <<file, pc, reader, futures, joined, result, error>>

\* TBatchParser::operator(): every line has a value for every column of the
\* first line of the batch, or an exception leaves the parser.
ParseBatch(first, last) ==
  LET width == file[first]
  IN  IF \E i \in first .. last : file[i] = Malformed \/ file[i] # width
      THEN Failed
      ELSE Parsed([c \in 1 .. width |-> [i \in 1 .. (last - first + 1) |-> first + i - 1]])

\* Mutant: an exception of the parser leaves the job, not the future.
ParseUncaught(w) ==
  LET outcome == ParseBatch(batches[job[w]][1], batches[job[w]][2])
  IN  /\ job[w] # NoBatch
      /\ futures' = [futures EXCEPT ![job[w]] = IF outcome = Failed THEN @ ELSE outcome]
      /\ job' = [job EXCEPT ![w] = NoBatch]
      /\ UNCHANGED <<file, pc, reader, queue, joined, result, error>>

\* NImpl::SetValue: the value or the exception of the parser becomes the
\* outcome of the future.
Parse(w) ==
  /\ job[w] # NoBatch
  /\ futures' = [futures EXCEPT ![job[w]] = ParseBatch(batches[job[w]][1], batches[job[w]][2])]
  /\ job' = [job EXCEPT ![w] = NoBatch]
  /\ UNCHANGED <<file, pc, reader, queue, joined, result, error>>

Worker(w) == Take(w) \/ Parse(w)

Next == Caller \/ \E w \in Workers : Worker(w)

Spec == Init /\ [][Next]_vars

\* Threads that can run do run.
FairSpec == Spec /\ WF_vars(Caller) /\ \A w \in Workers : WF_vars(Worker(w))

-----------------------------------------------------------------------------
(***************************************************************************)
(* Properties                                                              *)
(***************************************************************************)

Alike(lines) == \A i, j \in lines : file[i] # Malformed /\ file[i] = file[j]

\* The outcome depends on the file alone.  A pool is returned exactly if the
\* stream could be read and all its lines are numbers in the same number of
\* columns, and then its columns hold the lines in the order of the file, in
\* whatever order the batches were parsed.  Otherwise the exception is that of
\* the first batch of the file that is wrong in itself or does not fit the
\* ones before it, not that of the batch that was the first to fail.
PoolIsFile ==
  /\ pc = "returned" =>
       /\ Alike(DOMAIN file)
       /\ file # <<>> => Len(result) = file[1]
       /\ \A c \in DOMAIN result : result[c] = [i \in DOMAIN file |-> i]
  /\ pc = "thrown" /\ error # ReadError =>
       /\ Alike(1 .. (batches[error][1] - 1))
       /\ ~Alike(1 .. batches[error][2])

\* When ReadPool is left, also by an exception, every batch that was submitted
\* has been parsed: no thread is left that uses the queue.
NoJobLeft == pc \in {"returned", "thrown"} => \A k \in DOMAIN futures : futures[k] # Pending

\* ReadPool returns or throws.
ReadEnds == <>(pc \in {"returned", "thrown"})

=============================================================================
