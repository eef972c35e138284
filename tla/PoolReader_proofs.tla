-------------------------- MODULE PoolReader_proofs ---------------------------
(***************************************************************************)
(* ReadPool returns the lines of the file in their order or throws for the *)
(* first batch that is wrong, and leaves no batch unparsed behind, for     *)
(* every file, every size of a batch and any number of threads.            *)
(***************************************************************************)
EXTENDS PoolReader, SequenceTheorems, TLAPS

(***************************************************************************)
(* The inductive invariant.                                                *)
(***************************************************************************)

\* The last line of the first k batches, and what parsing a batch gives.
EndOf(k) == IF k = 0 THEN 0 ELSE batches[k][2]
Outcome(k) == ParseBatch(batches[k][1], batches[k][2])

Outcomes == [state : {"pending", "failed", "parsed"}, columns : Seq(Seq(Nat))]

TypeOK ==
  /\ file \in Seq(Nat)
  /\ pc \in {"read", "join", "leave", "returned", "thrown"}
  /\ position \in 0 .. Len(file)
  /\ batches \in Seq(Nat \X Nat)
  /\ futures \in Seq(Outcomes) /\ Len(futures) = Len(batches)
  /\ queue \in Seq(DOMAIN batches)
  /\ job \in [Workers -> {NoBatch} \cup DOMAIN batches]
  /\ joined \in 0 .. Len(batches)
  /\ error \in {NoError, ReadError} \cup DOMAIN batches

\* The batches cover the lines read, without a gap.
BatchInv ==
  /\ EndOf(Len(batches)) = position
  /\ \A k \in DOMAIN batches : /\ batches[k][1] = EndOf(k - 1) + 1
                               /\ batches[k][1] <= batches[k][2]
                               /\ batches[k][2] <= Len(file)

\* A future holds the outcome of its batch, unless that has not been parsed.
FutureInv ==
  \A k \in DOMAIN batches :
    \/ futures[k] = Outcome(k)
    \/ /\ futures[k] = Pending
       /\ \/ \E i \in DOMAIN queue : queue[i] = k
          \/ \E w \in Workers : job[w] = k

\* The lines joined so far are alike, and the result holds them in order.
JoinInv ==
  /\ Alike(1 .. EndOf(joined))
  /\ joined = 0 => result = <<>>
  /\ joined > 0 => result = [c \in 1 .. file[1] |-> [i \in 1 .. EndOf(joined) |-> i]]

\* An error is that of the first batch that does not fit the ones before it;
\* without an error everything was read and joined.
ErrorInv ==
  /\ pc \in {"read", "join"} => error = NoError
  /\ pc # "read" /\ error = NoError => position = Len(file)
  /\ pc \in {"leave", "returned"} /\ error = NoError => joined = Len(batches)
  /\ pc = "returned" => error = NoError
  /\ pc = "thrown" => error # NoError
  /\ error \in DOMAIN batches => Alike(1 .. EndOf(error - 1)) /\ ~Alike(1 .. EndOf(error))

\* The destructor of the queue has waited for all jobs.
LeftInv ==
  pc \in {"returned", "thrown"} => queue = <<>> /\ \A w \in Workers : job[w] = NoBatch

IInv == TypeOK /\ BatchInv /\ FutureInv /\ JoinInv /\ ErrorInv /\ LeftInv

-----------------------------------------------------------------------------
(***************************************************************************)
(* Sequences.                                                              *)
(***************************************************************************)

\* A function on 1 .. n is a sequence of length n.
LEMMA FunctionIsSequence ==
  ASSUME NEW S, NEW n \in Nat, NEW f \in [1 .. n -> S]
  PROVE  f \in Seq(S) /\ Len(f) = n
  <1>1. f \in Seq(S)
    BY SeqDef
  <1>2. Len(f) \in Nat /\ 1 .. Len(f) = 1 .. n
    BY <1>1, LenProperties
  <1> QED BY <1>1, <1>2

\* The elements of a sequence.
LEMMA Elements ==
  ASSUME NEW S, NEW s \in Seq(S)
  PROVE  /\ Len(s) \in Nat /\ DOMAIN s = 1 .. Len(s)
         /\ \A i \in DOMAIN s : s[i] \in S
  BY LenProperties

\* The lines of a batch continue those before it.
LEMMA ConcatLines ==
  ASSUME NEW m \in Nat, NEW n \in Nat
  PROVE  [i \in 1 .. m |-> i] \o [i \in 1 .. n |-> m + i] = [i \in 1 .. m + n |-> i]
  <1> DEFINE f == [i \in 1 .. m |-> i]
             g == [i \in 1 .. n |-> m + i]
             h == [i \in 1 .. m + n |-> i]
  <1>1. f \in Seq(Nat) /\ Len(f) = m
    <2>1. f \in [1 .. m -> Nat]
      OBVIOUS
    <2> QED BY <2>1, FunctionIsSequence
  <1>2. g \in Seq(Nat) /\ Len(g) = n
    <2>1. g \in [1 .. n -> Nat]
      OBVIOUS
    <2> QED BY <2>1, FunctionIsSequence
  <1>3. h \in Seq(Nat) /\ Len(h) = m + n
    <2>1. h \in [1 .. m + n -> Nat] /\ m + n \in Nat
      OBVIOUS
    <2> QED BY <2>1, FunctionIsSequence
  <1>4. /\ \A i \in 1 .. m : f[i] = i
        /\ \A i \in 1 .. n : g[i] = m + i
        /\ \A i \in 1 .. m + n : h[i] = i
    OBVIOUS
  <1> HIDE DEF f, g, h
  <1>5. /\ f \o g \in Seq(Nat) /\ Len(f \o g) = m + n
        /\ \A i \in 1 .. m + n : (f \o g)[i] = IF i <= m THEN f[i] ELSE g[i - m]
    BY <1>1, <1>2, ConcatProperties
  <1>6. \A i \in 1 .. m + n : (f \o g)[i] = h[i]
    <2> TAKE i \in 1 .. m + n
    <2>1. CASE i <= m
      <3>1. i \in 1 .. m
        BY <2>1
      <3> QED BY <1>4, <1>5, <2>1, <3>1
    <2>2. CASE ~(i <= m)
      <3>1. i - m \in 1 .. n /\ m + (i - m) = i
        BY <2>2
      <3> QED BY <1>4, <1>5, <2>2, <3>1
    <2> QED BY <2>1, <2>2
  <1>7. f \o g = h
    BY <1>3, <1>5, <1>6, SeqEqual
  <1> QED BY <1>7 DEF f, g, h

\* No lines.
LEMMA NoLines == [i \in 1 .. 0 |-> i] = <<>>
  <1>1. [i \in 1 .. 0 |-> i] \in [1 .. 0 -> Nat]
    OBVIOUS
  <1>2. [i \in 1 .. 0 |-> i] \in Seq(Nat) /\ Len([i \in 1 .. 0 |-> i]) = 0
    BY <1>1, FunctionIsSequence
  <1> QED BY <1>2, EmptySeq

(***************************************************************************)
(* Parsing.                                                                *)
(***************************************************************************)

\* The columns of a batch of lines that are alike.
ColumnsOf(first, last) ==
  [c \in 1 .. file[first] |-> [i \in 1 .. (last - first + 1) |-> first + i - 1]]

\* A batch is parsed exactly if its lines are alike.
LEMMA ParseResult ==
  ASSUME file \in Seq(Nat), NEW first \in Nat, NEW last \in Nat,
         1 <= first, first <= last, last <= Len(file)
  PROVE  /\ ParseBatch(first, last) = IF Alike(first .. last)
                                      THEN Parsed(ColumnsOf(first, last)) ELSE Failed
         /\ ParseBatch(first, last) \in Outcomes
         /\ ColumnsOf(first, last) \in Seq(Seq(Nat))
         /\ Len(ColumnsOf(first, last)) = file[first]
         /\ file[first] \in Nat
  <1> DEFINE rows == [i \in 1 .. (last - first + 1) |-> first + i - 1]
  <1>1. file[first] \in Nat /\ first \in first .. last
    OBVIOUS
  <1>2. rows \in Seq(Nat)
    <2>1. last - first + 1 \in Nat /\ rows \in [1 .. (last - first + 1) -> Nat]
      OBVIOUS
    <2> QED BY <2>1, FunctionIsSequence
  <1>3. ColumnsOf(first, last) \in [1 .. file[first] -> Seq(Nat)]
    BY <1>2 DEF ColumnsOf
  <1>4. ColumnsOf(first, last) \in Seq(Seq(Nat)) /\ Len(ColumnsOf(first, last)) = file[first]
    BY <1>1, <1>3, FunctionIsSequence
  <1>5. (\E i \in first .. last : file[i] = Malformed \/ file[i] # file[first]) <=> ~Alike(first .. last)
    BY <1>1 DEF Alike
  <1>6. ParseBatch(first, last) = IF Alike(first .. last)
                                  THEN Parsed(ColumnsOf(first, last)) ELSE Failed
    BY <1>5 DEF ParseBatch, ColumnsOf
  <1>7. <<>> \in Seq(Seq(Nat))
    OBVIOUS
  <1> QED BY <1>1, <1>4, <1>6, <1>7 DEF Parsed, Failed, Outcomes

\* What a future holds after it was set.
LEMMA OutcomeResult ==
  ASSUME IInv, NEW k \in DOMAIN batches
  PROVE  LET first == batches[k][1]  last == batches[k][2]
         IN  /\ first \in Nat /\ last \in Nat /\ 1 <= first /\ first <= last /\ last <= Len(file)
             /\ first = EndOf(k - 1) + 1 /\ last = EndOf(k) /\ EndOf(k - 1) \in Nat
             /\ Outcome(k) = IF Alike(first .. last) THEN Parsed(ColumnsOf(first, last)) ELSE Failed
             /\ Outcome(k) \in Outcomes /\ Outcome(k) # Pending
             /\ Len(ColumnsOf(first, last)) = file[first] /\ file[first] \in Nat
  <1> DEFINE first == batches[k][1]
             last == batches[k][2]
  <1>1. k \in Nat \ {0} /\ (k # 1 => k - 1 \in DOMAIN batches)
    BY DEF IInv, TypeOK
  <1>2. \A j \in DOMAIN batches : batches[j][1] \in Nat /\ batches[j][2] \in Nat
    <2>1. batches \in Seq(Nat \X Nat)
      BY DEF IInv, TypeOK
    <2>2. \A j \in DOMAIN batches : batches[j] \in Nat \X Nat
      BY <2>1, Elements
    <2> QED BY <2>2
  <1>3. first = EndOf(k - 1) + 1 /\ last = EndOf(k) /\ EndOf(k - 1) \in Nat
    BY <1>1, <1>2 DEF IInv, BatchInv, EndOf
  <1>4. first \in Nat /\ last \in Nat /\ 1 <= first /\ first <= last /\ last <= Len(file)
    BY <1>2, <1>3 DEF IInv, BatchInv
  <1>5. /\ Outcome(k) = IF Alike(first .. last) THEN Parsed(ColumnsOf(first, last)) ELSE Failed
        /\ Outcome(k) \in Outcomes
        /\ Len(ColumnsOf(first, last)) = file[first] /\ file[first] \in Nat
    BY <1>4, ParseResult DEF Outcome, IInv, TypeOK
  <1>6. Outcome(k) # Pending
    BY <1>5 DEF Parsed, Failed, Pending
  <1> QED BY <1>3, <1>4, <1>5, <1>6

(***************************************************************************)
(* Steps.                                                                  *)
(***************************************************************************)

\* Once the batches are read, their outcomes stand.
LEMMA SameBatches ==
  ASSUME UNCHANGED <<file, batches>>
  PROVE  /\ \A k : EndOf(k)' = EndOf(k)
         /\ \A k : Outcome(k)' = Outcome(k)
         /\ \A lines : Alike(lines)' = Alike(lines)
  BY DEF EndOf, Outcome, ParseBatch, Alike

\* The invariant holds initially.
LEMMA Initially ==
  ASSUME Init
  PROVE  IInv
  <1>1. file \in Seq(Nat) /\ Len(file) \in Nat
    BY PoolReaderAssumption DEF Init
  <1>2. TypeOK
    BY <1>1 DEF Init, TypeOK
  <1>3. BatchInv /\ FutureInv /\ JoinInv /\ ErrorInv /\ LeftInv
    BY <1>1 DEF Init, BatchInv, FutureInv, JoinInv, ErrorInv, LeftInv, EndOf, Alike
  <1> QED BY <1>2, <1>3 DEF IInv

\* What a new batch leaves of the ones before it.
LEMMA ReadBatchInv ==
  ASSUME IInv, ReadBatch
  PROVE  IInv'
  <1> DEFINE rest == Len(file) - position
             size == IF rest < LinesInBatch THEN rest ELSE LinesInBatch
  <1>0. PICK n \in Nat : n = Len(batches)
    BY Elements DEF IInv, TypeOK
  <1>1. /\ n \in Nat /\ Len(file) \in Nat /\ position \in Nat
        /\ size \in Nat /\ size >= 1 /\ position + size <= Len(file)
    <2>1. Len(file) \in Nat
      BY Elements DEF IInv, TypeOK
    <2>2. position \in 0 .. Len(file) /\ rest > 0
      BY DEF ReadBatch, IInv, TypeOK
    <2>3. CASE rest < LinesInBatch
      BY <2>1, <2>2, <2>3
    <2>4. CASE ~(rest < LinesInBatch)
      BY <2>1, <2>2, <2>4, PoolReaderAssumption
    <2> QED BY <2>1, <2>3, <2>4
  <1>2. /\ batches' = Append(batches, <<position + 1, position + size>>)
        /\ <<position + 1, position + size>> \in Nat \X Nat
    BY <1>1 DEF ReadBatch
  <1>3. /\ batches' \in Seq(Nat \X Nat) /\ Len(batches') = n + 1
        /\ DOMAIN batches = 1 .. n /\ DOMAIN batches' = 1 .. n + 1
        /\ \A k \in 1 .. n : batches'[k] = batches[k]
        /\ batches'[n + 1] = <<position + 1, position + size>>
    <2>1. batches \in Seq(Nat \X Nat)
      BY DEF IInv, TypeOK
    <2> HIDE DEF size
    <2> QED BY <1>0, <1>2, <2>1, AppendProperties, Elements
  <1>4. /\ futures' \in Seq(Outcomes) /\ Len(futures') = n + 1
        /\ \A k \in 1 .. n : futures'[k] = futures[k]
        /\ futures'[n + 1] = Pending
    <2>1. Pending \in Outcomes
      BY DEF Pending, Outcomes
    <2>2. futures \in Seq(Outcomes) /\ Len(futures) = n /\ futures' = Append(futures, Pending)
      BY <1>0 DEF IInv, TypeOK, ReadBatch
    <2> QED BY <2>1, <2>2, AppendProperties
  <1>5. /\ queue' \in Seq(DOMAIN batches')
        /\ Len(queue') = Len(queue) + 1 /\ Len(queue) \in Nat
        /\ \A i \in 1 .. Len(queue) : queue'[i] = queue[i]
        /\ queue'[Len(queue) + 1] = n + 1
        /\ DOMAIN queue = 1 .. Len(queue) /\ DOMAIN queue' = 1 .. Len(queue) + 1
    <2>1. queue \in Seq(1 .. n + 1) /\ n + 1 \in 1 .. n + 1
      <3>1. queue \in Seq(1 .. n)
        BY <1>3 DEF IInv, TypeOK
      <3>2. 1 .. n \subseteq 1 .. n + 1 /\ n + 1 \in 1 .. n + 1
        OBVIOUS
      <3> QED BY <3>1, <3>2, SeqMonotonic
    <2> QED BY <1>0, <1>3, <2>1, AppendProperties, LenProperties DEF ReadBatch
  <1>6. \A k \in 0 .. n : EndOf(k)' = EndOf(k)
    <2> TAKE k \in 0 .. n
    <2>1. CASE k = 0
      BY <2>1 DEF EndOf
    <2>2. CASE k # 0
      <3>1. k \in 1 .. n
        BY <1>1, <2>2
      <3> QED BY <1>3, <2>2, <3>1 DEF EndOf
    <2> QED BY <2>1, <2>2
  <1>7. \A k \in 1 .. n : Outcome(k)' = Outcome(k)
    <2> TAKE k \in 1 .. n
    <2>1. batches'[k] = batches[k] /\ file' = file
      BY <1>3 DEF ReadBatch
    <2> QED BY <2>1 DEF Outcome, ParseBatch
  <1>8. \A lines : Alike(lines)' = Alike(lines)
    BY DEF Alike, ReadBatch
  <1>9. EndOf(n + 1)' = position + size /\ EndOf(n) = position
    <2>1. n + 1 # 0
      BY <1>1
    <2>2. EndOf(n + 1)' = position + size
      BY <1>3, <2>1 DEF EndOf
    <2> QED BY <1>0, <2>2 DEF IInv, BatchInv
  <1>10. /\ file' = file /\ pc' = pc /\ job' = job /\ joined' = joined /\ result' = result
         /\ error' = error /\ position' = position + size /\ pc = "read" /\ error = NoError
    BY DEF ReadBatch, IInv, ErrorInv
  <1> HIDE DEF rest, size
  <1>11. TypeOK'
    <2>2. job \in [Workers -> {NoBatch} \cup 1 .. n + 1]
      BY <1>1, <1>3 DEF IInv, TypeOK
    <2>3. joined \in 0 .. n + 1
      BY <1>0, <1>1 DEF IInv, TypeOK
    <2> QED BY <1>1, <1>3, <1>4, <1>5, <1>10, <2>2, <2>3 DEF IInv, TypeOK
  <1>12. BatchInv'
    <2>1. ASSUME NEW k \in 1 .. n
          PROVE  /\ batches'[k][1] = EndOf(k - 1)' + 1 /\ batches'[k][1] <= batches'[k][2]
                 /\ batches'[k][2] <= Len(file)
      <3>1. k - 1 \in 0 .. n
        BY <1>1
      <3> QED BY <3>1, <1>3, <1>6 DEF IInv, BatchInv
    <2>2. /\ batches'[n + 1][1] = EndOf(n)' + 1 /\ batches'[n + 1][1] <= batches'[n + 1][2]
          /\ batches'[n + 1][2] <= Len(file)
      <3>1. EndOf(n)' = position
        BY <1>1, <1>6, <1>9
      <3> QED BY <1>1, <1>3, <3>1
    <2>3. \A k \in 1 .. n + 1 : k \in 1 .. n \/ k = n + 1
      BY <1>1
    <2>4. (n + 1) - 1 = n
      BY <1>1
    <2>5. EndOf(Len(batches))' = position'
      BY <1>3, <1>9, <1>10
    <2>6. ASSUME NEW k \in 1 .. n + 1
          PROVE  /\ batches'[k][1] = EndOf(k - 1)' + 1 /\ batches'[k][1] <= batches'[k][2]
                 /\ batches'[k][2] <= Len(file)
      BY <2>1, <2>2, <2>3, <2>4
    <2> QED BY <1>3, <1>10, <2>5, <2>6 DEF BatchInv
  <1>13. FutureInv'
    <2>1. ASSUME NEW k \in 1 .. n
          PROVE  \/ futures'[k] = Outcome(k)'
                 \/ /\ futures'[k] = Pending
                    /\ \/ \E i \in DOMAIN queue' : queue'[i] = k
                       \/ \E w \in Workers : job'[w] = k
      <3>1. futures'[k] = futures[k] /\ Outcome(k)' = Outcome(k) /\ job' = job
        BY <1>4, <1>7, <1>10
      <3>2. (\E i \in DOMAIN queue : queue[i] = k) => \E i \in DOMAIN queue' : queue'[i] = k
        BY <1>5
      <3> QED BY <1>3, <3>1, <3>2 DEF IInv, FutureInv
    <2>2. n + 1 \in DOMAIN batches' => \E i \in DOMAIN queue' : queue'[i] = n + 1
      BY <1>5
    <2>3. \A k \in 1 .. n + 1 : k \in 1 .. n \/ k = n + 1
      BY <1>1
    <2> QED BY <1>3, <1>4, <2>1, <2>2, <2>3 DEF FutureInv
  <1>14. JoinInv'
    <2>1. joined \in 0 .. n
      BY <1>0 DEF IInv, TypeOK
    <2> QED BY <2>1, <1>6, <1>8, <1>10 DEF IInv, JoinInv
  <1>15. ErrorInv'
    <2>1. error' \notin DOMAIN batches'
      BY <1>1, <1>3, <1>10 DEF NoError
    <2> QED BY <2>1, <1>10 DEF ErrorInv
  <1>16. LeftInv'
    BY <1>10 DEF LeftInv
  <1> QED BY <1>11, <1>12, <1>13, <1>14, <1>15, <1>16 DEF IInv

\* The end of the file.
LEMMA EndOfFileInv ==
  ASSUME IInv, EndOfFile
  PROVE  IInv'
  <1> USE SameBatches DEF EndOfFile, reader, pool
  <1>1. TypeOK'
    BY DEF IInv, TypeOK
  <1>2. BatchInv' /\ FutureInv'
    BY DEF IInv, BatchInv, FutureInv
  <1>3. JoinInv' /\ ErrorInv' /\ LeftInv'
    BY DEF IInv, JoinInv, ErrorInv, LeftInv
  <1> QED BY <1>1, <1>2, <1>3 DEF IInv

\* A stream that fails.
LEMMA StreamFailsInv ==
  ASSUME IInv, StreamFails
  PROVE  IInv'
  <1> USE SameBatches DEF StreamFails, reader, pool
  <1>1. TypeOK'
    BY DEF IInv, TypeOK
  <1>2. BatchInv' /\ FutureInv'
    BY DEF IInv, BatchInv, FutureInv
  <1>3. JoinInv' /\ LeftInv'
    BY DEF IInv, JoinInv, LeftInv
  <1>4. ErrorInv'
    BY DEF IInv, TypeOK, ErrorInv, ReadError, NoError
  <1> QED BY <1>1, <1>2, <1>3, <1>4 DEF IInv

\* The last batch was joined.
LEMMA AllJoinedInv ==
  ASSUME IInv, AllJoined
  PROVE  IInv'
  <1> USE SameBatches DEF AllJoined, reader, pool
  <1>1. TypeOK'
    BY DEF IInv, TypeOK
  <1>2. BatchInv' /\ FutureInv'
    BY DEF IInv, BatchInv, FutureInv
  <1>3. JoinInv' /\ ErrorInv' /\ LeftInv'
    BY DEF IInv, JoinInv, ErrorInv, LeftInv
  <1> QED BY <1>1, <1>2, <1>3 DEF IInv

\* The destructor of the queue.
LEMMA LeaveInv ==
  ASSUME IInv, Leave
  PROVE  IInv'
  <1> USE SameBatches DEF Leave, reader, pool
  <1>1. TypeOK'
    BY DEF IInv, TypeOK
  <1>2. BatchInv' /\ FutureInv'
    BY DEF IInv, BatchInv, FutureInv
  <1>3. JoinInv' /\ ErrorInv' /\ LeftInv'
    BY DEF IInv, JoinInv, ErrorInv, LeftInv
  <1> QED BY <1>1, <1>2, <1>3 DEF IInv

\* A thread takes the batch at the head of the queue.
LEMMA TakeInv ==
  ASSUME IInv, NEW w \in Workers, Take(w)
  PROVE  IInv'
  <1> USE SameBatches DEF reader
  <1>1. /\ UNCHANGED <<file, pc, reader, futures, joined, result, error>>
        /\ queue # <<>> /\ job[w] = NoBatch
        /\ job' = [job EXCEPT ![w] = Head(queue)] /\ queue' = Tail(queue)
    BY DEF Take
  <1>2. /\ queue \in Seq(DOMAIN batches) /\ queue' \in Seq(DOMAIN batches)
        /\ Len(queue) \in Nat \ {0} /\ Len(queue') = Len(queue) - 1
        /\ DOMAIN queue = 1 .. Len(queue) /\ DOMAIN queue' = 1 .. Len(queue')
        /\ \A i \in 1 .. Len(queue') : queue'[i] = queue[i + 1]
        /\ Head(queue) = queue[1] /\ queue[1] \in DOMAIN batches
    <2> DEFINE D == DOMAIN batches
    <2>1. queue \in Seq(D)
      BY DEF IInv, TypeOK
    <2> HIDE DEF D
    <2>2. /\ Len(queue) \in Nat \ {0} /\ DOMAIN queue = 1 .. Len(queue)
          /\ Head(queue) = queue[1] /\ queue[1] \in D
      BY <1>1, <2>1, EmptySeq, Elements
    <2>3. /\ queue' \in Seq(D) /\ Len(queue') = Len(queue) - 1
          /\ DOMAIN queue' = 1 .. Len(queue')
          /\ \A i \in 1 .. Len(queue') : queue'[i] = queue[i + 1]
      BY <1>1, <2>1, HeadTailProperties, Elements
    <2> QED BY <2>1, <2>2, <2>3 DEF D
  <1>3. /\ job \in [Workers -> {NoBatch} \cup DOMAIN batches]
        /\ job' \in [Workers -> {NoBatch} \cup DOMAIN batches]
        /\ job'[w] = queue[1] /\ \A v \in Workers : v # w => job'[v] = job[v]
    BY <1>1, <1>2 DEF IInv, TypeOK
  <1>4. TypeOK'
    BY <1>1, <1>2, <1>3 DEF IInv, TypeOK
  <1>5. BatchInv'
    BY <1>1 DEF IInv, BatchInv
  <1>6. FutureInv'
    <2> SUFFICES ASSUME NEW k \in DOMAIN batches, futures[k] # Outcome(k)
                 PROVE  \/ \E i \in DOMAIN queue' : queue'[i] = k
                        \/ \E v \in Workers : job'[v] = k
      BY <1>1 DEF IInv, FutureInv
    <2>1. CASE \E i \in DOMAIN queue : queue[i] = k
      <3>1. PICK i \in 1 .. Len(queue) : queue[i] = k
        BY <1>2, <2>1
      <3>2. CASE i = 1
        BY <1>3, <3>1, <3>2
      <3>3. CASE i # 1
        <4>1. PICK h \in 1 .. Len(queue') : i = h + 1
          <5>1. i - 1 \in 1 .. Len(queue') /\ i = (i - 1) + 1
            BY <1>2, <3>3
          <5> QED BY <5>1
        <4> QED BY <1>2, <3>1, <4>1
      <3> QED BY <3>2, <3>3
    <2>2. CASE \E v \in Workers : job[v] = k
      <3>1. k # NoBatch
        BY DEF IInv, TypeOK, NoBatch
      <3> QED BY <1>1, <1>3, <2>2, <3>1
    <2> QED BY <2>1, <2>2 DEF IInv, FutureInv
  <1>7. JoinInv' /\ ErrorInv'
    BY <1>1 DEF IInv, JoinInv, ErrorInv
  <1>8. LeftInv'
    BY <1>1 DEF IInv, LeftInv
  <1> QED BY <1>4, <1>5, <1>6, <1>7, <1>8 DEF IInv

\* A thread sets the future of its batch.
LEMMA ParseInv ==
  ASSUME IInv, NEW w \in Workers, Parse(w)
  PROVE  IInv'
  <1> USE SameBatches DEF reader
  <1>1. /\ UNCHANGED <<file, pc, reader, queue, joined, result, error>>
        /\ job[w] # NoBatch
        /\ futures' = [futures EXCEPT ![job[w]] = Outcome(job[w])]
        /\ job' = [job EXCEPT ![w] = NoBatch]
    BY DEF Parse, Outcome
  <1>2. job[w] \in DOMAIN batches /\ DOMAIN batches = 1 .. Len(batches)
    BY <1>1 DEF IInv, TypeOK
  <1>3. Outcome(job[w]) \in Outcomes
    BY <1>2, OutcomeResult
  <1>4. /\ futures' \in Seq(Outcomes) /\ Len(futures') = Len(batches)
        /\ futures'[job[w]] = Outcome(job[w])
        /\ \A k \in DOMAIN batches : k # job[w] => futures'[k] = futures[k]
    BY <1>1, <1>2, <1>3, ExceptSeq DEF IInv, TypeOK
  <1>5. /\ job' \in [Workers -> {NoBatch} \cup DOMAIN batches]
        /\ job'[w] = NoBatch /\ \A v \in Workers : v # w => job'[v] = job[v]
    BY <1>1 DEF IInv, TypeOK
  <1>6. TypeOK'
    BY <1>1, <1>4, <1>5 DEF IInv, TypeOK
  <1>7. BatchInv'
    BY <1>1 DEF IInv, BatchInv
  <1>8. FutureInv'
    <2> SUFFICES ASSUME NEW k \in DOMAIN batches, futures'[k] # Outcome(k)
                 PROVE  /\ futures'[k] = Pending
                        /\ \/ \E i \in DOMAIN queue : queue[i] = k
                           \/ \E v \in Workers : job'[v] = k
      BY <1>1 DEF FutureInv
    <2>1. k # job[w] /\ futures'[k] = futures[k]
      BY <1>4
    <2>2. \/ \E i \in DOMAIN queue : queue[i] = k
          \/ \E v \in Workers : job[v] = k
      BY <2>1 DEF IInv, FutureInv
    <2>3. futures[k] = Pending
      BY <2>1 DEF IInv, FutureInv
    <2> QED BY <1>5, <2>1, <2>2, <2>3
  <1>9. JoinInv' /\ ErrorInv'
    BY <1>1 DEF IInv, JoinInv, ErrorInv
  <1>10. LeftInv'
    BY <1>1 DEF IInv, LeftInv
  <1> QED BY <1>6, <1>7, <1>8, <1>9, <1>10 DEF IInv

\* The next future is awaited: its batch is appended, or its error thrown.
LEMMA JoinBatchInv ==
  ASSUME IInv, JoinBatch
  PROVE  IInv'
  <1> USE SameBatches DEF reader, pool
  <1> DEFINE k == joined + 1
             first == batches[k][1]
             last == batches[k][2]
             data == futures[k]
  <1>1. /\ UNCHANGED <<file, reader, futures, pool>>
        /\ pc = "join" /\ data # Pending /\ joined < Len(batches)
        /\ IF data # Failed /\ (result = <<>> \/ Len(result) = Len(data.columns))
           THEN /\ result' = Insert(result, data.columns)
                /\ joined' = joined + 1
                /\ UNCHANGED <<pc, error>>
           ELSE pc' = "leave" /\ error' = joined + 1 /\ UNCHANGED <<result, joined>>
    BY DEF JoinBatch
  <1>2. /\ joined \in Nat /\ k \in DOMAIN batches /\ k \in Nat \ {0} /\ k - 1 = joined
        /\ DOMAIN batches = 1 .. Len(batches) /\ Len(batches) \in Nat
        /\ joined \in 0 .. Len(batches)
    <2>1. joined \in 0 .. Len(batches) /\ batches \in Seq(Nat \X Nat)
      BY DEF IInv, TypeOK
    <2>2. Len(batches) \in Nat /\ DOMAIN batches = 1 .. Len(batches)
      BY <2>1, LenProperties
    <2>3. joined < Len(batches)
      BY <1>1
    <2> HIDE DEF data, first, last
    <2> QED BY <2>1, <2>2, <2>3
  <1>3. /\ first \in Nat /\ last \in Nat /\ 1 <= first /\ first <= last /\ last <= Len(file)
        /\ first = EndOf(joined) + 1 /\ last = EndOf(k) /\ EndOf(joined) \in Nat
        /\ Outcome(k) = IF Alike(first .. last) THEN Parsed(ColumnsOf(first, last)) ELSE Failed
        /\ Len(ColumnsOf(first, last)) = file[first] /\ file[first] \in Nat
    BY <1>2, OutcomeResult
  <1>4. data = Outcome(k)
    BY <1>1, <1>2 DEF IInv, FutureInv
  <1> HIDE DEF k, first, last, data
  <1>5. joined = 0 => result = <<>> /\ first = 1
    BY <1>3 DEF IInv, JoinInv, EndOf
  <1>6. joined > 0 => /\ result = [c \in 1 .. file[1] |-> [i \in 1 .. EndOf(joined) |-> i]]
                      /\ 1 <= EndOf(joined)
                      /\ file[1] \in Nat \ {0}
                      /\ Len(result) = file[1] /\ result # <<>>
    <2> SUFFICES ASSUME joined > 0
                 PROVE  /\ result = [c \in 1 .. file[1] |-> [i \in 1 .. EndOf(joined) |-> i]]
                        /\ 1 <= EndOf(joined)
                        /\ file[1] \in Nat \ {0}
                        /\ Len(result) = file[1] /\ result # <<>>
      OBVIOUS
    <2>1. joined \in DOMAIN batches
      BY <1>2
    <2>2. 1 <= EndOf(joined) /\ EndOf(joined) <= Len(file) /\ EndOf(joined) \in Nat
      BY <2>1, OutcomeResult
    <2>3. file[1] \in Nat /\ 1 \in 1 .. EndOf(joined)
      <3>1. file \in Seq(Nat)
        BY DEF IInv, TypeOK
      <3>2. 1 \in 1 .. EndOf(joined) /\ 1 \in 1 .. Len(file)
        BY <2>2, <3>1, LenProperties
      <3> QED BY <3>1, <3>2, Elements
    <2>4. file[1] # Malformed
      BY <2>3 DEF IInv, JoinInv, Alike
    <2>5. result = [c \in 1 .. file[1] |-> [i \in 1 .. EndOf(joined) |-> i]]
      BY DEF IInv, JoinInv
    <2>6. [i \in 1 .. EndOf(joined) |-> i] \in Seq(Nat)
      <3>1. [i \in 1 .. EndOf(joined) |-> i] \in [1 .. EndOf(joined) -> Nat]
        OBVIOUS
      <3> QED BY <2>2, <3>1, FunctionIsSequence
    <2>7. result \in [1 .. file[1] -> Seq(Nat)]
      BY <2>5, <2>6
    <2>8. result \in Seq(Seq(Nat)) /\ Len(result) = file[1]
      BY <2>3, <2>7, FunctionIsSequence
    <2> QED BY <2>2, <2>3, <2>4, <2>5, <2>8, EmptySeq DEF Malformed
  <1>7. Alike(first .. last) <=> data # Failed
    BY <1>3, <1>4 DEF Parsed, Failed
  <1>8. Alike(1 .. last) <=> Alike(first .. last) /\ (joined > 0 => file[1] = file[first])
    <2>1. first \in first .. last /\ 1 \in 1 .. last
      BY <1>3
    <2>2. \A i \in 1 .. last : i \in 1 .. EndOf(joined) \/ i \in first .. last
      BY <1>3
    <2>3. first .. last \subseteq 1 .. last
      BY <1>3
    <2>4. Alike(1 .. EndOf(joined)) /\ (joined > 0 => 1 \in 1 .. EndOf(joined))
      BY <1>3, <1>6 DEF IInv, JoinInv
    <2>5. CASE joined = 0
      BY <1>2, <1>5, <2>5
    <2>6. CASE joined > 0
      BY <2>1, <2>2, <2>3, <2>4, <2>6 DEF Alike
    <2> QED BY <1>2, <2>5, <2>6
  <1>9. CASE Alike(1 .. last)
    <2> DEFINE m == EndOf(joined)
               n == last - first + 1
    <2>1. data = Parsed(ColumnsOf(first, last)) /\ data # Failed
      BY <1>3, <1>4, <1>7, <1>8, <1>9
    <2>2. data.columns = ColumnsOf(first, last)
      BY <2>1 DEF Parsed
    <2>3. result = <<>> \/ Len(result) = Len(data.columns)
      BY <1>2, <1>3, <1>5, <1>6, <1>8, <1>9, <2>2
    <2>4. /\ result' = Insert(result, ColumnsOf(first, last)) /\ joined' = k
          /\ pc' = pc /\ error' = error
      BY <1>1, <2>1, <2>2, <2>3 DEF k
    <2>5. m \in Nat /\ n \in Nat /\ m + n = last /\ last = EndOf(k)
      BY <1>3
    <2>6. file[1] = file[first]
      BY <1>2, <1>5, <1>8, <1>9
    <2>7. [i \in 1 .. n |-> first + i - 1] = [i \in 1 .. n |-> m + i]
      BY <1>3, <2>5
    <2>8. \A c \in 1 .. file[first] : ColumnsOf(first, last)[c] = [i \in 1 .. n |-> m + i]
      BY <2>7 DEF ColumnsOf
    <2>9. DOMAIN ColumnsOf(first, last) = 1 .. file[first]
      BY DEF ColumnsOf
    <2>10. \A c \in 1 .. file[first] :
             (IF result = <<>> THEN <<>> ELSE result[c]) = [i \in 1 .. m |-> i]
      <3>1. CASE joined = 0
        <4>1. m = 0
          BY <3>1 DEF EndOf
        <4> QED BY <1>5, <3>1, <4>1, NoLines
      <3>2. CASE joined > 0
        BY <1>6, <2>6, <3>2
      <3> QED BY <1>2, <3>1, <3>2
    <2> HIDE DEF m, n
    <2>11. \A c \in 1 .. file[first] :
             (IF result = <<>> THEN <<>> ELSE result[c]) \o ColumnsOf(first, last)[c]
               = [i \in 1 .. last |-> i]
      BY <2>5, <2>8, <2>10, ConcatLines
    <2>12. result' = [c \in 1 .. file[1] |-> [i \in 1 .. EndOf(k) |-> i]]
      BY <2>4, <2>5, <2>6, <2>9, <2>11 DEF Insert
    <2>13. TypeOK'
      BY <1>1, <1>2, <2>4 DEF IInv, TypeOK
    <2>14. BatchInv' /\ FutureInv'
      BY <1>1 DEF IInv, BatchInv, FutureInv
    <2>15. JoinInv'
      BY <1>1, <1>2, <1>9, <2>4, <2>5, <2>12 DEF JoinInv
    <2>16. ErrorInv' /\ LeftInv'
      BY <1>1, <2>4 DEF IInv, ErrorInv, LeftInv
    <2> QED BY <2>13, <2>14, <2>15, <2>16 DEF IInv
  <1>10. CASE ~Alike(1 .. last)
    <2>1. ~(data # Failed /\ (result = <<>> \/ Len(result) = Len(data.columns)))
      <3> SUFFICES ASSUME Alike(first .. last)
                   PROVE  result # <<>> /\ Len(result) # Len(data.columns)
        BY <1>7
      <3>1. joined > 0 /\ file[1] # file[first]
        BY <1>2, <1>8, <1>10
      <3>2. data.columns = ColumnsOf(first, last)
        BY <1>3, <1>4 DEF Parsed
      <3> QED BY <1>3, <1>6, <3>1, <3>2
    <2>2. pc' = "leave" /\ error' = k /\ UNCHANGED <<result, joined>>
      BY <1>1, <2>1 DEF k
    <2>3. TypeOK'
      BY <1>1, <1>2, <2>2 DEF IInv, TypeOK
    <2>4. BatchInv' /\ FutureInv'
      BY <1>1 DEF IInv, BatchInv, FutureInv
    <2>5. JoinInv' /\ LeftInv'
      BY <1>1, <2>2 DEF IInv, JoinInv, LeftInv
    <2>6. Alike(1 .. EndOf(k - 1)) /\ ~Alike(1 .. EndOf(k))
      BY <1>2, <1>3, <1>10 DEF IInv, JoinInv
    <2>7. ErrorInv'
      BY <1>1, <1>2, <2>2, <2>6 DEF ErrorInv, NoError
    <2> QED BY <2>3, <2>4, <2>5, <2>7 DEF IInv
  <1> QED BY <1>9, <1>10

\* A step that changes nothing.
LEMMA Stuttering ==
  ASSUME IInv, UNCHANGED vars
  PROVE  IInv'
  <1> USE SameBatches DEF vars, reader, pool
  <1>1. TypeOK'
    BY DEF IInv, TypeOK
  <1>2. BatchInv' /\ FutureInv'
    BY DEF IInv, BatchInv, FutureInv
  <1>3. JoinInv' /\ ErrorInv' /\ LeftInv'
    BY DEF IInv, JoinInv, ErrorInv, LeftInv
  <1> QED BY <1>1, <1>2, <1>3 DEF IInv

-----------------------------------------------------------------------------
(***************************************************************************)
(* Theorems.                                                               *)
(***************************************************************************)

\* The invariant holds in every behaviour of ReadPool and its parsers.
THEOREM Invariance == Spec => []IInv
  <1>1. Init => IInv
    BY Initially
  <1>2. IInv /\ [Next]_vars => IInv'
    <2> SUFFICES ASSUME IInv, [Next]_vars
                 PROVE  IInv'
      OBVIOUS
    <2>1. CASE Caller
      BY <2>1, ReadBatchInv, EndOfFileInv, StreamFailsInv, JoinBatchInv, AllJoinedInv, LeaveInv
      DEF Caller
    <2>2. CASE \E w \in Workers : Worker(w)
      BY <2>2, TakeInv, ParseInv DEF Worker
    <2>3. CASE UNCHANGED vars
      BY <2>3, Stuttering
    <2> QED BY <2>1, <2>2, <2>3 DEF Next
  <1> QED BY <1>1, <1>2, PTL DEF Spec

\* ReadPool returns exactly the file, or throws what the first wrong batch
\* threw: the outcome does not depend on the order in which the threads parse
\* the batches, for every file and every size of a batch.
THEOREM PoolIsTheFile == Spec => []PoolIsFile
  <1>1. IInv => PoolIsFile
    <2> SUFFICES ASSUME IInv
                 PROVE  PoolIsFile
      OBVIOUS
    <2>1. ASSUME pc = "returned"
          PROVE  /\ Alike(DOMAIN file)
                 /\ file # <<>> => Len(result) = file[1]
                 /\ \A c \in DOMAIN result : result[c] = [i \in DOMAIN file |-> i]
      <3>1. joined = Len(batches) /\ position = Len(file)
        BY <2>1 DEF IInv, ErrorInv
      <3>2. EndOf(joined) = Len(file)
        BY <3>1 DEF IInv, BatchInv
      <3>3. Len(file) \in Nat /\ DOMAIN file = 1 .. Len(file) /\ joined \in Nat
        BY Elements DEF IInv, TypeOK
      <3>4. Alike(DOMAIN file)
        BY <3>2, <3>3 DEF IInv, JoinInv
      <3>5. CASE joined = 0
        <4>1. Len(file) = 0 /\ result = <<>>
          BY <3>2, <3>5 DEF IInv, JoinInv, EndOf
        <4>2. file = <<>>
          BY <4>1, EmptySeq DEF IInv, TypeOK
        <4> QED BY <3>4, <4>1, <4>2
      <3>6. CASE joined > 0
        <4>1. result = [c \in 1 .. file[1] |-> [i \in 1 .. Len(file) |-> i]]
          BY <3>2, <3>6 DEF IInv, JoinInv
        <4>2. joined \in DOMAIN batches
          BY <3>1, <3>3, <3>6 DEF IInv, TypeOK
        <4>3. 1 <= Len(file)
          BY <3>2, <4>2, OutcomeResult
        <4>4. file[1] \in Nat
          BY <3>3, <4>3, Elements DEF IInv, TypeOK
        <4>5. [i \in 1 .. Len(file) |-> i] \in Seq(Nat)
          <5>1. [i \in 1 .. Len(file) |-> i] \in [1 .. Len(file) -> Nat]
            OBVIOUS
          <5> QED BY <3>3, <5>1, FunctionIsSequence
        <4>6. result \in [1 .. file[1] -> Seq(Nat)]
          BY <4>1, <4>5
        <4>7. Len(result) = file[1]
          BY <4>4, <4>6, FunctionIsSequence
        <4>8. \A c \in DOMAIN result : result[c] = [i \in DOMAIN file |-> i]
          BY <3>3, <4>1
        <4> QED BY <3>4, <4>7, <4>8
      <3> QED BY <3>3, <3>5, <3>6
    <2>2. ASSUME pc = "thrown", error # ReadError
          PROVE  /\ Alike(1 .. (batches[error][1] - 1))
                 /\ ~Alike(1 .. batches[error][2])
      <3>1. error \in DOMAIN batches
        BY <2>2 DEF IInv, TypeOK, ErrorInv
      <3>2. /\ batches[error][1] = EndOf(error - 1) + 1 /\ EndOf(error - 1) \in Nat
            /\ batches[error][2] = EndOf(error)
        BY <3>1, OutcomeResult
      <3>3. batches[error][1] - 1 = EndOf(error - 1)
        BY <3>2
      <3> QED BY <3>1, <3>2, <3>3 DEF IInv, ErrorInv
    <2> QED BY <2>1, <2>2 DEF PoolIsFile
  <1> QED BY <1>1, Invariance, PTL

\* However ReadPool is left, no batch is unparsed: no thread still works on
\* the queue and the futures that the call owns.
THEOREM NoJobIsLeft == Spec => []NoJobLeft
  <1>1. IInv => NoJobLeft
    <2> SUFFICES ASSUME IInv, pc \in {"returned", "thrown"}, NEW k \in DOMAIN futures
                 PROVE  futures[k] # Pending
      BY DEF NoJobLeft
    <2>1. k \in DOMAIN batches /\ k # NoBatch
      BY DEF IInv, TypeOK, NoBatch
    <2>2. queue = <<>> /\ \A w \in Workers : job[w] = NoBatch
      BY DEF IInv, LeftInv
    <2>3. futures[k] = Outcome(k)
      BY <2>1, <2>2 DEF IInv, FutureInv
    <2> QED BY <2>1, <2>3, OutcomeResult
  <1> QED BY <1>1, Invariance, PTL

=============================================================================
