-------------------------- MODULE Selection_proofs ----------------------------
(***************************************************************************)
(* The threads of FastFeatureSelection do not disturb each other: every    *)
(* slot of the cache is private to one of them, the background stands      *)
(* still while they read it, and every slot goes through exactly the steps *)
(* of module CachingBinScorer, for every feature set, pool, number of      *)
(* steps, number of features and set of threads.  What they leave in a     *)
(* slot is what the scorer without a cache computes.                       *)
(***************************************************************************)
EXTENDS FeatureScore, FiniteSetTheorems, SequenceTheorems, TLAPS

(***************************************************************************)
(* The inductive invariant.                                                *)
(***************************************************************************)
TypeOK ==
  /\ phase \in {"start", "round", "submit", "pick", "end"}
  /\ disabledBins \in Seq(Bins) /\ submitted \in 0 .. Len(disabledBins)
  /\ queue \in Seq(Bins) /\ job \in [Workers -> Bins \cup {NoBin}]

\* No bin is twice in a round, and there are jobs only during a round.
RoundInv ==
  /\ \A i, j \in DOMAIN disabledBins : i # j => disabledBins[i] # disabledBins[j]
  /\ phase # "submit" => queue = <<>> /\ \A w \in Workers : job[w] = NoBin

\* The jobs are for bins that were submitted.
Submitted(b) == \E h \in 1 .. submitted : disabledBins[h] = b

JobInv ==
  /\ \A i \in DOMAIN queue : Submitted(queue[i])
  /\ \A w \in Workers : job[w] # NoBin => Submitted(job[w])

QueueInv == TypeOK /\ RoundInv /\ JobInv /\ SlotsPrivate

(***************************************************************************)
(* What the refinement of CachingBinScorer needs beyond that.              *)
(***************************************************************************)

\* The background holds the features of the ranking, none of which is empty.
RankingInv ==
  /\ pool \in Pools
  /\ ranking \in Seq(AllFeatureIndexes(FeatureSet))
  /\ enabled \subseteq Bins /\ last \subseteq Bins
  /\ \A b \in Bins : b \in enabled <=> \E i \in DOMAIN ranking : b \in FeatureBins(ranking[i])
  /\ phase # "start" => ranking # <<>> /\ FeatureBins(ranking[1]) # {}
  /\ phase = "start" => /\ ranking = <<>>
                        /\ slots = [b \in Bins |-> EmptySlot] /\ calls = [b \in Bins |-> NoCall]

\* A round is about all bins that are not enabled.
DisabledInv ==
  /\ phase \in {"submit", "pick"} =>
       \A b \in Bins : b \notin enabled <=> \E h \in DOMAIN disabledBins : disabledBins[h] = b
  /\ phase = "pick" => submitted = Len(disabledBins)

\* A bin that was submitted is waiting, being evaluated or done.
DoneInv ==
  phase \in {"submit", "pick"} =>
    \A h \in 1 .. submitted :
      \/ \E i \in DOMAIN queue : queue[i] = disabledBins[h]
      \/ \E w \in Workers : job[w] = disabledBins[h]
      \/ calls[disabledBins[h]].pc = "done"

\* A slot is used in the first round.
UsedInv ==
  \A b \in Bins \ enabled :
    calls[b].pc # "idle" \/ Len(ranking) > 1 => DOMAIN slots[b].min # {}

\* The steps a vector may hold: if there is no bin, the value is a sentinel.
MaxResults == {r \in StepResults : r.bin = -1 => r.cmi = -1}
MinResults == {r \in StepResults : r.bin = -1 => r.cmi >= ResetValue}

\* A slot and the frame of the call that works on it.
FrameOK(s, c) ==
  /\ DOMAIN s = {"max", "min", "score"}
  /\ DOMAIN c = {"pc", "stepCount", "step", "background", "toProcess", "second", "condition"}
  /\ c.pc \in {"idle", "max", "min", "done"}
  /\ c.stepCount \in Nat /\ c.step \in Nat
  /\ c.background \subseteq Bins /\ c.toProcess \subseteq Bins
  /\ c.second \subseteq Bins /\ c.condition \subseteq Bins
  /\ s.score \in Nat
  /\ \A i \in DOMAIN s.max : s.max[i] \in MaxResults
  /\ \A i \in DOMAIN s.min : s.min[i] \in MinResults
  /\ c.pc \in {"max", "min"} => /\ DOMAIN s.max = 0 .. (c.stepCount - 2)
                                /\ DOMAIN s.min = 0 .. (c.stepCount - 1)
  /\ c.pc = "max" => \A i \in DOMAIN s.max : i < c.step => s.max[i].bin \in Bins
  /\ c.pc = "min" => \A i \in DOMAIN s.max : s.max[i].bin \in Bins

FrameInv ==
  /\ DOMAIN slots = Bins /\ DOMAIN calls = Bins
  /\ \A b \in Bins : FrameOK(slots[b], calls[b])

SelectionInv == RankingInv /\ DisabledInv /\ DoneInv /\ UsedInv /\ FrameInv

-----------------------------------------------------------------------------
(***************************************************************************)
(* The elements of a finite set of numbers in order.                       *)
(***************************************************************************)
Rank(S, x) == Cardinality({y \in S : y <= x})

\* Every rank is that of one element.
LEMMA Ranks ==
  ASSUME NEW S \in SUBSET Int, IsFiniteSet(S)
  PROVE  /\ Cardinality(S) \in Nat
         /\ \A x \in S : Rank(S, x) \in 1 .. Cardinality(S)
         /\ \A x, y \in S : Rank(S, x) = Rank(S, y) => x = y
         /\ \A i \in 1 .. Cardinality(S) : \E x \in S : Rank(S, x) = i
  <1> DEFINE below(x) == {y \in S : y <= x}
             n == Cardinality(S)
             rank == [x \in S |-> Rank(S, x)]
  <1>1. n \in Nat
    BY FS_CardinalityType
  <1>2. \A x \in S : below(x) \in SUBSET S /\ IsFiniteSet(below(x)) /\ Cardinality(below(x)) \in Nat
    BY FS_Subset, FS_CardinalityType
  <1>3. \A x \in S : Cardinality(below(x)) \in 1 .. n
    <2> SUFFICES ASSUME NEW x \in S
                 PROVE  Cardinality(below(x)) \in 1 .. n
      OBVIOUS
    <2>1. x \in below(x)
      OBVIOUS
    <2>2. Cardinality(below(x)) # 0
      BY <1>2, <2>1, FS_EmptySet
    <2>3. Cardinality(below(x)) <= n
      BY <1>2, FS_Subset
    <2> QED BY <1>1, <1>2, <2>2, <2>3
  <1>4. ASSUME NEW x \in S, NEW y \in S, x < y
        PROVE  Cardinality(below(x)) # Cardinality(below(y))
    <2>0. x \in Int /\ y \in Int /\ S \subseteq Int
      OBVIOUS
    <2>1. below(x) \in SUBSET below(y) /\ y \in below(y) /\ y \notin below(x)
      <3>1. \A u \in Int : u <= x => u <= y
        BY <1>4, <2>0
      <3>2. ~(y <= x) /\ y <= y
        BY <1>4, <2>0
      <3> QED BY <2>0, <3>1, <3>2
    <2> HIDE DEF below
    <2> QED BY <1>2, <2>1, FS_Subset
  <1>5. \A x, y \in S : Cardinality(below(x)) = Cardinality(below(y)) => x = y
    <2> SUFFICES ASSUME NEW x \in S, NEW y \in S, x # y
                 PROVE  Cardinality(below(x)) # Cardinality(below(y))
      OBVIOUS
    <2>1. x < y \/ y < x
      OBVIOUS
    <2> QED BY <1>4, <2>1
  <1>6. \A x \in S : rank[x] = Cardinality(below(x))
    BY DEF Rank
  <1> HIDE DEF below
  <1>7. rank \in [S -> 1 .. n]
    BY <1>3, <1>6
  <1>8. rank \in Injection(S, 1 .. n)
    BY <1>5, <1>6, <1>7 DEF Injection, IsInjective
  <1>9. IsFiniteSet(1 .. n) /\ Cardinality(1 .. n) = n
    BY <1>1, FS_Interval
  <1>10. rank \in Surjection(S, 1 .. n)
    BY <1>8, <1>9, FS_Injection
  <1>11. \A i \in 1 .. n : \E x \in S : rank[x] = i
    BY <1>10 DEF Surjection
  <1> QED BY <1>1, <1>3, <1>5, <1>6, <1>11

\* Ascending enumerates a set without repetition.
LEMMA AscendingEnumerates ==
  ASSUME NEW S \in SUBSET Int, IsFiniteSet(S)
  PROVE  /\ Ascending(S) \in Seq(S) /\ Len(Ascending(S)) = Cardinality(S)
         /\ DOMAIN Ascending(S) = 1 .. Cardinality(S)
         /\ \A i, j \in DOMAIN Ascending(S) : i # j => Ascending(S)[i] # Ascending(S)[j]
         /\ \A x \in S : \E i \in DOMAIN Ascending(S) : Ascending(S)[i] = x
  <1> DEFINE n == Cardinality(S)
             a == Ascending(S)
  <1>1. n \in Nat /\ \A x \in S : Rank(S, x) \in 1 .. n
    BY Ranks
  <1>2. a = [i \in 1 .. n |-> CHOOSE x \in S : Rank(S, x) = i]
    BY DEF Ascending, Rank
  <1>3. \A i \in 1 .. n : a[i] \in S /\ Rank(S, a[i]) = i
    <2> SUFFICES ASSUME NEW i \in 1 .. n
                 PROVE  a[i] \in S /\ Rank(S, a[i]) = i
      OBVIOUS
    <2>1. \E x \in S : Rank(S, x) = i
      BY Ranks
    <2> QED BY <1>2, <2>1
  <1>4. a \in [1 .. n -> S]
    BY <1>2, <1>3
  <1> HIDE DEF a, n
  <1>5. a \in Seq(S) /\ Len(a) = n /\ DOMAIN a = 1 .. n
    <2>1. a \in Seq(S)
      BY <1>1, <1>4, SeqDef
    <2> QED BY <1>1, <1>4, <2>1, LenProperties
  <1>6. \A i, j \in 1 .. n : i # j => a[i] # a[j]
    BY <1>3
  <1>7. \A x \in S : \E i \in 1 .. n : a[i] = x
    <2> SUFFICES ASSUME NEW x \in S
                 PROVE  a[Rank(S, x)] = x
      BY <1>1
    <2>1. Rank(S, a[Rank(S, x)]) = Rank(S, x) /\ a[Rank(S, x)] \in S
      BY <1>1, <1>3
    <2>2. \A u, v \in S : Rank(S, u) = Rank(S, v) => u = v
      BY Ranks
    <2> QED BY <2>1, <2>2
  <1> QED BY <1>5, <1>6, <1>7 DEF a, n

\* A finite set of numbers has a smallest and a largest element.
LEMMA Extremes ==
  ASSUME NEW S \in SUBSET Int, IsFiniteSet(S), S # {}
  PROVE  /\ \E x \in S : \A y \in S : x <= y
         /\ \E x \in S : \A y \in S : y <= x
  <1> DEFINE n == Cardinality(S)
             below(x) == {y \in S : y <= x}
  <1>1. n \in Nat /\ n # 0
    BY FS_CardinalityType, FS_EmptySet
  <1>2. PICK x \in S : Rank(S, x) = 1
    BY <1>1, Ranks
  <1>3. PICK z \in S : Rank(S, z) = n
    BY <1>1, Ranks
  <1>4. \A y \in S : x <= y
    <2>1. IsFiniteSet(below(x)) /\ Cardinality(below(x)) = 1
      BY <1>2, FS_Subset DEF Rank
    <2>2. \E u : below(x) = {u}
      BY <2>1, FS_Singleton
    <2>3. x \in below(x)
      OBVIOUS
    <2>4. below(x) = {x}
      BY <2>2, <2>3
    <2> QED BY <2>4
  <1>5. \A y \in S : y <= z
    <2>1. below(z) \in SUBSET S /\ Cardinality(below(z)) = Cardinality(S)
      BY <1>3 DEF Rank
    <2>2. below(z) = S
      BY <2>1, FS_Subset
    <2> QED BY <2>2
  <1> QED BY <1>4, <1>5

\* ExtremeElementBy finds a position.
LEMMA FirstMaximumIsPosition ==
  ASSUME NEW n \in Nat \ {0}, NEW values \in [1 .. n -> Int]
  PROVE  FirstMaximum(values) \in 1 .. n
  <1> DEFINE V == {values[i] : i \in 1 .. n}
             First(i) == \A j \in 1 .. n : values[j] < values[i] \/ (values[j] = values[i] /\ i <= j)
  <1>1. IsFiniteSet(1 .. n)
    BY FS_Interval
  <1>2. values \in Surjection(1 .. n, V)
    BY DEF Surjection
  <1>3. V \in SUBSET Int /\ IsFiniteSet(V) /\ V # {}
    <2>1. IsFiniteSet(V)
      BY <1>1, <1>2, FS_Surjection
    <2>2. values[1] \in V
      OBVIOUS
    <2> QED BY <2>1, <2>2
  <1>4. PICK m \in V : \A v \in V : v <= m
    BY <1>3, Extremes
  <1> DEFINE P == {i \in 1 .. n : values[i] = m}
  <1>5. P \in SUBSET Int /\ IsFiniteSet(P) /\ P # {}
    <2>1. P \in SUBSET (1 .. n)
      OBVIOUS
    <2>2. IsFiniteSet(P)
      BY <1>1, <2>1, FS_Subset
    <2> QED BY <1>4, <2>2
  <1>6. PICK i \in P : \A j \in P : i <= j
    BY <1>5, Extremes
  <1>7. i \in 1 .. n /\ First(i)
    <2>1. \A j \in 1 .. n : values[j] \in V /\ values[j] \in Int
      OBVIOUS
    <2>2. m \in Int /\ values[i] = m /\ i \in 1 .. n
      BY <1>3, <1>6
    <2>3. ASSUME NEW j \in 1 .. n
          PROVE  values[j] < m \/ (values[j] = m /\ i <= j)
      <3>1. values[j] <= m /\ values[j] \in Int
        BY <1>4, <2>1
      <3>2. values[j] = m => j \in P
        OBVIOUS
      <3> HIDE DEF P, V
      <3> QED BY <1>6, <2>2, <3>1, <3>2
    <2> QED BY <2>2, <2>3
  <1>8. FirstMaximum(values) = CHOOSE k \in 1 .. n : First(k)
    BY DEF FirstMaximum
  <1> QED BY <1>7, <1>8

-----------------------------------------------------------------------------
(***************************************************************************)
(* Jobs and threads.                                                       *)
(***************************************************************************)
jobs == <<disabledBins, submitted, queue, job>>

\* A set of bins is a finite set of numbers.
LEMMA BinsFinite ==
  ASSUME NEW S \in SUBSET Bins
  PROVE  S \in SUBSET Nat /\ S \in SUBSET Int /\ IsFiniteSet(S) /\ NoBin \notin S
  <1>1. FeatureSet.binCount \in Nat /\ FeatureSet.binCount - 1 \in Int
    BY FeatureSetAssumption
  <1>2. Bins = 0 .. (FeatureSet.binCount - 1)
    BY DEF Bins, AllBinIndexes
  <1>3. IsFiniteSet(Bins)
    BY <1>1, <1>2, FS_Interval
  <1>4. IsFiniteSet(S)
    BY <1>3, FS_Subset
  <1> QED BY <1>1, <1>2, <1>4 DEF NoBin

\* A step that leaves the jobs alone and neither begins nor ends the phase in
\* which there are jobs.
LEMMA SameJobs ==
  ASSUME QueueInv, UNCHANGED jobs, phase' \in {"start", "round", "submit", "pick", "end"},
         phase' # "submit" => queue = <<>> /\ \A w \in Workers : job[w] = NoBin
  PROVE  QueueInv'
  <1>1. TypeOK'
    BY DEF QueueInv, TypeOK, jobs
  <1>2. RoundInv'
    BY DEF QueueInv, RoundInv, jobs
  <1>3. JobInv'
    BY DEF QueueInv, JobInv, Submitted, jobs
  <1>4. SlotsPrivate'
    BY DEF QueueInv, SlotsPrivate, jobs
  <1> QED BY <1>1, <1>2, <1>3, <1>4 DEF QueueInv

\* The steps inside Evaluate are about slots and frames only.
CallStep(w) ==
  \/ Begin(w)
  \/ \E b \in Bins : MaxStep(w, b)
  \/ StartMin(w)
  \/ \E b \in Bins : MinStep(w, b)

\* Such a step leaves the pool, the main thread, the queue and the jobs alone.
LEMMA CallStepLeaves ==
  ASSUME NEW w \in Workers, CallStep(w)
  PROVE  UNCHANGED <<pool, bg, main, queue, job>>
  BY DEF CallStep, Begin, MaxStep, StartMin, MinStep, Step

\* A round begins without jobs.
LEMMA BeginRoundJobs ==
  ASSUME QueueInv, BeginRound
  PROVE  QueueInv'
  <1> DEFINE fresh == Bins \ enabled
  <1>1. /\ disabledBins' = Ascending(fresh) /\ submitted' = 0 /\ phase' = "submit"
        /\ queue' = queue /\ job' = job
        /\ queue = <<>> /\ \A w \in Workers : job[w] = NoBin
    BY DEF BeginRound, DisabledBinIndexes, Background, Bins, QueueInv, RoundInv
  <1>2. fresh \in SUBSET Int /\ IsFiniteSet(fresh)
    BY BinsFinite
  <1>3. /\ disabledBins' \in Seq(fresh) /\ Len(disabledBins') \in Nat
        /\ \A i, j \in DOMAIN disabledBins' : i # j => disabledBins'[i] # disabledBins'[j]
    <2> HIDE DEF fresh
    <2> QED BY <1>1, <1>2, AscendingEnumerates, LenProperties
  <1>4. disabledBins' \in Seq(Bins)
    BY <1>3, SeqMonotonic
  <1>5. TypeOK'
    BY <1>1, <1>3, <1>4 DEF QueueInv, TypeOK
  <1>6. RoundInv'
    BY <1>1, <1>3 DEF RoundInv
  <1>7. JobInv' /\ SlotsPrivate'
    BY <1>1 DEF JobInv, SlotsPrivate
  <1> QED BY <1>5, <1>6, <1>7 DEF QueueInv

\* The bin that is submitted is in no job yet.
LEMMA SubmitJobs ==
  ASSUME QueueInv, Submit
  PROVE  QueueInv'
  <1>1. PICK new : new = disabledBins[submitted + 1]
    OBVIOUS
  <1>2. /\ UNCHANGED <<phase, disabledBins, job>> /\ phase = "submit"
        /\ queue' = Append(queue, new) /\ submitted' = submitted + 1
        /\ submitted < Len(disabledBins)
    BY <1>1 DEF Submit
  <1>3. /\ disabledBins \in Seq(Bins) /\ Len(disabledBins) \in Nat
        /\ DOMAIN disabledBins = 1 .. Len(disabledBins)
        /\ submitted \in Nat /\ submitted + 1 \in 1 .. Len(disabledBins)
    BY <1>2, LenProperties DEF QueueInv, TypeOK
  <1>4. new \in Bins
    BY <1>1, <1>3, ElementOfSeq
  <1>5. \A b : Submitted(b) => b # new
    BY <1>1, <1>3 DEF QueueInv, RoundInv, Submitted
  <1>6. \A b : Submitted(b) => Submitted(b)'
    BY <1>2, <1>3 DEF Submitted
  <1>7. Submitted(new)'
    <2>1. submitted + 1 \in 1 .. submitted'
      BY <1>2, <1>3
    <2> QED BY <1>1, <1>2, <2>1 DEF Submitted
  <1>8. queue \in Seq(Bins) /\ Len(queue) \in Nat /\ DOMAIN queue = 1 .. Len(queue)
    BY LenProperties DEF QueueInv, TypeOK
  <1>9. /\ queue' \in Seq(Bins)
        /\ DOMAIN queue' = 1 .. Len(queue) + 1
        /\ \A i \in 1 .. Len(queue) : queue'[i] = queue[i]
        /\ queue'[Len(queue) + 1] = new
    BY <1>2, <1>4, <1>8, AppendProperties, LenProperties
  <1>10. \A i \in DOMAIN queue' : (i \in DOMAIN queue /\ queue'[i] = queue[i])
                                  \/ (i = Len(queue) + 1 /\ queue'[i] = new)
    BY <1>8, <1>9
  <1>11. TypeOK'
    BY <1>2, <1>3, <1>9 DEF QueueInv, TypeOK
  <1>12. RoundInv'
    BY <1>2 DEF QueueInv, RoundInv
  <1>13. JobInv'
    <2>1. \A b : Submitted(b)' <=> \E h \in 1 .. submitted' : disabledBins'[h] = b
      BY DEF Submitted
    <2>2. \A i \in DOMAIN queue' : \E h \in 1 .. submitted' : disabledBins'[h] = queue'[i]
      BY <1>6, <1>7, <1>10, <2>1 DEF QueueInv, JobInv
    <2>3. \A w \in Workers : job[w] # NoBin => \E h \in 1 .. submitted' : disabledBins'[h] = job[w]
      BY <1>6, <2>1 DEF QueueInv, JobInv
    <2> QED BY <1>2, <2>2, <2>3 DEF JobInv, Submitted
  <1>14. SlotsPrivate'
    <2>1. \A w \in Workers : job[w] # new
      BY <1>4, <1>5, BinsFinite DEF QueueInv, JobInv
    <2>2. \A i \in DOMAIN queue : queue[i] # new
      BY <1>5 DEF QueueInv, JobInv
    <2>3. \A w \in Workers, i \in DOMAIN queue' : queue'[i] # job[w]
      BY <1>10, <2>1 DEF QueueInv, SlotsPrivate
    <2>4. \A i, j \in DOMAIN queue' : i # j => queue'[i] # queue'[j]
      BY <1>10, <2>2 DEF QueueInv, SlotsPrivate
    <2> QED BY <1>2, <2>3, <2>4 DEF QueueInv, SlotsPrivate
  <1> QED BY <1>11, <1>12, <1>13, <1>14 DEF QueueInv

\* A job leaves the queue for the one thread that takes it.
LEMMA TakeJobs ==
  ASSUME QueueInv, NEW w \in Workers, Take(w)
  PROVE  QueueInv'
  <1>1. /\ UNCHANGED <<phase, disabledBins, submitted>>
        /\ job[w] = NoBin /\ queue # <<>>
        /\ job' = [job EXCEPT ![w] = Head(queue)] /\ queue' = Tail(queue)
    BY DEF Take, main
  <1>2. queue \in Seq(Bins) /\ job \in [Workers -> Bins \cup {NoBin}]
    BY DEF QueueInv, TypeOK
  <1>3. /\ Len(queue) \in Nat \ {0} /\ DOMAIN queue = 1 .. Len(queue) /\ 1 \in DOMAIN queue
        /\ Head(queue) = queue[1] /\ queue[1] \in Bins
    BY <1>1, <1>2, EmptySeq, LenProperties, ElementOfSeq
  <1>4. /\ queue' \in Seq(Bins)
        /\ \A i \in DOMAIN queue' : i + 1 \in DOMAIN queue /\ i + 1 # 1 /\ queue'[i] = queue[i + 1]
        /\ \A i, j \in DOMAIN queue' : i # j => i + 1 # j + 1
    BY <1>1, <1>2, <1>3, HeadTailProperties, LenProperties
  <1>5. /\ job' \in [Workers -> Bins \cup {NoBin}]
        /\ job'[w] = queue[1] /\ \A v \in Workers : v # w => job'[v] = job[v]
    BY <1>1, <1>2, <1>3
  <1>6. TypeOK'
    BY <1>1, <1>4, <1>5 DEF QueueInv, TypeOK
  <1>7. RoundInv'
    BY <1>1 DEF QueueInv, RoundInv
  <1>8. \A b : Submitted(b)' = Submitted(b)
    BY <1>1 DEF Submitted
  <1>9. JobInv'
    <2>1. \A i \in DOMAIN queue' : Submitted(queue'[i])
      BY <1>4 DEF QueueInv, JobInv
    <2>2. \A v \in Workers : job'[v] # NoBin => Submitted(job'[v])
      BY <1>3, <1>5 DEF QueueInv, JobInv
    <2> QED BY <1>1, <2>1, <2>2 DEF JobInv, Submitted
  <1>10. SlotsPrivate'
    <2>1. \A u, v \in Workers : u # v /\ job'[u] # NoBin => job'[u] # job'[v]
      BY <1>3, <1>5 DEF QueueInv, SlotsPrivate
    <2>2. \A v \in Workers, i \in DOMAIN queue' : queue'[i] # job'[v]
      BY <1>3, <1>4, <1>5 DEF QueueInv, SlotsPrivate
    <2>3. \A i, j \in DOMAIN queue' : i # j => queue'[i] # queue'[j]
      BY <1>4 DEF QueueInv, SlotsPrivate
    <2> QED BY <2>1, <2>2, <2>3 DEF SlotsPrivate
  <1> QED BY <1>6, <1>7, <1>9, <1>10 DEF QueueInv

\* A thread that is done gives its job back.
LEMMA FinishJobs ==
  ASSUME QueueInv, NEW w \in Workers, Finish(w)
  PROVE  QueueInv'
  <1>1. /\ UNCHANGED <<phase, disabledBins, submitted, queue>>
        /\ job' = [job EXCEPT ![w] = NoBin]
    BY DEF Finish, Step, main
  <1>2. /\ job' \in [Workers -> Bins \cup {NoBin}]
        /\ job'[w] = NoBin /\ \A v \in Workers : v # w => job'[v] = job[v]
    BY <1>1 DEF QueueInv, TypeOK
  <1>3. TypeOK'
    BY <1>1, <1>2 DEF QueueInv, TypeOK
  <1>4. RoundInv'
    BY <1>1, <1>2 DEF QueueInv, RoundInv
  <1>5. JobInv'
    BY <1>1, <1>2 DEF QueueInv, JobInv, Submitted
  <1>6. SlotsPrivate'
    <2>1. \A i \in DOMAIN queue : queue[i] # NoBin
      <3>1. queue \in Seq(Bins) /\ \A i \in DOMAIN queue : queue[i] \in Bins
        BY LenProperties DEF QueueInv, TypeOK
      <3> QED BY <3>1, BinsFinite
    <2> QED BY <1>1, <1>2, <2>1 DEF QueueInv, SlotsPrivate
  <1> QED BY <1>3, <1>4, <1>5, <1>6 DEF QueueInv

\* Every step keeps the jobs private.
LEMMA NextJobs ==
  ASSUME QueueInv, [Next]_vars
  PROVE  QueueInv'
  <1>1. CASE SelectFirst
    BY <1>1, SameJobs DEF SelectFirst, jobs, QueueInv, RoundInv
  <1>2. CASE BeginRound
    BY <1>2, BeginRoundJobs
  <1>3. CASE Submit
    BY <1>3, SubmitJobs
  <1>4. CASE Drain
    BY <1>4, SameJobs DEF Drain, jobs
  <1>5. CASE SelectNext
    BY <1>5, SameJobs DEF SelectNext, jobs, QueueInv, RoundInv
  <1>6. CASE End
    BY <1>6, SameJobs DEF End, jobs, QueueInv, RoundInv
  <1>7. ASSUME NEW w \in Workers, Worker(w)
        PROVE  QueueInv'
    <2>1. CASE Take(w)
      BY <2>1, TakeJobs
    <2>2. CASE CallStep(w)
      BY <2>2, CallStepLeaves, SameJobs DEF jobs, main, QueueInv, RoundInv, TypeOK
    <2>3. CASE Finish(w)
      BY <2>3, FinishJobs
    <2> QED BY <1>7, <2>1, <2>2, <2>3 DEF Worker, CallStep
  <1>8. CASE UNCHANGED vars
    BY <1>8, SameJobs DEF vars, main, jobs, QueueInv, RoundInv, TypeOK
  <1> QED BY <1>1, <1>2, <1>3, <1>4, <1>5, <1>6, <1>7, <1>8 DEF Next, Main

\* At the start there is no job.
LEMMA InitJobs ==
  ASSUME Init
  PROVE  QueueInv
  <1>1. <<>> \in Seq(Bins) /\ Len(<<>>) = 0
    BY EmptySeq
  <1>2. TypeOK /\ RoundInv
    BY <1>1 DEF Init, TypeOK, RoundInv
  <1>3. JobInv /\ SlotsPrivate
    BY DEF Init, JobInv, SlotsPrivate
  <1> QED BY <1>2, <1>3 DEF QueueInv

\* The jobs of the threads are always private.
THEOREM QueueInvariance == Spec => []QueueInv
  <1>1. Init => QueueInv
    BY InitJobs
  <1>2. QueueInv /\ [Next]_vars => QueueInv'
    BY NextJobs
  <1> QED BY <1>1, <1>2, PTL DEF Spec

\* No two threads are inside Evaluate for the same bin: the cache needs no lock.
THEOREM SlotsArePrivate == Spec => []SlotsPrivate
  <1>1. QueueInv => SlotsPrivate
    BY DEF QueueInv
  <1> QED BY <1>1, QueueInvariance, PTL

\* The background changes only while no thread has a job: it needs no lock.
THEOREM BackgroundIsStable == Spec => BackgroundStable
  <1>1. QueueInv /\ [Next]_vars =>
          [enabled' # enabled \/ last' # last =>
             queue = <<>> /\ \A w \in Workers : job[w] = NoBin]_vars
    <2> SUFFICES ASSUME QueueInv, [Next]_vars, enabled' # enabled \/ last' # last
                 PROVE  queue = <<>> /\ \A w \in Workers : job[w] = NoBin
      OBVIOUS
    <2>1. CASE SelectFirst \/ SelectNext
      BY <2>1 DEF SelectFirst, SelectNext, QueueInv, RoundInv
    <2>2. CASE BeginRound \/ Submit \/ Drain \/ End \/ UNCHANGED vars
      BY <2>2 DEF BeginRound, Submit, Drain, End, vars, bg
    <2>3. ASSUME NEW w \in Workers, Worker(w)
          PROVE  FALSE
      <3>1. UNCHANGED bg
        BY <2>3, CallStepLeaves DEF Worker, CallStep, Take, Finish, Step
      <3> QED BY <3>1 DEF bg
    <2> QED BY <2>1, <2>2, <2>3 DEF Next, Main
  <1> QED BY <1>1, QueueInvariance, PTL DEF Spec, BackgroundStable

-----------------------------------------------------------------------------
(***************************************************************************)
(* Features.                                                               *)
(***************************************************************************)

\* The vector FeatureStart.
LEMMA FeatureStart ==
  /\ FeatureSet.binCount \in Nat \ {0}
  /\ Len(FeatureSet.start) \in Nat \ {0}
  /\ DOMAIN FeatureSet.start = 1 .. Len(FeatureSet.start)
  /\ \A i \in 1 .. Len(FeatureSet.start) : FeatureSet.start[i] \in 0 .. FeatureSet.binCount
  /\ \A i, j \in 1 .. Len(FeatureSet.start) : i <= j => FeatureSet.start[i] <= FeatureSet.start[j]
  /\ FeatureSet.start[1] = 0
  /\ AllFeatureIndexes(FeatureSet) = 0 .. (Len(FeatureSet.start) - 1)
  /\ Bins = 0 .. (FeatureSet.binCount - 1)
  <1> DEFINE start == FeatureSet.start
             n == FeatureSet.binCount
  <1>1. n \in Nat \ {0} /\ start \in Seq(0 .. n) /\ start # <<>> /\ start[1] = 0
    BY FeatureSetAssumption
  <1>2. \A i, j \in DOMAIN start : i <= j => start[i] <= start[j]
    BY FeatureSetAssumption
  <1>3. AllFeatureIndexes(FeatureSet) = 0 .. (Len(start) - 1) /\ Bins = 0 .. (n - 1)
    BY DEF AllFeatureIndexes, GetFeatureCount, Bins, AllBinIndexes
  <1> HIDE DEF start, n
  <1>4. Len(start) \in Nat \ {0} /\ DOMAIN start = 1 .. Len(start)
    BY <1>1, EmptySeq, LenProperties
  <1>5. \A i \in 1 .. Len(start) : start[i] \in 0 .. n
    BY <1>1, ElementOfSeq
  <1> QED BY <1>1, <1>2, <1>3, <1>4, <1>5 DEF start, n

\* The bins of a feature lie between its start and the next one.
LEMMA FeatureRange ==
  ASSUME NEW f \in AllFeatureIndexes(FeatureSet)
  PROVE  /\ f \in Nat /\ f + 1 \in 1 .. Len(FeatureSet.start)
         /\ FeatureBins(f) \subseteq Bins
         /\ \A b \in Bins : b \in FeatureBins(f) <=>
              /\ FeatureSet.start[f + 1] <= b
              /\ f + 2 \in 1 .. Len(FeatureSet.start) => b < FeatureSet.start[f + 2]
  <1> DEFINE start == FeatureSet.start
             n == FeatureSet.binCount
             end == IF f < Len(start) - 1 THEN start[f + 2] ELSE n
  <1>1. /\ n \in Nat \ {0} /\ Len(start) \in Nat \ {0} /\ f \in 0 .. (Len(start) - 1)
        /\ \A i \in 1 .. Len(start) : start[i] \in 0 .. n
        /\ Bins = 0 .. (n - 1)
    BY FeatureStart
  <1>2. FeatureBins(f) = start[f + 1] .. (end - 1)
    BY DEF FeatureBins, GetFeatureBinIndexes, GetFeatureCount
  <1> HIDE DEF start, n, end
  <1>3. f \in Nat /\ f + 1 \in 1 .. Len(start) /\ start[f + 1] \in 0 .. n
    BY <1>1
  <1>4. CASE f + 2 \in 1 .. Len(start)
    <2>1. end = start[f + 2] /\ end \in 0 .. n
      BY <1>1, <1>4 DEF end
    <2>2. FeatureBins(f) \subseteq Bins
      BY <1>1, <1>2, <1>3, <2>1
    <2>3. \A b \in Bins : b \in FeatureBins(f) <=> start[f + 1] <= b /\ b < start[f + 2]
      BY <1>1, <1>2, <1>3, <2>1
    <2> QED BY <1>3, <1>4, <2>2, <2>3 DEF start
  <1>5. CASE f + 2 \notin 1 .. Len(start)
    <2>1. end = n
      BY <1>1, <1>5 DEF end
    <2> QED BY <1>1, <1>2, <1>3, <1>5, <2>1 DEF start
  <1> QED BY <1>4, <1>5

\* GetFeatureIndexByBinIndex finds the feature of a bin.
LEMMA FeatureOfBin ==
  ASSUME NEW b \in Bins
  PROVE  /\ GetFeatureIndexByBinIndex(FeatureSet, b) \in AllFeatureIndexes(FeatureSet)
         /\ b \in FeatureBins(GetFeatureIndexByBinIndex(FeatureSet, b))
  <1> DEFINE start == FeatureSet.start
             n == Len(start)
             T == {i \in DOMAIN start : \A j \in 1 .. i : start[j] < b + 1}
             c == Cardinality(T)
  <1>1. /\ n \in Nat \ {0} /\ DOMAIN start = 1 .. n /\ start[1] = 0 /\ b \in Nat
        /\ \A i \in 1 .. n : start[i] \in Nat
        /\ \A i, j \in 1 .. n : i <= j => start[i] <= start[j]
        /\ AllFeatureIndexes(FeatureSet) = 0 .. (n - 1)
    BY FeatureStart
  <1>2. GetFeatureIndexByBinIndex(FeatureSet, b) = c - 1
    BY DEF GetFeatureIndexByBinIndex, LowerBound
  <1> HIDE DEF start, n
  <1>3. \A i \in 1 .. n : i \in T <=> start[i] <= b
    <2> SUFFICES ASSUME NEW i \in 1 .. n
                 PROVE  i \in T <=> start[i] <= b
      OBVIOUS
    <2>1. ASSUME start[i] <= b, NEW j \in 1 .. i
          PROVE  start[j] < b + 1
      <3>1. j \in 1 .. n /\ j <= i
        BY <1>1
      <3>2. start[j] <= start[i] /\ start[j] \in Nat /\ start[i] \in Nat
        BY <1>1, <3>1
      <3> QED BY <1>1, <2>1, <3>2
    <2>2. (\A j \in 1 .. i : start[j] < b + 1) => start[i] <= b
      <3>1. i \in 1 .. i /\ start[i] \in Nat
        BY <1>1
      <3> QED BY <1>1, <3>1
    <2> QED BY <1>1, <2>1, <2>2
  <1>4. T \in SUBSET (1 .. n) /\ IsFiniteSet(T) /\ c \in Nat /\ c <= n
    <2>1. IsFiniteSet(1 .. n) /\ Cardinality(1 .. n) = n
      BY <1>1, FS_Interval
    <2>2. T \in SUBSET (1 .. n)
      BY <1>1
    <2> QED BY <2>1, <2>2, FS_Subset, FS_CardinalityType
  <1>5. T \subseteq 1 .. c
    <2> SUFFICES ASSUME NEW i \in T
                 PROVE  i <= c
      BY <1>1, <1>4
    <2>1. i \in 1 .. n /\ start[i] <= b
      BY <1>3, <1>4
    <2>2. 1 .. i \in SUBSET T
      <3> SUFFICES ASSUME NEW j \in 1 .. i
                   PROVE  j \in T
        OBVIOUS
      <3>1. j \in 1 .. n /\ start[j] <= start[i] /\ start[j] \in Nat /\ start[i] \in Nat
        BY <1>1, <2>1
      <3>2. start[j] <= b
        BY <1>1, <2>1, <3>1
      <3> QED BY <1>3, <3>1, <3>2
    <2>3. Cardinality(1 .. i) = i
      BY <2>1, FS_Interval
    <2> HIDE DEF T
    <2> QED BY <1>4, <2>2, <2>3, FS_Subset
  <1>6. T = 1 .. c
    <2>1. IsFiniteSet(1 .. c) /\ Cardinality(1 .. c) = c
      BY <1>4, FS_Interval
    <2> HIDE DEF T
    <2> QED BY <1>5, <2>1, FS_Subset DEF c
  <1>7. c >= 1
    <2>1. 1 \in 1 .. n /\ start[1] <= b
      BY <1>1
    <2>2. 1 \in T
      BY <1>3, <2>1
    <2> HIDE DEF T, c
    <2> QED BY <1>4, <1>6, <2>2
  <1> HIDE DEF T, c
  <1>8. c - 1 \in AllFeatureIndexes(FeatureSet) /\ (c - 1) + 1 = c /\ (c - 1) + 2 = c + 1
    BY <1>1, <1>4, <1>7
  <1>9. start[c] <= b /\ (c + 1 \in 1 .. n => b < start[c + 1])
    <2>1. c \in T /\ c \in 1 .. n /\ c + 1 \notin T
      BY <1>4, <1>6, <1>7
    <2>2. c + 1 \in 1 .. n => ~(start[c + 1] <= b) /\ start[c + 1] \in Nat
      BY <1>1, <1>3, <2>1
    <2> QED BY <1>1, <1>3, <2>1, <2>2
  <1> QED BY <1>2, <1>8, <1>9, FeatureRange DEF start, n

\* No bin belongs to two features.
LEMMA FeaturesDisjoint ==
  ASSUME NEW f \in AllFeatureIndexes(FeatureSet), NEW g \in AllFeatureIndexes(FeatureSet),
         NEW b \in Bins, b \in FeatureBins(f), b \in FeatureBins(g)
  PROVE  f = g
  <1> DEFINE start == FeatureSet.start
             n == Len(start)
  <1>1. /\ n \in Nat \ {0} /\ b \in Nat
        /\ \A i \in 1 .. n : start[i] \in Nat
        /\ \A i, j \in 1 .. n : i <= j => start[i] <= start[j]
        /\ AllFeatureIndexes(FeatureSet) = 0 .. (n - 1)
    BY FeatureStart
  <1>2. ASSUME NEW x \in AllFeatureIndexes(FeatureSet), NEW y \in AllFeatureIndexes(FeatureSet),
               b \in FeatureBins(x), b \in FeatureBins(y), x < y
        PROVE  FALSE
    <2>1. x + 2 \in 1 .. n /\ y + 1 \in 1 .. n /\ x + 2 <= y + 1
      BY <1>1, <1>2
    <2>2. b < start[x + 2] /\ start[y + 1] <= b
      BY <1>2, <2>1, FeatureRange
    <2>3. start[x + 2] <= start[y + 1] /\ start[x + 2] \in Nat /\ start[y + 1] \in Nat
      BY <1>1, <2>1
    <2>4. b \in Nat
      BY <1>1
    <2> HIDE DEF start, n
    <2> QED BY <2>2, <2>3, <2>4
  <1>3. f \in Nat /\ g \in Nat
    BY FeatureRange
  <1> QED BY <1>2, <1>3

-----------------------------------------------------------------------------
(***************************************************************************)
(* Slots, and what Evaluate does to one.                                   *)
(***************************************************************************)

\* The operators of CachingBinScorer are those of this module: the bins,
LEMMA SlotBins ==
  ASSUME NEW e
  PROVE  /\ Slot(e)!Bins = Bins
         /\ Slot(e)!AllFeatureIndexes(FeatureSet) = AllFeatureIndexes(FeatureSet)
         /\ \A f : Slot(e)!FeatureBins(f) = FeatureBins(f)
  <1>1. /\ Slot(e)!Bins = Bins
        /\ Slot(e)!AllFeatureIndexes(FeatureSet) = AllFeatureIndexes(FeatureSet)
    BY DEF Slot!Bins, Bins, Slot!AllBinIndexes, AllBinIndexes, Slot!AllFeatureIndexes,
           AllFeatureIndexes, Slot!GetFeatureCount, GetFeatureCount
  <1>2. \A f : Slot(e)!FeatureBins(f) = FeatureBins(f)
    BY DEF Slot!FeatureBins, FeatureBins, Slot!GetFeatureBinIndexes, GetFeatureBinIndexes,
           Slot!GetFeatureCount, GetFeatureCount
  <1> QED BY <1>1, <1>2

\* the sentinels,
LEMMA SlotSentinels ==
  ASSUME NEW e
  PROVE  /\ Slot(e)!UnsetMax = UnsetMax /\ Slot(e)!UnsetMin = UnsetMin
         /\ Slot(e)!ResetMin = ResetMin /\ Slot(e)!EmptyVector = EmptyVector
  BY DEF Slot!UnsetMax, UnsetMax, Slot!UnsetMin, UnsetMin, Slot!ResetMin, ResetMin,
         Slot!ResetValue, ResetValue, Slot!EmptyVector, EmptyVector

\* the prologue of Evaluate,
LEMMA SlotPrologue ==
  ASSUME NEW e
  PROVE  /\ \A v, n, x : Slot(e)!Resize(v, n, x) = Resize(v, n, x)
         /\ \A S, n : Slot(e)!StepCountFor(S, n) = StepCountFor(S, n)
         /\ \A S, n : Slot(e)!NotEnoughBins(S, n) <=> NotEnoughBins(S, n)
  <1>1. \A v, n, x : Slot(e)!Resize(v, n, x) = Resize(v, n, x)
    BY DEF Slot!Resize, Resize
  <1>2. \A S : Slot(e)!Cardinality(S) = Cardinality(S)
    BY DEF Slot!Cardinality, Cardinality
  <1>3. /\ \A S, n : Slot(e)!StepCountFor(S, n) = StepCountFor(S, n)
        /\ \A S, n : Slot(e)!NotEnoughBins(S, n) <=> NotEnoughBins(S, n)
    BY <1>2 DEF Slot!StepCountFor, StepCountFor, Slot!NotEnoughBins, NotEnoughBins
  <1> QED BY <1>1, <1>3

\* the choice of a bin,
LEMMA SlotElements ==
  ASSUME NEW e
  PROVE  /\ \A p, S, C, b : Slot(e)!BinValue(p, S, C, b) = BinValue(p, S, C, b)
         /\ \A p, S, C, D, b : Slot(e)!IsMaxElementBy(p, S, C, D, b) <=> IsMaxElementBy(p, S, C, D, b)
         /\ \A p, S, C, D, b : Slot(e)!IsMinElementBy(p, S, C, D, b) <=> IsMinElementBy(p, S, C, D, b)
         /\ \A D, v, k : Slot(e)!MaxCandidates(D, v, k) = MaxCandidates(D, v, k)
  <1>1. /\ \A p, S, C, b : Slot(e)!BinValue(p, S, C, b) = BinValue(p, S, C, b)
        /\ \A p, S, C, D, b : Slot(e)!IsMaxElementBy(p, S, C, D, b) <=> IsMaxElementBy(p, S, C, D, b)
        /\ \A p, S, C, D, b : Slot(e)!IsMinElementBy(p, S, C, D, b) <=> IsMinElementBy(p, S, C, D, b)
    BY DEF Slot!BinValue, BinValue, Slot!IsMaxElementBy, IsMaxElementBy,
           Slot!IsMinElementBy, IsMinElementBy
  <1>2. \A D, v, k : Slot(e)!MaxCandidates(D, v, k) = MaxCandidates(D, v, k)
    BY DEF Slot!MaxCandidates, MaxCandidates, Slot!BinsBefore, BinsBefore
  <1> QED BY <1>1, <1>2

\* and what the two loops make of it.
LEMMA SlotSteps ==
  ASSUME NEW e
  PROVE  /\ \A v, k, b, c : Slot(e)!MaxStepMax(v, k, b, c) = MaxStepMax(v, k, b, c)
         /\ \A v, u, k, c : Slot(e)!MaxStepMin(v, u, k, c) = MaxStepMin(v, u, k, c)
         /\ \A v, k, c, D, E : Slot(e)!MaxStepToProcess(v, k, c, D, E) = MaxStepToProcess(v, k, c, D, E)
         /\ \A v, k, b, c : Slot(e)!MinStepMin(v, k, b, c) = MinStepMin(v, k, b, c)
         /\ \A v, k, c, D, E, b :
              Slot(e)!MinStepToProcess(v, k, c, D, E, b) = MinStepToProcess(v, k, c, D, E, b)
         /\ \A v, k, S : Slot(e)!MinStepSecond(v, k, S) = MinStepSecond(v, k, S)
  <1>1. \A v, k, x, y : Slot(e)!StoreAndReset(v, k, x, y) = StoreAndReset(v, k, x, y)
    BY DEF Slot!StoreAndReset, StoreAndReset
  <1>2. \A v, k, y : Slot(e)!ResetAfter(v, k, y) = ResetAfter(v, k, y)
    BY DEF Slot!ResetAfter, ResetAfter
  <1>3. /\ \A v, k, b, c : Slot(e)!MaxStepMax(v, k, b, c) = MaxStepMax(v, k, b, c)
        /\ \A v, u, k, c : Slot(e)!MaxStepMin(v, u, k, c) = MaxStepMin(v, u, k, c)
        /\ \A v, k, c, D, E : Slot(e)!MaxStepToProcess(v, k, c, D, E) = MaxStepToProcess(v, k, c, D, E)
    BY <1>1, <1>2, SlotSentinels DEF Slot!MaxStepMax, MaxStepMax, Slot!MaxStepMin, MaxStepMin,
           Slot!MaxStepToProcess, MaxStepToProcess, Slot!MaxImproves, MaxImproves
  <1>4. /\ \A v, k, b, c : Slot(e)!MinStepMin(v, k, b, c) = MinStepMin(v, k, b, c)
        /\ \A v, k, c, D, E, b :
             Slot(e)!MinStepToProcess(v, k, c, D, E, b) = MinStepToProcess(v, k, c, D, E, b)
        /\ \A v, k, S : Slot(e)!MinStepSecond(v, k, S) = MinStepSecond(v, k, S)
    BY <1>1, SlotSentinels DEF Slot!MinStepMin, MinStepMin, Slot!MinStepToProcess, MinStepToProcess,
           Slot!MinImproves, MinImproves, Slot!MinStepSecond, MinStepSecond
  <1> QED BY <1>3, <1>4

\* A slot sees nothing of the steps of other threads.
LEMMA OtherSlots ==
  ASSUME NEW b, UNCHANGED <<pool, bg, ranking>>, slots'[b] = slots[b], calls'[b] = calls[b]
  PROVE  UNCHANGED Slot(b)!vars
  BY DEF Slot!vars, Slot!input, Slot!selection, Slot!slot, Slot!locals, bg

\* The vectors after a maximizing step.
LEMMA MaxVector ==
  ASSUME NEW mx, \A i \in DOMAIN mx : mx[i] \in MaxResults, DOMAIN mx \subseteq Int,
         NEW k \in DOMAIN mx, NEW b \in Bins, NEW c \in Nat
  PROVE  LET new == MaxStepMax(mx, k, b, c)
         IN  /\ DOMAIN new = DOMAIN mx
             /\ \A i \in DOMAIN mx : new[i] \in MaxResults
             /\ \A i \in DOMAIN mx : i < k => new[i] = mx[i]
             /\ new[k].bin \in Bins
  <1>1. [bin |-> b, cmi |-> c] \in MaxResults /\ UnsetMax \in MaxResults
    BY BinsFinite DEF MaxResults, StepResults, UnsetMax, NoBin
  <1>2. CASE MaxImproves(mx, k, c)
    BY <1>1, <1>2 DEF MaxStepMax, StoreAndReset
  <1>3. CASE ~MaxImproves(mx, k, c)
    <2>1. mx[k] \in StepResults /\ (mx[k].bin = -1 => mx[k].cmi = -1)
      BY DEF MaxResults
    <2>2. mx[k].bin \in Bins \cup {-1} /\ mx[k].cmi \in Int
      BY <2>1 DEF StepResults
    <2>3. mx[k].cmi # -1
      BY <1>3, <2>2 DEF MaxImproves
    <2>4. mx[k].bin \in Bins
      BY <2>1, <2>2, <2>3
    <2> QED BY <1>3, <2>4 DEF MaxStepMax
  <1> QED BY <1>2, <1>3

\* It may reset minimizing steps.
LEMMA ResetVector ==
  ASSUME NEW mx, NEW mn, NEW k, NEW c, \A i \in DOMAIN mn : mn[i] \in MinResults
  PROVE  LET new == MaxStepMin(mx, mn, k, c)
         IN  DOMAIN new = DOMAIN mn /\ \A i \in DOMAIN mn : new[i] \in MinResults
  <1>1. ResetMin \in MinResults
    BY DEF MinResults, StepResults, ResetMin, ResetValue
  <1> QED BY <1>1 DEF MaxStepMin, ResetAfter

\* The vector after a minimizing step.
LEMMA MinVector ==
  ASSUME NEW mn, \A i \in DOMAIN mn : mn[i] \in MinResults, DOMAIN mn \subseteq Int,
         NEW k \in DOMAIN mn, NEW b \in Bins, NEW c \in Nat, c < ResetValue
  PROVE  LET new == MinStepMin(mn, k, b, c)
         IN  /\ DOMAIN new = DOMAIN mn
             /\ \A i \in DOMAIN mn : new[i] \in MinResults
             /\ new[k].bin \in Bins
  <1>1. [bin |-> b, cmi |-> c] \in MinResults /\ ResetMin \in MinResults
    BY BinsFinite DEF MinResults, StepResults, ResetMin, ResetValue, NoBin
  <1>2. CASE MinImproves(mn, k, c)
    BY <1>1, <1>2 DEF MinStepMin, StoreAndReset
  <1>3. CASE ~MinImproves(mn, k, c)
    <2>1. mn[k] \in StepResults /\ (mn[k].bin = -1 => mn[k].cmi >= ResetValue)
      BY DEF MinResults
    <2>2. mn[k].bin \in Bins \cup {-1} /\ mn[k].cmi \in Int
      BY <2>1 DEF StepResults
    <2>3. ~(mn[k].cmi >= ResetValue)
      BY <1>3, <2>2 DEF MinImproves, ResetValue
    <2>4. mn[k].bin \in Bins
      BY <2>1, <2>2, <2>3
    <2> QED BY <1>3, <2>4 DEF MinStepMin
  <1> QED BY <1>2, <1>3

\* The value of a bin is a number below the sentinels.
LEMMA BinValues ==
  ASSUME NEW p \in Pools, NEW S \in SUBSET Bins, NEW C \in SUBSET Bins, NEW b \in Bins
  PROVE  /\ BinValue(p, S, C, b) \in Nat /\ BinValue(p, S, C, b) < ResetValue
         /\ Cmi(p, S, C) \in Nat
  <1>1. C \cup {b} \in SUBSET Bins
    OBVIOUS
  <1>2. \A D \in SUBSET Bins : Cmi(p, S, D) \in Nat /\ Cmi(p, S, D) < ResetValue
    BY Zenon, CmiAssumption
  <1> QED BY <1>1, <1>2 DEF BinValue

\* The bin of a job is not enabled, and its slot and frame are in order.
LEMMA JobBin ==
  ASSUME QueueInv, SelectionInv, NEW w \in Workers, job[w] # NoBin
  PROVE  /\ job[w] \in Bins /\ job[w] \notin enabled
         /\ phase = "submit"
         /\ FrameOK(slots[job[w]], calls[job[w]])
         /\ calls[job[w]].pc # "idle" => DOMAIN slots[job[w]].min # {}
  <1>1. phase = "submit" /\ job[w] \in Bins
    BY DEF QueueInv, RoundInv, TypeOK
  <1>2. PICK h \in 1 .. submitted : disabledBins[h] = job[w]
    BY DEF QueueInv, JobInv, Submitted
  <1>3. h \in DOMAIN disabledBins
    BY LenProperties DEF QueueInv, TypeOK
  <1>4. job[w] \notin enabled
    BY <1>1, <1>2, <1>3 DEF SelectionInv, DisabledInv
  <1> QED BY <1>1, <1>4 DEF SelectionInv, FrameInv, UsedInv

\* What a step of a call leaves behind: only the slot and the frame of its own
\* bin change, and they stay in order.
CallResult(w) ==
  /\ job[w] \in Bins /\ job[w] \notin enabled
  /\ UNCHANGED <<pool, bg, main, queue>>
  /\ DOMAIN slots' = Bins /\ DOMAIN calls' = Bins
  /\ \A x \in Bins : x # job[w] => slots'[x] = slots[x] /\ calls'[x] = calls[x]
  /\ FrameOK(slots'[job[w]], calls'[job[w]])
  /\ DOMAIN slots'[job[w]].min # {}

\* A step replaces the slot and the frame of its bin.
LEMMA StepResult ==
  ASSUME FrameInv, NEW w \in Workers, job[w] \in Bins, job[w] \notin enabled,
         NEW call, NEW slot, Step(w, call, slot),
         FrameOK(slot, call), DOMAIN slot.min # {}
  PROVE  CallResult(w) /\ slots'[job[w]] = slot /\ calls'[job[w]] = call
  BY DEF CallResult, Step, FrameInv

\* A slot that is used knows the number of steps of the first round.
LEMMA UsedSlot ==
  ASSUME NEW v, DOMAIN v # {}
  PROVE  v # EmptyVector
  BY DEF EmptyVector

\* A background that is not empty asks for at least one step.
LEMMA SomeSteps ==
  ASSUME NEW S \in SUBSET Bins, S # {}
  PROVE  StepCountFor(S, EvalStepCount) \in Nat \ {0}
  <1>1. Cardinality(S) \in Nat /\ Cardinality(S) # 0
    BY BinsFinite, FS_CardinalityType, FS_EmptySet
  <1> QED BY <1>1, EvalStepCountAssumption DEF StepCountFor

\* Evaluate begins.
LEMMA BeginOK ==
  ASSUME QueueInv, SelectionInv, NEW w \in Workers, Begin(w), NEW e, e = job[w]
  PROVE  CallResult(w) /\ Slot(e)!Begin
  <1> DEFINE s == slots[e]
             n == StepCountFor(enabled, EvalStepCount)
             call == [pc |-> "max", stepCount |-> n, step |-> 0, background |-> enabled \cup {e},
                      toProcess |-> last, second |-> {e}, condition |-> {}]
             slot == [s EXCEPT !.max = Resize(s.max, n - 1, UnsetMax),
                               !.min = Resize(s.min, n, UnsetMin)]
  <1>2. /\ e # NoBin /\ calls[e].pc = "idle" /\ ~NotEnoughBins(enabled \cup {e}, n)
        /\ Step(w, call, slot) /\ job' = job
    BY DEF Begin, SetBinEnabled, LastEnabled, Background
  <1>3. e \in Bins /\ e \notin enabled /\ phase = "submit" /\ FrameOK(s, calls[e])
    BY <1>2, JobBin
  <1>4. /\ enabled \in SUBSET Bins /\ enabled # {} /\ last \subseteq Bins
        /\ ranking # <<>> /\ FeatureBins(ranking[1]) # {} /\ FeatureBins(ranking[1]) \subseteq enabled
    <2>1. /\ ranking \in Seq(AllFeatureIndexes(FeatureSet)) /\ ranking # <<>>
          /\ FeatureBins(ranking[1]) # {} /\ enabled \subseteq Bins /\ last \subseteq Bins
      BY <1>3 DEF SelectionInv, RankingInv
    <2>2. 1 \in DOMAIN ranking /\ ranking[1] \in AllFeatureIndexes(FeatureSet)
      BY <2>1, EmptySeq, LenProperties, ElementOfSeq
    <2>3. FeatureBins(ranking[1]) \subseteq Bins
      BY <2>2, FeatureRange
    <2>4. FeatureBins(ranking[1]) \subseteq enabled
      BY <2>2, <2>3 DEF SelectionInv, RankingInv
    <2> QED BY <2>1, <2>4
  <1>5. n \in Nat \ {0}
    BY <1>4, SomeSteps
  <1>6. StepCountFor(FeatureBins(ranking[1]), EvalStepCount) \in Nat \ {0}
    BY <1>4, SomeSteps
  <1>7. /\ DOMAIN slot = {"max", "min", "score"}
        /\ slot.max = Resize(s.max, n - 1, UnsetMax)
        /\ slot.min = Resize(s.min, n, UnsetMin)
        /\ slot.score = s.score
    BY <1>3 DEF FrameOK
  <1> HIDE DEF n, slot, s
  <1>8. DOMAIN slot.max = 0 .. (n - 2) /\ DOMAIN slot.min = 0 .. (n - 1)
    BY <1>5, <1>7 DEF Resize
  <1>9. /\ \A i \in DOMAIN slot.max : slot.max[i] \in MaxResults
        /\ \A i \in DOMAIN slot.min : slot.min[i] \in MinResults
    <2>1. UnsetMax \in MaxResults /\ UnsetMin \in MinResults
      BY DEF MaxResults, MinResults, StepResults, UnsetMax, UnsetMin, ResetValue
    <2>2. /\ \A i \in DOMAIN s.max : s.max[i] \in MaxResults
          /\ \A i \in DOMAIN s.min : s.min[i] \in MinResults
      BY <1>3 DEF FrameOK
    <2> QED BY <1>7, <2>1, <2>2 DEF Resize
  <1>10. DOMAIN slot.min # {}
    <2>1. 0 \in 0 .. (n - 1)
      BY <1>5
    <2> QED BY <1>8, <2>1
  <1>11. FrameOK(slot, call)
    <2>1. s.score \in Nat
      BY <1>3 DEF FrameOK
    <2>2. \A i \in DOMAIN slot.max : ~(i < 0)
      <3>1. \A i \in 0 .. (n - 2) : ~(i < 0)
        BY <1>5
      <3> QED BY <1>8, <3>1
    <2> QED BY <1>3, <1>4, <1>5, <1>7, <1>8, <1>9, <2>1, <2>2 DEF FrameOK
  <1>12. CallResult(w) /\ slots'[e] = slot /\ calls'[e] = call
    BY <1>2, <1>3, <1>10, <1>11, StepResult DEF SelectionInv
  <1>13. /\ UNCHANGED <<pool, bg, main>> /\ UNCHANGED <<enabled, last, ranking>>
    BY <1>12 DEF CallResult, bg, main
  <1>14. slots'[e].min # EmptyVector
    BY <1>10, <1>12, UsedSlot
  <1>15. (IF s.min = EmptyVector THEN 0 ELSE StepCountFor(FeatureBins(ranking[1]), EvalStepCount)) = 0
           => StepCountFor(FeatureBins(ranking[1]), EvalStepCount) = n
    <2> SUFFICES ASSUME s.min = EmptyVector
                 PROVE  StepCountFor(FeatureBins(ranking[1]), EvalStepCount) = n
      BY <1>6
    <2>1. DOMAIN slots[e].min = {}
      BY DEF EmptyVector, s
    <2>2. ~(Len(ranking) > 1)
      BY <1>3, <2>1 DEF SelectionInv, UsedInv
    <2>3. DOMAIN ranking = {1}
      <3>1. ranking \in Seq(AllFeatureIndexes(FeatureSet))
        BY DEF SelectionInv, RankingInv
      <3>2. Len(ranking) \in Nat \ {0} /\ DOMAIN ranking = 1 .. Len(ranking)
        BY <1>4, <3>1, EmptySeq, LenProperties
      <3>3. Len(ranking) = 1
        BY <2>2, <3>2
      <3> QED BY <3>2, <3>3
    <2>4. enabled \subseteq FeatureBins(ranking[1])
      BY <1>4, <2>3 DEF SelectionInv, RankingInv
    <2>5. enabled = FeatureBins(ranking[1])
      BY <1>4, <2>4
    <2> QED BY <2>5 DEF n
  <1>16. Slot(e)!Begin
    <2>1. /\ calls[e].pc = "idle" /\ calls'[e].pc = "max"
          /\ calls'[e].stepCount = n /\ calls'[e].step = 0
          /\ calls'[e].background = enabled \cup {e} /\ calls'[e].toProcess = last
          /\ calls'[e].second = {e} /\ calls'[e].condition = {}
      BY <1>2, <1>12
    <2>2. /\ slots'[e].max = Resize(slots[e].max, n - 1, UnsetMax)
          /\ slots'[e].min = Resize(slots[e].min, n, UnsetMin)
          /\ slots'[e].score = slots[e].score
      BY <1>7, <1>12 DEF s
    <2>3. (IF slots'[e].min = EmptyVector THEN 0
           ELSE StepCountFor(FeatureBins(ranking'[1]), EvalStepCount))
            = StepCountFor(FeatureBins(ranking[1]), EvalStepCount)
      BY <1>13, <1>14
    <2>4. n = StepCountFor(enabled, EvalStepCount) /\ s = slots[e]
      BY DEF n, s
    <2> HIDE DEF call
    <2>5. PICK k : k = StepCountFor(FeatureBins(ranking[1]), EvalStepCount)
      OBVIOUS
    <2> DEFINE old == IF slots[e].min = EmptyVector THEN 0 ELSE k
    <2>6. k = IF old = 0 THEN n ELSE old
      BY <1>6, <1>15, <2>4, <2>5
    <2> HIDE DEF call, old
    <2>7. /\ Slot(e)!SetBinEnabled(Slot(e)!Background, e, TRUE).enabled = enabled \cup {e}
          /\ Slot(e)!LastEnabled(Slot(e)!Background).enabled = last
      BY DEF Slot!SetBinEnabled, Slot!Background, Slot!LastEnabled
    <2>8. /\ Slot(e)!StepCountFor(enabled, EvalStepCount) = n
          /\ ~Slot(e)!NotEnoughBins(enabled \cup {e}, n)
          /\ slots'[e].max = Slot(e)!Resize(slots[e].max, n - 1, Slot(e)!UnsetMax)
          /\ slots'[e].min = Slot(e)!Resize(slots[e].min, n, Slot(e)!UnsetMin)
      BY <1>2, <2>2, <2>4, SlotPrologue, SlotSentinels
    <2>9. UNCHANGED <<Slot(e)!input, Slot(e)!selection, slots[e].score>>
      BY <1>13, <2>2 DEF Slot!input, Slot!selection
    <2> QED
      BY <2>1, <2>3, <2>5, <2>6, <2>7, <2>8, <2>9 DEF Slot!Begin, old
  <1> QED BY <1>12, <1>16

\* An iteration of the maximizing loop.
LEMMA MaxStepOK ==
  ASSUME QueueInv, SelectionInv, NEW w \in Workers, NEW b \in Bins, MaxStep(w, b),
         NEW e, e = job[w]
  PROVE  CallResult(w) /\ Slot(e)!MaxStep(b)
  <1> DEFINE s == slots[e]
             c == calls[e]
             k == c.step
             v == BinValue(pool, c.second, c.condition, b)
             mx == MaxStepMax(s.max, k, b, v)
             mn == MaxStepMin(s.max, s.min, k, v)
             slot == [s EXCEPT !.max = mx, !.min = mn]
             call == [c EXCEPT !.toProcess = MaxStepToProcess(s.max, k, v, c.toProcess, c.background),
                               !.condition = c.condition \cup {slot.max[k].bin},
                               !.step = k + 1]
  <1>1. /\ e # NoBin /\ c.pc = "max" /\ k < c.stepCount - 1
        /\ IsMaxElementBy(pool, c.second, c.condition, MaxCandidates(c.toProcess, s.max, k), b)
        /\ Step(w, call, slot)
    BY DEF MaxStep
  <1>2. e \in Bins /\ e \notin enabled /\ FrameOK(s, c) /\ DOMAIN s.min # {} /\ pool \in Pools
    BY <1>1, JobBin DEF SelectionInv, RankingInv
  <1>3. /\ c.stepCount \in Nat /\ k \in Nat
        /\ DOMAIN s.max = 0 .. (c.stepCount - 2) /\ DOMAIN s.min = 0 .. (c.stepCount - 1)
        /\ c.second \in SUBSET Bins /\ c.condition \in SUBSET Bins
        /\ \A i \in DOMAIN s.max : s.max[i] \in MaxResults
        /\ \A i \in DOMAIN s.min : s.min[i] \in MinResults
        /\ \A i \in DOMAIN s.max : i < k => s.max[i].bin \in Bins
    BY <1>1, <1>2 DEF FrameOK
  <1>4. v \in Nat
    BY <1>2, <1>3, BinValues
  <1>5. k \in DOMAIN s.max /\ DOMAIN s.max \subseteq Int
    <2> HIDE DEF s, c, k
    <2> QED BY <1>1, <1>3
  <1>6. /\ DOMAIN slot = {"max", "min", "score"}
        /\ slot.max = mx /\ slot.min = mn /\ slot.score = s.score
    BY <1>2 DEF FrameOK
  <1>7. /\ DOMAIN call = DOMAIN c
        /\ call.pc = c.pc /\ call.stepCount = c.stepCount /\ call.step = k + 1
        /\ call.background = c.background /\ call.second = c.second
        /\ call.toProcess = MaxStepToProcess(s.max, k, v, c.toProcess, c.background)
        /\ call.condition = c.condition \cup {mx[k].bin}
    BY <1>2, <1>6 DEF FrameOK
  <1> HIDE DEF s, c, k, v, slot, call
  <1>8. /\ DOMAIN mx = DOMAIN s.max
        /\ \A i \in DOMAIN s.max : mx[i] \in MaxResults
        /\ \A i \in DOMAIN s.max : i < k => mx[i] = s.max[i]
        /\ mx[k].bin \in Bins
    BY <1>3, <1>4, <1>5, MaxVector
  <1>9. DOMAIN mn = DOMAIN s.min /\ \A i \in DOMAIN s.min : mn[i] \in MinResults
    BY <1>3, ResetVector
  <1> HIDE DEF mx, mn
  <1>10. FrameOK(slot, call)
    <2>1. /\ DOMAIN c = {"pc", "stepCount", "step", "background", "toProcess", "second", "condition"}
          /\ c.background \subseteq Bins /\ c.toProcess \subseteq Bins /\ s.score \in Nat
      BY <1>2 DEF FrameOK
    <2>2. call.toProcess \subseteq Bins
      BY <1>7, <2>1 DEF MaxStepToProcess
    <2>3. call.condition \subseteq Bins /\ call.second \subseteq Bins
      BY <1>3, <1>7, <1>8
    <2>4. \A i \in DOMAIN mx : i < k + 1 => mx[i].bin \in Bins
      <3> SUFFICES ASSUME NEW i \in DOMAIN mx, i < k + 1
                   PROVE  mx[i].bin \in Bins
        OBVIOUS
      <3>1. i \in Int /\ (i < k \/ i = k)
        BY <1>3, <1>5, <1>8
      <3> QED BY <1>3, <1>8, <3>1
    <2>5. call.step \in Nat /\ call.stepCount \in Nat
      BY <1>3, <1>7
    <2> QED BY <1>1, <1>3, <1>6, <1>7, <1>8, <1>9, <2>1, <2>2, <2>3, <2>4, <2>5 DEF FrameOK
  <1>11. CallResult(w) /\ slots'[e] = slot /\ calls'[e] = call
    BY <1>1, <1>2, <1>6, <1>9, <1>10, StepResult DEF SelectionInv
  <1>12. UNCHANGED <<pool, enabled, last, ranking>>
    BY <1>11 DEF CallResult, bg, main
  <1>13. Slot(e)!MaxStep(b)
    <2>1. /\ calls[e].pc = "max" /\ calls[e].step < calls[e].stepCount - 1
          /\ Slot(e)!IsMaxElementBy(pool, calls[e].second, calls[e].condition,
               Slot(e)!MaxCandidates(calls[e].toProcess, slots[e].max, calls[e].step), b)
      BY <1>1, SlotElements DEF s, c, k
    <2>2. v = Slot(e)!BinValue(pool, calls[e].second, calls[e].condition, b)
      BY SlotElements DEF v, c
    <2>3. /\ slots'[e].max = Slot(e)!MaxStepMax(slots[e].max, calls[e].step, b, v)
          /\ slots'[e].min = Slot(e)!MaxStepMin(slots[e].max, slots[e].min, calls[e].step, v)
          /\ calls'[e].toProcess = Slot(e)!MaxStepToProcess(slots[e].max, calls[e].step, v,
                                     calls[e].toProcess, calls[e].background)
      <3>1. /\ slots'[e].max = mx /\ slots'[e].min = mn
            /\ calls'[e].toProcess = MaxStepToProcess(s.max, k, v, c.toProcess, c.background)
        BY <1>6, <1>7, <1>11
      <3> QED BY <3>1, SlotSteps DEF mx, mn, s, c, k
    <2>4. /\ calls'[e].condition = calls[e].condition \cup {slots'[e].max[calls[e].step].bin}
          /\ calls'[e].step = calls[e].step + 1
          /\ UNCHANGED <<slots[e].score, calls[e].pc, calls[e].stepCount, calls[e].background,
                         calls[e].second>>
      BY <1>6, <1>7, <1>11 DEF s, c, k
    <2>5. slots'[e].min # EmptyVector /\ slots[e].min # EmptyVector
      BY <1>2, <1>6, <1>9, <1>11, UsedSlot DEF s
    <2>6. UNCHANGED <<Slot(e)!input, Slot(e)!selection>>
      BY <1>12 DEF Slot!input, Slot!selection
    <2> QED
      BY <1>12, <2>1, <2>2, <2>3, <2>4, <2>5, <2>6 DEF Slot!MaxStep
  <1> QED BY <1>11, <1>13

\* Between the loops.
LEMMA StartMinOK ==
  ASSUME QueueInv, SelectionInv, NEW w \in Workers, StartMin(w), NEW e, e = job[w]
  PROVE  CallResult(w) /\ Slot(e)!StartMin
  <1> DEFINE s == slots[e]
             c == calls[e]
             call == [c EXCEPT !.pc = "min", !.step = 0,
                               !.background = c.background \ {e}, !.toProcess = c.toProcess \ {e},
                               !.second = {e}, !.condition = {}]
  <1>1. e # NoBin /\ c.pc = "max" /\ c.step = c.stepCount - 1 /\ Step(w, call, s)
    BY DEF StartMin
  <1>2. e \in Bins /\ e \notin enabled /\ FrameOK(s, c) /\ DOMAIN s.min # {}
    BY <1>1, JobBin
  <1>3. /\ DOMAIN call = DOMAIN c
        /\ call.pc = "min" /\ call.stepCount = c.stepCount /\ call.step = 0
        /\ call.background = c.background \ {e} /\ call.toProcess = c.toProcess \ {e}
        /\ call.second = {e} /\ call.condition = {}
    BY <1>2 DEF FrameOK
  <1> HIDE DEF s, c, call
  <1>4. FrameOK(s, call)
    <2>1. c.stepCount \in Nat /\ DOMAIN s.max = 0 .. (c.stepCount - 2)
      BY <1>1, <1>2 DEF FrameOK
    <2>2. \A i \in DOMAIN s.max : i < c.step
      BY <1>1, <2>1
    <2> QED BY <1>1, <1>2, <1>3, <2>2 DEF FrameOK
  <1>5. CallResult(w) /\ slots'[e] = s /\ calls'[e] = call
    BY <1>1, <1>2, <1>4, StepResult DEF SelectionInv
  <1>6. UNCHANGED <<pool, enabled, last, ranking>>
    BY <1>5 DEF CallResult, bg, main
  <1>7. Slot(e)!StartMin
    <2>1. UNCHANGED <<Slot(e)!input, Slot(e)!selection, Slot(e)!slot>>
      BY <1>5, <1>6 DEF Slot!input, Slot!selection, Slot!slot, s
    <2>2. slots'[e] = slots[e]
      BY <1>5 DEF s
    <2> QED BY <1>1, <1>3, <1>5, <1>6, <2>1, <2>2 DEF Slot!StartMin, c
  <1> QED BY <1>5, <1>7

\* An iteration of the minimizing loop.
LEMMA MinStepOK ==
  ASSUME QueueInv, SelectionInv, NEW w \in Workers, NEW b \in Bins, MinStep(w, b),
         NEW e, e = job[w]
  PROVE  CallResult(w) /\ Slot(e)!MinStep(b)
  <1> DEFINE s == slots[e]
             c == calls[e]
             k == c.step
             v == BinValue(pool, c.second, c.condition, b)
             mn == MinStepMin(s.min, k, b, v)
             slot == [s EXCEPT !.min = mn]
             chosen == slot.min[k].bin
             call == [c EXCEPT !.toProcess = MinStepToProcess(s.min, k, v, c.toProcess, c.background, chosen),
                               !.background = c.background \ {chosen},
                               !.condition = c.condition \cup {chosen},
                               !.second = MinStepSecond(s.max, k, c.second),
                               !.step = k + 1]
  <1>1. /\ e # NoBin /\ c.pc = "min" /\ k < c.stepCount
        /\ IsMinElementBy(pool, c.second, c.condition, c.toProcess, b)
        /\ Step(w, call, slot)
    BY DEF MinStep
  <1>2. e \in Bins /\ e \notin enabled /\ FrameOK(s, c) /\ DOMAIN s.min # {} /\ pool \in Pools
    BY <1>1, JobBin DEF SelectionInv, RankingInv
  <1>3. /\ c.stepCount \in Nat /\ k \in Nat
        /\ DOMAIN s.max = 0 .. (c.stepCount - 2) /\ DOMAIN s.min = 0 .. (c.stepCount - 1)
        /\ c.second \in SUBSET Bins /\ c.condition \in SUBSET Bins
        /\ \A i \in DOMAIN s.max : s.max[i] \in MaxResults
        /\ \A i \in DOMAIN s.min : s.min[i] \in MinResults
        /\ \A i \in DOMAIN s.max : s.max[i].bin \in Bins
    BY <1>1, <1>2 DEF FrameOK
  <1>4. v \in Nat /\ v < ResetValue
    BY <1>2, <1>3, BinValues
  <1>5. k \in DOMAIN s.min /\ DOMAIN s.min \subseteq Int
    <2> HIDE DEF s, c, k, v, mn, slot, call, chosen
    <2>1. k \in 0 .. (c.stepCount - 1) /\ 0 .. (c.stepCount - 1) \subseteq Int
      BY <1>1, <1>3
    <2> QED BY <1>3, <2>1
  <1>6. /\ DOMAIN slot = {"max", "min", "score"}
        /\ slot.max = s.max /\ slot.min = mn /\ slot.score = s.score
    BY <1>2 DEF FrameOK
  <1>7. /\ DOMAIN call = DOMAIN c
        /\ call.pc = c.pc /\ call.stepCount = c.stepCount /\ call.step = k + 1
        /\ call.background = c.background \ {mn[k].bin}
        /\ call.second = MinStepSecond(s.max, k, c.second)
        /\ call.toProcess = MinStepToProcess(s.min, k, v, c.toProcess, c.background, mn[k].bin)
        /\ call.condition = c.condition \cup {mn[k].bin}
    BY <1>2, <1>6 DEF FrameOK
  <1> HIDE DEF s, c, k, v, slot, call, chosen
  <1>8. /\ DOMAIN mn = DOMAIN s.min
        /\ \A i \in DOMAIN s.min : mn[i] \in MinResults
        /\ mn[k].bin \in Bins
    BY <1>3, <1>4, <1>5, MinVector
  <1> HIDE DEF mn
  <1>9. FrameOK(slot, call)
    <2>1. /\ DOMAIN c = {"pc", "stepCount", "step", "background", "toProcess", "second", "condition"}
          /\ c.background \subseteq Bins /\ c.toProcess \subseteq Bins /\ s.score \in Nat
      BY <1>2 DEF FrameOK
    <2>2. call.toProcess \subseteq Bins /\ call.background \subseteq Bins
      BY <1>7, <2>1 DEF MinStepToProcess
    <2>3. call.condition \subseteq Bins
      BY <1>3, <1>7, <1>8
    <2>4. call.second \subseteq Bins
      BY <1>3, <1>7 DEF MinStepSecond
    <2>5. call.step \in Nat /\ call.stepCount \in Nat
      BY <1>3, <1>7
    <2> QED BY <1>1, <1>3, <1>6, <1>7, <1>8, <2>1, <2>2, <2>3, <2>4, <2>5 DEF FrameOK
  <1>10. CallResult(w) /\ slots'[e] = slot /\ calls'[e] = call
    BY <1>1, <1>2, <1>6, <1>8, <1>9, StepResult DEF SelectionInv
  <1>11. UNCHANGED <<pool, enabled, last, ranking>>
    BY <1>10 DEF CallResult, bg, main
  <1>12. Slot(e)!MinStep(b)
    <2>1. /\ calls[e].pc = "min" /\ calls[e].step < calls[e].stepCount
          /\ Slot(e)!IsMinElementBy(pool, calls[e].second, calls[e].condition, calls[e].toProcess, b)
      BY <1>1, SlotElements DEF s, c, k
    <2>2. v = Slot(e)!BinValue(pool, calls[e].second, calls[e].condition, b)
      BY SlotElements DEF v, c
    <2>3. /\ slots'[e].min = Slot(e)!MinStepMin(slots[e].min, calls[e].step, b, v)
          /\ calls'[e].toProcess = Slot(e)!MinStepToProcess(slots[e].min, calls[e].step, v,
                 calls[e].toProcess, calls[e].background, slots'[e].min[calls[e].step].bin)
          /\ calls'[e].second = Slot(e)!MinStepSecond(slots[e].max, calls[e].step, calls[e].second)
      <3>1. slots'[e].min = mn /\ mn = Slot(e)!MinStepMin(s.min, k, b, v)
        BY <1>6, <1>10, SlotSteps DEF mn
      <3>2. calls'[e].toProcess
              = Slot(e)!MinStepToProcess(s.min, k, v, c.toProcess, c.background, mn[k].bin)
        BY <1>7, <1>10, SlotSteps
      <3>3. calls'[e].second = Slot(e)!MinStepSecond(s.max, k, c.second)
        BY <1>7, <1>10, SlotSteps
      <3> QED BY <3>1, <3>2, <3>3 DEF s, c, k
    <2>4. /\ calls'[e].background = calls[e].background \ {slots'[e].min[calls[e].step].bin}
          /\ calls'[e].condition = calls[e].condition \cup {slots'[e].min[calls[e].step].bin}
          /\ calls'[e].step = calls[e].step + 1
          /\ UNCHANGED <<slots[e].score, slots[e].max, calls[e].pc, calls[e].stepCount>>
      BY <1>6, <1>7, <1>10 DEF s, c, k
    <2>5. slots'[e].min # EmptyVector /\ slots[e].min # EmptyVector
      BY <1>2, <1>6, <1>8, <1>10, UsedSlot DEF s
    <2>6. UNCHANGED <<Slot(e)!input, Slot(e)!selection>>
      BY <1>11 DEF Slot!input, Slot!selection
    <2> QED
      BY <1>11, <2>1, <2>2, <2>3, <2>4, <2>5, <2>6 DEF Slot!MinStep
  <1> QED BY <1>10, <1>12

\* Evaluate returns.
LEMMA FinishOK ==
  ASSUME QueueInv, SelectionInv, NEW w \in Workers, Finish(w), NEW e, e = job[w]
  PROVE  CallResult(w) /\ calls'[e].pc = "done" /\ Slot(e)!Finish
  <1> DEFINE s == slots[e]
             c == calls[e]
             slot == [s EXCEPT !.score = Cmi(pool, c.second, c.condition)]
             call == [c EXCEPT !.pc = "done"]
  <1>1. e # NoBin /\ c.pc = "min" /\ c.step = c.stepCount /\ Step(w, call, slot)
    BY DEF Finish
  <1>2. e \in Bins /\ e \notin enabled /\ FrameOK(s, c) /\ DOMAIN s.min # {} /\ pool \in Pools
    BY <1>1, JobBin DEF SelectionInv, RankingInv
  <1>3. c.second \in SUBSET Bins /\ c.condition \in SUBSET Bins
    BY <1>2 DEF FrameOK
  <1>4. Cmi(pool, c.second, c.condition) \in Nat
    BY <1>2, <1>3, BinValues
  <1>5. /\ DOMAIN slot = {"max", "min", "score"}
        /\ slot.max = s.max /\ slot.min = s.min
        /\ slot.score = Cmi(pool, c.second, c.condition)
    BY <1>2 DEF FrameOK
  <1>6. /\ DOMAIN call = DOMAIN c
        /\ call.pc = "done" /\ call.stepCount = c.stepCount /\ call.step = c.step
        /\ call.background = c.background /\ call.toProcess = c.toProcess
        /\ call.second = c.second /\ call.condition = c.condition
    BY <1>2 DEF FrameOK
  <1> HIDE DEF s, c, slot, call
  <1>7. FrameOK(slot, call)
    BY <1>2, <1>4, <1>5, <1>6 DEF FrameOK
  <1>8. CallResult(w) /\ slots'[e] = slot /\ calls'[e] = call
    BY <1>1, <1>2, <1>5, <1>7, StepResult DEF SelectionInv
  <1>9. UNCHANGED <<pool, enabled, last, ranking>>
    BY <1>8 DEF CallResult, bg, main
  <1>10. Slot(e)!Finish
    <2>1. UNCHANGED <<Slot(e)!input, Slot(e)!selection, Slot(e)!locals>>
      BY <1>6, <1>8, <1>9 DEF Slot!input, Slot!selection, Slot!locals, c
    <2>2. /\ calls[e].pc = "min" /\ calls[e].step = calls[e].stepCount
          /\ slots'[e].score = Cmi(pool, calls[e].second, calls[e].condition)
          /\ calls'[e].pc = "done" /\ UNCHANGED <<slots[e].max, slots[e].min>>
      BY <1>1, <1>5, <1>6, <1>8 DEF s, c
    <2> QED BY <1>9, <2>1, <2>2 DEF Slot!Finish
  <1> QED BY <1>6, <1>8, <1>10

-----------------------------------------------------------------------------
(***************************************************************************)
(* The selection: rounds, ranking and background.                          *)
(***************************************************************************)

\* A step of a call leaves the selection in order, whether the thread goes on
\* with the call or is done with it.
LEMMA CallKeeps ==
  ASSUME QueueInv, SelectionInv, NEW w \in Workers, phase = "submit", CallResult(w),
         job' = job \/ (job' = [job EXCEPT ![w] = NoBin] /\ calls'[job[w]].pc = "done")
  PROVE  SelectionInv'
  <1>1. /\ UNCHANGED <<pool, enabled, last, ranking, phase, disabledBins, submitted, queue>>
        /\ job[w] \in Bins
        /\ \A x \in Bins : x # job[w] => slots'[x] = slots[x] /\ calls'[x] = calls[x]
    BY DEF CallResult, bg, main
  <1>2. RankingInv' /\ DisabledInv'
    BY <1>1 DEF SelectionInv, RankingInv, DisabledInv, FeatureBins
  <1>3. FrameInv'
    <2> SUFFICES ASSUME NEW x \in Bins
                 PROVE  FrameOK(slots'[x], calls'[x])
      BY DEF CallResult, FrameInv
    <2> QED BY <1>1 DEF CallResult, SelectionInv, FrameInv
  <1>4. UsedInv'
    BY <1>1 DEF CallResult, SelectionInv, UsedInv
  <1>5. DoneInv'
    <2> SUFFICES ASSUME NEW h \in 1 .. submitted
                 PROVE  \/ \E i \in DOMAIN queue : queue[i] = disabledBins[h]
                        \/ \E v \in Workers : job'[v] = disabledBins[h]
                        \/ calls'[disabledBins[h]].pc = "done"
      BY <1>1 DEF DoneInv
    <2>1. \/ \E i \in DOMAIN queue : queue[i] = disabledBins[h]
          \/ \E v \in Workers : job[v] = disabledBins[h]
          \/ calls[disabledBins[h]].pc = "done"
      BY DEF SelectionInv, DoneInv
    <2>2. disabledBins[h] \in Bins
      BY LenProperties, ElementOfSeq DEF QueueInv, TypeOK
    <2>3. job \in [Workers -> Bins \cup {NoBin}]
      BY DEF QueueInv, TypeOK
    <2>4. CASE job' = job
      BY <1>1, <2>1, <2>2, <2>4
    <2>5. CASE job' = [job EXCEPT ![w] = NoBin] /\ calls'[job[w]].pc = "done"
      <3>1. \A v \in Workers : v # w => job'[v] = job[v]
        BY <2>3, <2>5
      <3> QED BY <1>1, <2>1, <2>2, <2>5, <3>1
    <2> QED BY <2>4, <2>5
  <1> QED BY <1>2, <1>3, <1>4, <1>5 DEF SelectionInv

\* A step inside Evaluate is a step of the slot of the bin the thread works on.
LEMMA CallStepOK ==
  ASSUME QueueInv, SelectionInv, NEW w \in Workers, CallStep(w), NEW e, e = job[w]
  PROVE  CallResult(w) /\ Slot(e)!Next /\ e # NoBin
  <1>1. CASE Begin(w)
    BY <1>1, BeginOK DEF Slot!Next, Slot!Evaluation, Begin
  <1>2. CASE \E b \in Bins : MaxStep(w, b)
    <2>1. PICK b \in Bins : MaxStep(w, b)
      BY <1>2
    <2>2. CallResult(w) /\ Slot(e)!MaxStep(b) /\ e # NoBin /\ b \in Slot(e)!Bins
      BY <2>1, MaxStepOK, SlotBins DEF MaxStep
    <2> QED BY <2>2 DEF Slot!Next, Slot!Evaluation
  <1>3. CASE StartMin(w)
    BY <1>3, StartMinOK DEF Slot!Next, Slot!Evaluation, StartMin
  <1>4. CASE \E b \in Bins : MinStep(w, b)
    <2>1. PICK b \in Bins : MinStep(w, b)
      BY <1>4
    <2>2. CallResult(w) /\ Slot(e)!MinStep(b) /\ e # NoBin /\ b \in Slot(e)!Bins
      BY <2>1, MinStepOK, SlotBins DEF MinStep
    <2> QED BY <2>2 DEF Slot!Next, Slot!Evaluation
  <1> QED BY <1>1, <1>2, <1>3, <1>4 DEF CallStep

\* A step that is about phases and jobs only.
LEMMA SameFrames ==
  ASSUME SelectionInv, UNCHANGED <<pool, bg, ranking, slots, calls>>,
         phase # "start", phase' # "start", DisabledInv', DoneInv'
  PROVE  SelectionInv'
  <1>1. RankingInv'
    BY DEF SelectionInv, RankingInv, bg, FeatureBins
  <1>2. UsedInv' /\ FrameInv'
    BY DEF SelectionInv, UsedInv, FrameInv, bg
  <1> QED BY <1>1, <1>2 DEF SelectionInv

\* A round begins with all bins that are not enabled.
LEMMA BeginRoundKeeps ==
  ASSUME QueueInv, SelectionInv, BeginRound
  PROVE  SelectionInv'
  <1> DEFINE fresh == Bins \ enabled
  <1>1. /\ disabledBins' = Ascending(fresh) /\ submitted' = 0 /\ phase' = "submit"
        /\ phase = "round" /\ UNCHANGED <<pool, bg, ranking, slots, calls>>
    BY DEF BeginRound, DisabledBinIndexes, Background, Bins
  <1>2. fresh \in SUBSET Int /\ IsFiniteSet(fresh)
    BY BinsFinite
  <1>3. /\ \A x \in fresh : \E i \in DOMAIN disabledBins' : disabledBins'[i] = x
        /\ disabledBins' \in Seq(fresh)
    <2> HIDE DEF fresh
    <2> QED BY <1>1, <1>2, AscendingEnumerates
  <1>4. \A i \in DOMAIN disabledBins' : disabledBins'[i] \in fresh
    <2> HIDE DEF fresh
    <2> QED BY <1>3, LenProperties, ElementOfSeq
  <1>5. DisabledInv'
    BY <1>1, <1>3, <1>4 DEF DisabledInv, bg
  <1>6. DoneInv'
    <2>1. 1 .. submitted' = {}
      BY <1>1
    <2> QED BY <2>1 DEF DoneInv
  <1> QED BY <1>1, <1>5, <1>6, SameFrames

\* A bin that is submitted waits.
LEMMA SubmitKeeps ==
  ASSUME QueueInv, SelectionInv, Submit
  PROVE  SelectionInv'
  <1>1. PICK new : new = disabledBins[submitted + 1]
    OBVIOUS
  <1>2. /\ UNCHANGED <<pool, bg, ranking, slots, calls, phase, disabledBins, job>>
        /\ phase = "submit" /\ submitted \in Nat
        /\ queue' = Append(queue, new) /\ submitted' = submitted + 1
    BY <1>1 DEF Submit, QueueInv, TypeOK
  <1>3. queue \in Seq(Bins) /\ Len(queue) \in Nat /\ DOMAIN queue = 1 .. Len(queue) /\ new \in Bins
    <2>1. queue \in Seq(Bins) /\ disabledBins \in Seq(Bins)
      BY DEF QueueInv, TypeOK
    <2>2. submitted + 1 \in 1 .. Len(disabledBins)
      BY <1>2, <2>1, LenProperties DEF Submit
    <2> QED BY <1>1, <2>1, <2>2, LenProperties, ElementOfSeq
  <1>4. /\ \A i \in DOMAIN queue : i \in DOMAIN queue' /\ queue'[i] = queue[i]
        /\ Len(queue) + 1 \in DOMAIN queue' /\ queue'[Len(queue) + 1] = new
    BY <1>2, <1>3, AppendProperties, LenProperties
  <1>5. DisabledInv'
    BY <1>2 DEF SelectionInv, DisabledInv, bg
  <1>6. DoneInv'
    <2> SUFFICES ASSUME NEW h \in 1 .. submitted'
                 PROVE  \/ \E i \in DOMAIN queue' : queue'[i] = disabledBins[h]
                        \/ \E v \in Workers : job[v] = disabledBins[h]
                        \/ calls[disabledBins[h]].pc = "done"
      BY <1>2 DEF DoneInv
    <2>1. h \in 1 .. submitted \/ h = submitted + 1
      BY <1>2
    <2> QED BY <1>1, <1>2, <1>4, <2>1 DEF SelectionInv, DoneInv
  <1> QED BY <1>2, <1>5, <1>6, SameFrames

\* A bin that is taken is evaluated.
LEMMA TakeKeeps ==
  ASSUME QueueInv, SelectionInv, NEW w \in Workers, Take(w)
  PROVE  SelectionInv'
  <1>1. /\ UNCHANGED <<pool, bg, ranking, slots, calls, phase, disabledBins, submitted>>
        /\ job[w] = NoBin /\ queue # <<>>
        /\ job' = [job EXCEPT ![w] = Head(queue)] /\ queue' = Tail(queue)
    BY DEF Take, main
  <1>2. /\ queue \in Seq(Bins) /\ job \in [Workers -> Bins \cup {NoBin}] /\ phase = "submit"
        /\ disabledBins \in Seq(Bins) /\ submitted \in 0 .. Len(disabledBins)
    BY <1>1 DEF QueueInv, TypeOK, RoundInv
  <1>3. /\ Len(queue) \in Nat \ {0} /\ DOMAIN queue = 1 .. Len(queue) /\ Head(queue) = queue[1]
        /\ DOMAIN queue' = 1 .. (Len(queue) - 1)
        /\ \A i \in 1 .. (Len(queue) - 1) : queue'[i] = queue[i + 1]
    BY <1>1, <1>2, EmptySeq, LenProperties, HeadTailProperties
  <1>4. \A i \in DOMAIN queue : i = 1 \/ (i - 1 \in DOMAIN queue' /\ queue'[i - 1] = queue[i])
    <2> SUFFICES ASSUME NEW i \in DOMAIN queue, i # 1
                 PROVE  i - 1 \in DOMAIN queue' /\ queue'[i - 1] = queue[i]
      OBVIOUS
    <2>1. i - 1 \in 1 .. (Len(queue) - 1) /\ (i - 1) + 1 = i
      BY <1>3
    <2> QED BY <1>3, <2>1
  <1>5. job'[w] = queue[1] /\ \A v \in Workers : v # w => job'[v] = job[v]
    BY <1>1, <1>2, <1>3
  <1>6. DisabledInv'
    BY <1>1 DEF SelectionInv, DisabledInv, bg
  <1>7. DoneInv'
    <2> SUFFICES ASSUME NEW h \in 1 .. submitted
                 PROVE  \/ \E i \in DOMAIN queue' : queue'[i] = disabledBins[h]
                        \/ \E v \in Workers : job'[v] = disabledBins[h]
                        \/ calls[disabledBins[h]].pc = "done"
      BY <1>1 DEF DoneInv
    <2>1. \/ \E i \in DOMAIN queue : queue[i] = disabledBins[h]
          \/ \E v \in Workers : job[v] = disabledBins[h]
          \/ calls[disabledBins[h]].pc = "done"
      BY <1>2 DEF SelectionInv, DoneInv
    <2>2. disabledBins[h] # NoBin
      BY <1>2, BinsFinite, LenProperties, ElementOfSeq
    <2>3. CASE \E i \in DOMAIN queue : queue[i] = disabledBins[h]
      BY <1>4, <1>5, <2>3
    <2>4. CASE \E v \in Workers : job[v] = disabledBins[h]
      BY <1>1, <1>5, <2>2, <2>4
    <2> QED BY <2>1, <2>3, <2>4
  <1> QED BY <1>1, <1>2, <1>6, <1>7, SameFrames

\* The end of a phase.
LEMMA PhaseEndKeeps ==
  ASSUME QueueInv, SelectionInv, Drain \/ End
  PROVE  SelectionInv'
  <1>1. /\ UNCHANGED <<pool, bg, ranking, disabledBins, submitted, queue, job, slots, calls>>
        /\ \/ phase = "submit" /\ phase' = "pick" /\ submitted = Len(disabledBins)
           \/ phase = "round" /\ phase' = "end"
    BY DEF Drain, End
  <1>2. DisabledInv'
    BY <1>1 DEF SelectionInv, DisabledInv, bg
  <1>3. DoneInv'
    BY <1>1 DEF SelectionInv, DoneInv
  <1> QED BY <1>1, <1>2, <1>3, SameFrames

\* The first feature is the whole background.
LEMMA SelectFirstBackground ==
  ASSUME QueueInv, SelectionInv, SelectFirst
  PROVE  \E f \in AllFeatureIndexes(FeatureSet) :
           /\ FeatureBins(f) # {} /\ ranking' = <<f>>
           /\ enabled' = FeatureBins(f) /\ last' = FeatureBins(f)
  <1> DEFINE all == Ascending(Bins)
             values == [i \in DOMAIN all |-> Cmi(pool, {all[i]}, {})]
             m == FirstMaximum(values)
             f == GetFeatureIndexByBinIndex(FeatureSet, all[m])
  <1>1. ranking' = <<f>> /\ enabled' = FeatureBins(f) /\ last' = FeatureBins(f)
    BY DEF SelectFirst, SetFeatureEnabled, DisableAll, NewBackground, FeatureBins
  <1>2. Bins \in SUBSET Int /\ IsFiniteSet(Bins) /\ pool \in Pools
    BY BinsFinite DEF SelectionInv, RankingInv
  <1>3. PICK n : n = Cardinality(Bins)
    OBVIOUS
  <1>4. n \in Nat \ {0}
    <2>1. 0 \in Bins
      BY FeatureStart
    <2> QED BY <1>2, <1>3, <2>1, FS_CardinalityType, FS_EmptySet
  <1>5. all \in Seq(Bins) /\ DOMAIN all = 1 .. n
    BY <1>2, <1>3, AscendingEnumerates
  <1>6. \A i \in 1 .. n : all[i] \in Bins
    BY <1>4, <1>5, LenProperties, ElementOfSeq
  <1>7. values \in [1 .. n -> Int]
    <2> SUFFICES ASSUME NEW i \in 1 .. n
                 PROVE  Cmi(pool, {all[i]}, {}) \in Int
      BY <1>5
    <2>1. {all[i]} \in SUBSET Bins /\ {} \in SUBSET Bins
      BY <1>6
    <2>2. Cmi(pool, {all[i]}, {}) \in Nat
      BY <1>2, <1>6, <2>1, BinValues
    <2> QED BY <2>2
  <1> HIDE DEF values
  <1>8. m \in 1 .. n
    BY <1>4, <1>7, FirstMaximumIsPosition
  <1>9. all[m] \in Bins
    BY <1>6, <1>8
  <1> HIDE DEF all, m
  <1>10. f \in AllFeatureIndexes(FeatureSet) /\ all[m] \in FeatureBins(f)
    BY <1>9, FeatureOfBin
  <1> QED BY <1>1, <1>10

\* SelectFirst keeps the invariant of the selection.
LEMMA SelectFirstKeeps ==
  ASSUME QueueInv, SelectionInv, SelectFirst
  PROVE  SelectionInv'
  <1>1. PICK f \in AllFeatureIndexes(FeatureSet) :
          /\ FeatureBins(f) # {} /\ ranking' = <<f>>
          /\ enabled' = FeatureBins(f) /\ last' = FeatureBins(f)
    BY SelectFirstBackground
  <1>2. /\ phase = "start" /\ phase' = "round" /\ UNCHANGED <<pool, slots, calls>>
        /\ calls = [b \in Bins |-> NoCall] /\ pool \in Pools
    BY DEF SelectFirst, SelectionInv, RankingInv
  <1>3. FeatureBins(f) \subseteq Bins
    BY FeatureRange
  <1>4. /\ ranking' \in Seq(AllFeatureIndexes(FeatureSet)) /\ Len(ranking') = 1
        /\ DOMAIN ranking' = {1} /\ ranking'[1] = f /\ ranking' # <<>>
    <2> HIDE DEF AllFeatureIndexes
    <2> QED BY <1>1
  <1>5. RankingInv'
    BY <1>1, <1>2, <1>3, <1>4 DEF RankingInv
  <1>6. DisabledInv' /\ DoneInv'
    BY <1>2 DEF DisabledInv, DoneInv
  <1>7. UsedInv'
    BY <1>2, <1>4 DEF UsedInv, NoCall
  <1>8. FrameInv'
    BY <1>2 DEF SelectionInv, FrameInv
  <1> QED BY <1>5, <1>6, <1>7, <1>8 DEF SelectionInv

\* When the values are collected, every bin that is not enabled was evaluated.
LEMMA AllDone ==
  ASSUME QueueInv, SelectionInv, phase = "pick", NEW b \in Bins, b \notin enabled
  PROVE  calls[b].pc = "done"
  <1>1. PICK h \in DOMAIN disabledBins : disabledBins[h] = b
    BY DEF SelectionInv, DisabledInv
  <1>2. h \in 1 .. submitted
    BY LenProperties DEF SelectionInv, DisabledInv, QueueInv, TypeOK
  <1>3. queue = <<>> /\ \A w \in Workers : job[w] # b
    BY BinsFinite DEF QueueInv, RoundInv
  <1> QED BY <1>1, <1>2, <1>3 DEF SelectionInv, DoneInv

\* The next feature has a bin, and none of its bins was enabled.
LEMMA SelectNextBackground ==
  ASSUME QueueInv, SelectionInv, SelectNext
  PROVE  \E f \in AllFeatureIndexes(FeatureSet) :
           /\ FeatureBins(f) # {} /\ FeatureBins(f) \cap enabled = {}
           /\ ranking' = Append(ranking, f)
           /\ enabled' = enabled \cup FeatureBins(f) /\ last' = FeatureBins(f)
  <1> DEFINE values == [i \in DOMAIN disabledBins |-> slots[disabledBins[i]].score]
             m == FirstMaximum(values)
             f == GetFeatureIndexByBinIndex(FeatureSet, disabledBins[m])
  <1>1. /\ ranking' = Append(ranking, f)
        /\ enabled' = enabled \cup FeatureBins(f) /\ last' = FeatureBins(f)
        /\ phase = "pick" /\ disabledBins # <<>>
    BY DEF SelectNext, SetFeatureEnabled, Background, FeatureBins
  <1>2. PICK n : n = Len(disabledBins)
    OBVIOUS
  <1>3. disabledBins \in Seq(Bins)
    BY DEF QueueInv, TypeOK
  <1>4. n \in Nat \ {0} /\ DOMAIN disabledBins = 1 .. n
    BY <1>1, <1>2, <1>3, EmptySeq, LenProperties
  <1>5. \A i \in 1 .. n : disabledBins[i] \in Bins
    BY <1>2, <1>3, <1>4, ElementOfSeq
  <1>6. values \in [1 .. n -> Int]
    <2> SUFFICES ASSUME NEW i \in 1 .. n
                 PROVE  slots[disabledBins[i]].score \in Int
      BY <1>4
    <2>1. slots[disabledBins[i]].score \in Nat
      BY <1>5 DEF SelectionInv, FrameInv, FrameOK
    <2> QED BY <2>1
  <1> HIDE DEF values
  <1>7. m \in 1 .. n
    BY <1>4, <1>6, FirstMaximumIsPosition
  <1> HIDE DEF m
  <1>8. disabledBins[m] \in Bins /\ disabledBins[m] \notin enabled
    BY <1>1, <1>4, <1>5, <1>7 DEF SelectionInv, DisabledInv
  <1>9. f \in AllFeatureIndexes(FeatureSet) /\ disabledBins[m] \in FeatureBins(f)
    BY <1>8, FeatureOfBin
  <1> HIDE DEF f
  <1>10. ASSUME NEW b \in FeatureBins(f), b \in enabled
         PROVE  FALSE
    <2>1. b \in Bins
      BY <1>9, <1>10, FeatureRange
    <2>2. PICK i \in DOMAIN ranking : b \in FeatureBins(ranking[i])
      BY <1>10, <2>1 DEF SelectionInv, RankingInv
    <2>3. ranking \in Seq(AllFeatureIndexes(FeatureSet))
      BY DEF SelectionInv, RankingInv
    <2>4. ranking[i] \in AllFeatureIndexes(FeatureSet)
      <3> HIDE DEF AllFeatureIndexes
      <3> QED BY <2>3, LenProperties, ElementOfSeq
    <2>5. ranking[i] = f
      BY <1>9, <1>10, <2>1, <2>2, <2>4, FeaturesDisjoint
    <2> QED BY <1>8, <1>9, <2>5 DEF SelectionInv, RankingInv
  <1> QED BY <1>1, <1>9, <1>10

\* SelectNext keeps the invariant of the selection.
LEMMA SelectNextKeeps ==
  ASSUME QueueInv, SelectionInv, SelectNext
  PROVE  SelectionInv'
  <1>1. PICK f \in AllFeatureIndexes(FeatureSet) :
          /\ FeatureBins(f) # {} /\ FeatureBins(f) \cap enabled = {}
          /\ ranking' = Append(ranking, f)
          /\ enabled' = enabled \cup FeatureBins(f) /\ last' = FeatureBins(f)
    BY SelectNextBackground
  <1>2. /\ phase = "pick" /\ phase' = "round" /\ UNCHANGED <<pool, slots>>
        /\ calls' = [b \in Bins |-> [calls[b] EXCEPT !.pc = "idle"]]
    BY DEF SelectNext
  <1>3. FeatureBins(f) \subseteq Bins
    BY FeatureRange
  <1>4. PICK F : F = AllFeatureIndexes(FeatureSet)
    OBVIOUS
  <1>5. ranking \in Seq(F) /\ ranking # <<>> /\ f \in F
    BY <1>2, <1>4 DEF SelectionInv, RankingInv
  <1>6. Len(ranking) \in Nat \ {0} /\ DOMAIN ranking = 1 .. Len(ranking)
    BY <1>5, EmptySeq, LenProperties
  <1>7. /\ ranking' \in Seq(F) /\ ranking' # <<>>
        /\ DOMAIN ranking' = DOMAIN ranking \cup {Len(ranking) + 1}
        /\ \A i \in DOMAIN ranking : ranking'[i] = ranking[i]
        /\ ranking'[Len(ranking) + 1] = f
    <2>1. /\ ranking' \in Seq(F) /\ Len(ranking') = Len(ranking) + 1
          /\ \A i \in 1 .. Len(ranking) : ranking'[i] = ranking[i]
          /\ ranking'[Len(ranking) + 1] = f
      BY <1>1, <1>5, AppendProperties
    <2>2. DOMAIN ranking' = 1 .. (Len(ranking) + 1)
      BY <2>1, LenProperties
    <2>3. 1 .. (Len(ranking) + 1) = 1 .. Len(ranking) \cup {Len(ranking) + 1}
      BY <1>6
    <2>4. ranking' # <<>>
      BY <1>6, <2>1, EmptySeq
    <2> QED BY <1>6, <2>1, <2>2, <2>3, <2>4
  <1>8. RankingInv'
    <2>1. pool' \in Pools /\ enabled' \subseteq Bins /\ last' \subseteq Bins
      BY <1>1, <1>2, <1>3 DEF SelectionInv, RankingInv
    <2>2. ASSUME NEW b \in Bins
          PROVE  b \in enabled' <=> \E i \in DOMAIN ranking' : b \in FeatureBins(ranking'[i])
      <3>1. b \in enabled <=> \E i \in DOMAIN ranking : b \in FeatureBins(ranking[i])
        BY DEF SelectionInv, RankingInv
      <3> QED BY <1>1, <1>7, <3>1
    <2>3. 1 \in DOMAIN ranking /\ ranking'[1] = ranking[1] /\ FeatureBins(ranking[1]) # {}
      BY <1>2, <1>6, <1>7 DEF SelectionInv, RankingInv
    <2> QED BY <1>2, <1>4, <1>7, <2>1, <2>2, <2>3 DEF RankingInv
  <1>9. DisabledInv' /\ DoneInv'
    BY <1>2 DEF DisabledInv, DoneInv
  <1>10. UsedInv'
    <2> SUFFICES ASSUME NEW b \in Bins \ enabled'
                 PROVE  DOMAIN slots[b].min # {}
      BY <1>2 DEF UsedInv
    <2>1. b \in Bins \ enabled /\ calls[b].pc = "done"
      BY <1>1, <1>2, AllDone
    <2> QED BY <2>1 DEF SelectionInv, UsedInv
  <1>11. FrameInv'
    <2> SUFFICES ASSUME NEW b \in Bins
                 PROVE  FrameOK(slots[b], calls'[b])
      BY <1>2 DEF SelectionInv, FrameInv
    <2>1. FrameOK(slots[b], calls[b])
      BY DEF SelectionInv, FrameInv
    <2>2. calls'[b] = [calls[b] EXCEPT !.pc = "idle"]
      BY <1>2
    <2> QED BY <2>1, <2>2 DEF FrameOK
  <1> QED BY <1>8, <1>9, <1>10, <1>11 DEF SelectionInv

\* At the start every slot is empty.
LEMMA InitSelection ==
  ASSUME Init
  PROVE  SelectionInv
  <1>1. <<>> \in Seq(AllFeatureIndexes(FeatureSet)) /\ Len(<<>>) = 0 /\ DOMAIN <<>> = {}
    BY EmptySeq
  <1>2. RankingInv
    BY <1>1 DEF Init, RankingInv
  <1>3. DisabledInv /\ DoneInv
    BY DEF Init, DisabledInv, DoneInv
  <1>4. UsedInv
    BY <1>1 DEF Init, UsedInv, NoCall
  <1>5. FrameOK(EmptySlot, NoCall)
    BY DEF FrameOK, EmptySlot, NoCall, EmptyVector
  <1>6. FrameInv
    BY <1>5 DEF Init, FrameInv
  <1> QED BY <1>2, <1>3, <1>4, <1>6 DEF SelectionInv

\* Every step keeps the selection in order.
LEMMA NextSelection ==
  ASSUME QueueInv, SelectionInv, [Next]_vars
  PROVE  SelectionInv'
  <1>1. CASE SelectFirst
    BY <1>1, SelectFirstKeeps
  <1>2. CASE BeginRound
    BY <1>2, BeginRoundKeeps
  <1>3. CASE Submit
    BY <1>3, SubmitKeeps
  <1>4. CASE Drain \/ End
    BY <1>4, PhaseEndKeeps
  <1>5. CASE SelectNext
    BY <1>5, SelectNextKeeps
  <1>6. ASSUME NEW w \in Workers, Worker(w)
        PROVE  SelectionInv'
    <2>1. CASE Take(w)
      BY <2>1, TakeKeeps
    <2>2. CASE CallStep(w)
      <3>1. CallResult(w) /\ job[w] # NoBin /\ job' = job
        BY <2>2, CallStepOK, CallStepLeaves
      <3> QED BY <3>1, JobBin, CallKeeps
    <2>3. CASE Finish(w)
      <3>1. /\ CallResult(w) /\ calls'[job[w]].pc = "done" /\ job[w] # NoBin
            /\ job' = [job EXCEPT ![w] = NoBin]
        BY <2>3, FinishOK DEF Finish
      <3> QED BY <3>1, JobBin, CallKeeps
    <2> QED BY <1>6, <2>1, <2>2, <2>3 DEF Worker, CallStep
  <1>7. CASE UNCHANGED vars
    <2>1. UNCHANGED <<pool, enabled, last, ranking, phase, disabledBins, submitted, queue, job, slots, calls>>
      BY <1>7 DEF vars, bg, main
    <2>2. RankingInv' /\ DisabledInv'
      BY <2>1 DEF SelectionInv, RankingInv, DisabledInv, FeatureBins
    <2>3. DoneInv' /\ UsedInv' /\ FrameInv'
      BY <2>1 DEF SelectionInv, DoneInv, UsedInv, FrameInv
    <2> QED BY <2>2, <2>3 DEF SelectionInv
  <1> QED BY <1>1, <1>2, <1>3, <1>4, <1>5, <1>6, <1>7 DEF Next, Main

\* The ranking, the background, the rounds and the slots always fit together.
THEOREM SelectionInvariance == Spec => []SelectionInv
  <1>1. Init => SelectionInv
    BY InitSelection
  <1>2. QueueInv /\ SelectionInv /\ [Next]_vars => SelectionInv'
    BY NextSelection
  <1> QED BY <1>1, <1>2, QueueInvariance, PTL DEF Spec

-----------------------------------------------------------------------------
(***************************************************************************)
(* Every slot implements CachingBinScorer.                                 *)
(***************************************************************************)

\* When the first feature is enabled, every slot is in its initial state.
LEMMA SlotInit ==
  ASSUME QueueInv, SelectionInv, SelectFirst, NEW b \in Bins, b \notin enabled'
  PROVE  Slot(b)!Init'
  <1>1. PICK f \in AllFeatureIndexes(FeatureSet) :
          /\ FeatureBins(f) # {} /\ ranking' = <<f>>
          /\ enabled' = FeatureBins(f) /\ last' = FeatureBins(f)
    BY SelectFirstBackground
  <1>2. /\ UNCHANGED <<pool, slots, calls>> /\ pool \in Pools
        /\ slots[b] = EmptySlot /\ calls[b] = NoCall
    BY DEF SelectFirst, SelectionInv, RankingInv
  <1>3. /\ slots'[b].max = EmptyVector /\ slots'[b].min = EmptyVector /\ slots'[b].score = 0
    BY <1>2 DEF EmptySlot
  <1>4. /\ calls'[b].pc = "idle" /\ calls'[b].stepCount = 0 /\ calls'[b].step = 0
        /\ calls'[b].background = {} /\ calls'[b].toProcess = {}
        /\ calls'[b].second = {} /\ calls'[b].condition = {}
    BY <1>2 DEF NoCall
  <1>5. /\ f \in Slot(b)!AllFeatureIndexes(FeatureSet) /\ b \in Slot(b)!Bins
        /\ Slot(b)!FeatureBins(f) # {} /\ b \notin Slot(b)!FeatureBins(f)
    BY <1>1, SlotBins
  <1>6. /\ Slot(b)!SetFeatureEnabled(FeatureSet, Slot(b)!DisableAll(Slot(b)!NewBackground(FeatureSet)), f, TRUE).enabled
             = Slot(b)!GetFeatureBinIndexes(FeatureSet, f)
        /\ Slot(b)!SetFeatureEnabled(FeatureSet, Slot(b)!DisableAll(Slot(b)!NewBackground(FeatureSet)), f, TRUE).last
             = Slot(b)!GetFeatureBinIndexes(FeatureSet, f)
    BY DEF Slot!SetFeatureEnabled, Slot!DisableAll, Slot!NewBackground
  <1>7. Slot(b)!GetFeatureBinIndexes(FeatureSet, f) = FeatureBins(f)
    BY SlotBins DEF Slot!FeatureBins
  <1>8. Slot(b)!EmptyVector = EmptyVector
    BY SlotSentinels
  <1> QED BY <1>1, <1>2, <1>3, <1>4, <1>5, <1>6, <1>7, <1>8 DEF Slot!Init

\* When a further feature is enabled, it is for every slot a feature without
\* the bin of the slot.
LEMMA SlotEnable ==
  ASSUME QueueInv, SelectionInv, SelectNext, NEW b \in Bins, b \notin enabled'
  PROVE  Slot(b)!Next
  <1>1. PICK f \in AllFeatureIndexes(FeatureSet) :
          /\ FeatureBins(f) # {} /\ FeatureBins(f) \cap enabled = {}
          /\ ranking' = Append(ranking, f)
          /\ enabled' = enabled \cup FeatureBins(f) /\ last' = FeatureBins(f)
    BY SelectNextBackground
  <1>2. /\ phase = "pick" /\ UNCHANGED <<pool, slots>>
        /\ calls'[b] = [calls[b] EXCEPT !.pc = "idle"]
    BY DEF SelectNext
  <1>3. calls[b].pc = "done"
    BY <1>1, <1>2, AllDone
  <1>4. /\ calls'[b].pc = "idle"
        /\ UNCHANGED <<calls[b].stepCount, calls[b].step, calls[b].background, calls[b].toProcess,
                       calls[b].second, calls[b].condition>>
    BY <1>2 DEF SelectionInv, FrameInv, FrameOK
  <1>5. ranking'[1] = ranking[1]
    <2>1. PICK F : F = AllFeatureIndexes(FeatureSet)
      OBVIOUS
    <2>2. ranking \in Seq(F) /\ ranking # <<>> /\ f \in F
      BY <1>2, <2>1 DEF SelectionInv, RankingInv
    <2>3. 1 \in 1 .. Len(ranking)
      BY <2>2, EmptySeq, LenProperties
    <2> QED BY <1>1, <2>2, <2>3, AppendProperties
  <1>6. /\ f \in Slot(b)!AllFeatureIndexes(FeatureSet)
        /\ Slot(b)!FeatureBins(f) # {} /\ Slot(b)!FeatureBins(f) \cap enabled = {}
        /\ b \notin Slot(b)!FeatureBins(f)
    BY <1>1, SlotBins
  <1>7. /\ Slot(b)!SetFeatureEnabled(FeatureSet, Slot(b)!Background, f, TRUE).enabled
             = enabled \cup Slot(b)!GetFeatureBinIndexes(FeatureSet, f)
        /\ Slot(b)!SetFeatureEnabled(FeatureSet, Slot(b)!Background, f, TRUE).last
             = Slot(b)!GetFeatureBinIndexes(FeatureSet, f)
    BY DEF Slot!SetFeatureEnabled, Slot!Background
  <1>8. Slot(b)!GetFeatureBinIndexes(FeatureSet, f) = FeatureBins(f)
    BY SlotBins DEF Slot!FeatureBins
  <1>9. UNCHANGED <<Slot(b)!input, Slot(b)!slot, Slot(b)!locals>>
    BY <1>2, <1>4 DEF Slot!input, Slot!slot, Slot!locals
  <1>10. Slot(b)!EnableFeature(f)
    BY <1>1, <1>2, <1>3, <1>4, <1>5, <1>6, <1>7, <1>8, <1>9 DEF Slot!EnableFeature
  <1> QED BY <1>6, <1>10 DEF Slot!Next

\* What a step of the selection is for a slot.
LEMMA SlotNext ==
  ASSUME QueueInv, SelectionInv, Next, NEW b \in Bins, b \notin enabled'
  PROVE  IF phase = "start" THEN Slot(b)!Init'
                            ELSE Slot(b)!Next \/ UNCHANGED Slot(b)!vars
  <1>1. CASE SelectFirst
    BY <1>1, SlotInit DEF SelectFirst
  <1>2. CASE SelectNext
    BY <1>2, SlotEnable DEF SelectNext
  <1>3. CASE BeginRound \/ Submit \/ Drain \/ End
    <2>1. phase # "start" /\ UNCHANGED <<pool, bg, ranking, slots, calls>>
      BY <1>3 DEF BeginRound, Submit, Drain, End
    <2>2. UNCHANGED Slot(b)!vars
      BY <2>1, OtherSlots
    <2> QED BY <2>1, <2>2
  <1>4. ASSUME NEW w \in Workers, Worker(w)
        PROVE  phase # "start" /\ (Slot(b)!Next \/ UNCHANGED Slot(b)!vars)
    <2>1. CASE Take(w)
      <3>1. phase # "start" /\ UNCHANGED <<pool, bg, ranking, slots, calls>>
        BY <2>1 DEF Take, main, QueueInv, RoundInv
      <3>2. UNCHANGED Slot(b)!vars
        BY <3>1, OtherSlots
      <3> QED BY <3>1, <3>2
    <2>2. CASE CallStep(w) \/ Finish(w)
      <3>1. PICK e : e = job[w]
        OBVIOUS
      <3>2. CallResult(w) /\ Slot(e)!Next /\ e # NoBin
        BY <2>2, <3>1, CallStepOK, FinishOK DEF Finish, Slot!Next, Slot!Evaluation
      <3>3. phase = "submit"
        BY <3>1, <3>2, JobBin
      <3>4. CASE b = e
        BY <3>2, <3>3, <3>4
      <3>5. CASE b # e
        <4>1. /\ UNCHANGED <<pool, bg, ranking>>
              /\ slots'[b] = slots[b] /\ calls'[b] = calls[b]
          BY <3>1, <3>2, <3>5 DEF CallResult, main
        <4>2. UNCHANGED Slot(b)!vars
          BY <4>1, OtherSlots
        <4> QED BY <3>3, <4>2
      <3> QED BY <3>4, <3>5
    <2> QED BY <1>4, <2>1, <2>2 DEF Worker, CallStep
  <1> QED BY <1>1, <1>2, <1>3, <1>4 DEF Next, Main

\* As long as its bin is not enabled, a slot takes the steps of CachingBinScorer
\* and no others, however the steps of the threads are interleaved.
THEOREM SlotsImplement == Spec => SlotsImplementCachingBinScorer
  <1> DEFINE A == \A b \in Bins :
                    b \notin enabled' =>
                      IF phase = "start" THEN Slot(b)!Init'
                                         ELSE Slot(b)!Next \/ UNCHANGED Slot(b)!vars
  <1>1. QueueInv /\ SelectionInv /\ [Next]_vars => [A]_vars
    BY SlotNext
  <1> QED BY <1>1, QueueInvariance, SelectionInvariance, PTL DEF Spec, SlotsImplementCachingBinScorer

-----------------------------------------------------------------------------
(***************************************************************************)
(* What is proved of one slot of the cache in CachingBinScorer_proofs      *)
(* holds for the slot of every bin while the threads of the selection run: *)
(* the slot takes the steps of CachingBinScorer, so that it keeps the      *)
(* inductive invariant found there.                                        *)
(***************************************************************************)
CONSTANT bin      \* any bin; nothing is assumed of it

Scorer == INSTANCE CachingBinScorer_proofs WITH
  evalBin <- bin,
  maxSteps <- slots[bin].max, minSteps <- slots[bin].min, score <- slots[bin].score,
  pc <- calls[bin].pc, stepCount <- calls[bin].stepCount, step <- calls[bin].step,
  background <- calls[bin].background, toProcess <- calls[bin].toProcess,
  second <- calls[bin].second, condition <- calls[bin].condition,
  initialSteps <- IF slots[bin].min = EmptyVector THEN 0
                  ELSE StepCountFor(FeatureBins(ranking[1]), EvalStepCount)

\* The slot is in use: the selection has begun and the bin is not enabled.
InUse == phase # "start" /\ bin \in Bins /\ bin \notin enabled

\* Scorer is Slot(bin), with the same constants.
LEMMA ScorerAssumptions ==
  Scorer!FeatureSetAssumption /\ Scorer!CmiAssumption /\ Scorer!EvalStepCountAssumption
  <1>1. Scorer!FeatureSetAssumption
    BY FeatureSetAssumption DEF Scorer!FeatureSetAssumption, FeatureSetAssumption
  <1>2. Scorer!Bins = Bins /\ Scorer!ResetValue = ResetValue
    BY DEF Scorer!Bins, Bins, Scorer!AllBinIndexes, AllBinIndexes, Scorer!ResetValue, ResetValue
  <1>3. Scorer!CmiAssumption
    BY <1>2, Zenon, CmiAssumption DEF Scorer!CmiAssumption, CmiAssumption
  <1>4. Scorer!EvalStepCountAssumption
    BY EvalStepCountAssumption DEF Scorer!EvalStepCountAssumption
  <1> QED BY <1>1, <1>3, <1>4

\* The two have the same bins and features,
LEMMA ScorerBins ==
  /\ Scorer!Bins = Slot(bin)!Bins
  /\ Scorer!AllFeatureIndexes(FeatureSet) = Slot(bin)!AllFeatureIndexes(FeatureSet)
  BY DEF Slot!Bins, Scorer!Bins, Slot!AllBinIndexes, Scorer!AllBinIndexes, Slot!AllFeatureIndexes,
         Scorer!AllFeatureIndexes, Slot!GetFeatureCount, Scorer!GetFeatureCount

\* the operators of the prologue
LEMMA ScorerPrologue ==
  /\ \A v, n, x : Scorer!Resize(v, n, x) = Resize(v, n, x)
  /\ \A S, n : Scorer!StepCountFor(S, n) = StepCountFor(S, n)
  /\ \A S, n : Scorer!NotEnoughBins(S, n) <=> NotEnoughBins(S, n)
  /\ Scorer!UnsetMax = UnsetMax /\ Scorer!UnsetMin = UnsetMin
  <1>1. /\ \A v, n, x : Scorer!Resize(v, n, x) = Resize(v, n, x)
        /\ Scorer!UnsetMax = UnsetMax /\ Scorer!UnsetMin = UnsetMin
    BY DEF Scorer!Resize, Resize, Scorer!UnsetMax, UnsetMax, Scorer!UnsetMin, UnsetMin
  <1>2. \A S : Scorer!Cardinality(S) = Cardinality(S)
    BY DEF Scorer!Cardinality, Cardinality
  <1>3. /\ \A S, n : Scorer!StepCountFor(S, n) = StepCountFor(S, n)
        /\ \A S, n : Scorer!NotEnoughBins(S, n) <=> NotEnoughBins(S, n)
    BY <1>2 DEF Scorer!StepCountFor, StepCountFor, Scorer!NotEnoughBins, NotEnoughBins
  <1> QED BY <1>1, <1>3

\* and the operators of the two loops.
LEMMA ScorerElements ==
  /\ \A p, S, C, b : Scorer!BinValue(p, S, C, b) = BinValue(p, S, C, b)
  /\ \A p, S, C, D, b : Scorer!IsMaxElementBy(p, S, C, D, b) <=> IsMaxElementBy(p, S, C, D, b)
  /\ \A p, S, C, D, b : Scorer!IsMinElementBy(p, S, C, D, b) <=> IsMinElementBy(p, S, C, D, b)
  /\ \A D, v, k : Scorer!MaxCandidates(D, v, k) = MaxCandidates(D, v, k)
  <1>1. /\ \A p, S, C, b : Scorer!BinValue(p, S, C, b) = BinValue(p, S, C, b)
        /\ \A p, S, C, D, b : Scorer!IsMaxElementBy(p, S, C, D, b) <=> IsMaxElementBy(p, S, C, D, b)
        /\ \A p, S, C, D, b : Scorer!IsMinElementBy(p, S, C, D, b) <=> IsMinElementBy(p, S, C, D, b)
    BY DEF Scorer!BinValue, BinValue, Scorer!IsMaxElementBy, IsMaxElementBy,
           Scorer!IsMinElementBy, IsMinElementBy
  <1>2. \A D, v, k : Scorer!MaxCandidates(D, v, k) = MaxCandidates(D, v, k)
    BY DEF Scorer!MaxCandidates, MaxCandidates, Scorer!BinsBefore, BinsBefore
  <1> QED BY <1>1, <1>2

\* What an iteration of either loop stores is the same in both instances.
LEMMA ScorerSteps ==
  /\ \A v, k, b, c : Scorer!MaxStepMax(v, k, b, c) = MaxStepMax(v, k, b, c)
  /\ \A v, u, k, c : Scorer!MaxStepMin(v, u, k, c) = MaxStepMin(v, u, k, c)
  /\ \A v, k, c, D, E : Scorer!MaxStepToProcess(v, k, c, D, E) = MaxStepToProcess(v, k, c, D, E)
  /\ \A v, k, b, c : Scorer!MinStepMin(v, k, b, c) = MinStepMin(v, k, b, c)
  /\ \A v, k, c, D, E, b : Scorer!MinStepToProcess(v, k, c, D, E, b) = MinStepToProcess(v, k, c, D, E, b)
  /\ \A v, k, S : Scorer!MinStepSecond(v, k, S) = MinStepSecond(v, k, S)
  <1>1. \A v, k, x, y : Scorer!StoreAndReset(v, k, x, y) = StoreAndReset(v, k, x, y)
    BY DEF Scorer!StoreAndReset, StoreAndReset
  <1>2. \A v, k, y : Scorer!ResetAfter(v, k, y) = ResetAfter(v, k, y)
    BY DEF Scorer!ResetAfter, ResetAfter
  <1>3. Scorer!UnsetMax = UnsetMax /\ Scorer!ResetMin = ResetMin
    BY DEF Scorer!UnsetMax, UnsetMax, Scorer!ResetMin, ResetMin, Scorer!ResetValue, ResetValue
  <1>4. /\ \A v, k, b, c : Scorer!MaxStepMax(v, k, b, c) = MaxStepMax(v, k, b, c)
        /\ \A v, u, k, c : Scorer!MaxStepMin(v, u, k, c) = MaxStepMin(v, u, k, c)
        /\ \A v, k, c, D, E : Scorer!MaxStepToProcess(v, k, c, D, E) = MaxStepToProcess(v, k, c, D, E)
    BY <1>1, <1>2, <1>3 DEF Scorer!MaxStepMax, MaxStepMax, Scorer!MaxStepMin, MaxStepMin,
           Scorer!MaxStepToProcess, MaxStepToProcess, Scorer!MaxImproves, MaxImproves
  <1>5. /\ \A v, k, b, c : Scorer!MinStepMin(v, k, b, c) = MinStepMin(v, k, b, c)
        /\ \A v, k, c, D, E, b :
             Scorer!MinStepToProcess(v, k, c, D, E, b) = MinStepToProcess(v, k, c, D, E, b)
        /\ \A v, k, S : Scorer!MinStepSecond(v, k, S) = MinStepSecond(v, k, S)
    BY <1>1, <1>3 DEF Scorer!MinStepMin, MinStepMin, Scorer!MinStepToProcess, MinStepToProcess,
           Scorer!MinImproves, MinImproves, Scorer!MinStepSecond, MinStepSecond
  <1> QED BY <1>4, <1>5

\* They have the same initial states
LEMMA ScorerInit == Slot(bin)!Init => Scorer!Init
  BY DEF Slot!Init, Scorer!Init, Slot!Bins, Scorer!Bins, Slot!AllBinIndexes, Scorer!AllBinIndexes,
         Slot!AllFeatureIndexes, Scorer!AllFeatureIndexes, Slot!GetFeatureCount, Scorer!GetFeatureCount,
         Slot!FeatureBins, Scorer!FeatureBins, Slot!GetFeatureBinIndexes, Scorer!GetFeatureBinIndexes,
         Slot!SetFeatureEnabled, Scorer!SetFeatureEnabled, Slot!DisableAll, Scorer!DisableAll,
         Slot!NewBackground, Scorer!NewBackground, Slot!EmptyVector, Scorer!EmptyVector,
         Slot!UnsetMax, Scorer!UnsetMax

\* and the steps.
LEMMA ScorerBegin == Slot(bin)!Begin => Scorer!Begin
  <1> SUFFICES ASSUME Slot(bin)!Begin PROVE Scorer!Begin
    OBVIOUS
  <1>1. PICK n : n = StepCountFor(enabled, EvalStepCount)
    OBVIOUS
  <1>2. /\ Slot(bin)!StepCountFor(enabled, EvalStepCount) = n
        /\ Scorer!StepCountFor(enabled, EvalStepCount) = n
    BY <1>1, SlotPrologue, ScorerPrologue
  <1>3. /\ Slot(bin)!SetBinEnabled(Slot(bin)!Background, bin, TRUE).enabled = enabled \cup {bin}
        /\ Scorer!SetBinEnabled(Scorer!Background, bin, TRUE).enabled = enabled \cup {bin}
        /\ Slot(bin)!LastEnabled(Slot(bin)!Background).enabled = last
        /\ Scorer!LastEnabled(Scorer!Background).enabled = last
    BY DEF Slot!SetBinEnabled, Slot!Background, Slot!LastEnabled,
           Scorer!SetBinEnabled, Scorer!Background, Scorer!LastEnabled
  <1>4. /\ ~Slot(bin)!NotEnoughBins(enabled \cup {bin}, n)
        /\ slots'[bin].max = Slot(bin)!Resize(slots[bin].max, n - 1, Slot(bin)!UnsetMax)
        /\ slots'[bin].min = Slot(bin)!Resize(slots[bin].min, n, Slot(bin)!UnsetMin)
    BY <1>2, <1>3 DEF Slot!Begin
  <1>5. /\ ~Scorer!NotEnoughBins(enabled \cup {bin}, n)
        /\ slots'[bin].max = Scorer!Resize(slots[bin].max, n - 1, Scorer!UnsetMax)
        /\ slots'[bin].min = Scorer!Resize(slots[bin].min, n, Scorer!UnsetMin)
    BY <1>4, SlotPrologue, SlotSentinels, ScorerPrologue
  <1>6. UNCHANGED <<Scorer!input, Scorer!selection>>
    BY DEF Slot!Begin, Slot!input, Scorer!input, Slot!selection, Scorer!selection
  <1> QED BY <1>2, <1>3, <1>5, <1>6 DEF Slot!Begin, Scorer!Begin

\* MaxStep of the slot is MaxStep of the scorer.
LEMMA ScorerMaxStep == ASSUME NEW b, Slot(bin)!MaxStep(b) PROVE Scorer!MaxStep(b)
  <1>1. PICK v : v = BinValue(pool, calls[bin].second, calls[bin].condition, b)
    OBVIOUS
  <1>2. /\ Slot(bin)!BinValue(pool, calls[bin].second, calls[bin].condition, b) = v
        /\ Scorer!BinValue(pool, calls[bin].second, calls[bin].condition, b) = v
    BY <1>1, SlotElements, ScorerElements
  <1>3. /\ calls[bin].pc = "max" /\ calls[bin].step < calls[bin].stepCount - 1
        /\ Slot(bin)!IsMaxElementBy(pool, calls[bin].second, calls[bin].condition,
             Slot(bin)!MaxCandidates(calls[bin].toProcess, slots[bin].max, calls[bin].step), b)
        /\ slots'[bin].max = Slot(bin)!MaxStepMax(slots[bin].max, calls[bin].step, b, v)
        /\ slots'[bin].min = Slot(bin)!MaxStepMin(slots[bin].max, slots[bin].min, calls[bin].step, v)
        /\ calls'[bin].toProcess = Slot(bin)!MaxStepToProcess(slots[bin].max, calls[bin].step, v,
                                     calls[bin].toProcess, calls[bin].background)
    BY <1>2 DEF Slot!MaxStep
  <1>4. Scorer!IsMaxElementBy(pool, calls[bin].second, calls[bin].condition,
          Scorer!MaxCandidates(calls[bin].toProcess, slots[bin].max, calls[bin].step), b)
    BY <1>3, SlotElements, ScorerElements
  <1>5. /\ slots'[bin].max = Scorer!MaxStepMax(slots[bin].max, calls[bin].step, b, v)
        /\ slots'[bin].min = Scorer!MaxStepMin(slots[bin].max, slots[bin].min, calls[bin].step, v)
        /\ calls'[bin].toProcess = Scorer!MaxStepToProcess(slots[bin].max, calls[bin].step, v,
                                     calls[bin].toProcess, calls[bin].background)
    BY <1>3, SlotSteps, ScorerSteps
  <1>6. UNCHANGED <<Scorer!input, Scorer!selection>>
    BY DEF Slot!MaxStep, Slot!input, Scorer!input, Slot!selection, Scorer!selection
  <1> QED BY <1>2, <1>3, <1>4, <1>5, <1>6 DEF Slot!MaxStep, Scorer!MaxStep

\* StartMin of the slot is StartMin of the scorer.
LEMMA ScorerStartMin == Slot(bin)!StartMin => Scorer!StartMin
  BY DEF Slot!StartMin, Scorer!StartMin, Slot!input, Scorer!input, Slot!selection,
         Scorer!selection, Slot!slot, Scorer!slot

\* MinStep of the slot is MinStep of the scorer.
LEMMA ScorerMinStep == ASSUME NEW b, Slot(bin)!MinStep(b) PROVE Scorer!MinStep(b)
  <1>1. PICK v : v = BinValue(pool, calls[bin].second, calls[bin].condition, b)
    OBVIOUS
  <1>2. /\ Slot(bin)!BinValue(pool, calls[bin].second, calls[bin].condition, b) = v
        /\ Scorer!BinValue(pool, calls[bin].second, calls[bin].condition, b) = v
    BY <1>1, SlotElements, ScorerElements
  <1>3. /\ calls[bin].pc = "min" /\ calls[bin].step < calls[bin].stepCount
        /\ Slot(bin)!IsMinElementBy(pool, calls[bin].second, calls[bin].condition,
                                    calls[bin].toProcess, b)
        /\ slots'[bin].min = Slot(bin)!MinStepMin(slots[bin].min, calls[bin].step, b, v)
        /\ calls'[bin].toProcess = Slot(bin)!MinStepToProcess(slots[bin].min, calls[bin].step, v,
             calls[bin].toProcess, calls[bin].background, slots'[bin].min[calls[bin].step].bin)
        /\ calls'[bin].second = Slot(bin)!MinStepSecond(slots[bin].max, calls[bin].step, calls[bin].second)
    BY <1>2 DEF Slot!MinStep
  <1>4. Scorer!IsMinElementBy(pool, calls[bin].second, calls[bin].condition, calls[bin].toProcess, b)
    BY <1>3, SlotElements, ScorerElements
  <1>5. slots'[bin].min = Scorer!MinStepMin(slots[bin].min, calls[bin].step, b, v)
    BY <1>3, SlotSteps, ScorerSteps
  <1>6. calls'[bin].toProcess = Scorer!MinStepToProcess(slots[bin].min, calls[bin].step, v,
          calls[bin].toProcess, calls[bin].background, slots'[bin].min[calls[bin].step].bin)
    BY <1>3, SlotSteps, ScorerSteps
  <1>7. calls'[bin].second = Scorer!MinStepSecond(slots[bin].max, calls[bin].step, calls[bin].second)
    BY <1>3, SlotSteps, ScorerSteps
  <1>8. UNCHANGED <<Scorer!input, Scorer!selection>>
    BY DEF Slot!MinStep, Slot!input, Scorer!input, Slot!selection, Scorer!selection
  <1> QED BY <1>2, <1>3, <1>4, <1>5, <1>6, <1>7, <1>8 DEF Slot!MinStep, Scorer!MinStep

\* Finish of the slot is Finish of the scorer.
LEMMA ScorerFinish == Slot(bin)!Finish => Scorer!Finish
  BY DEF Slot!Finish, Scorer!Finish, Slot!input, Scorer!input, Slot!selection,
         Scorer!selection, Slot!locals, Scorer!locals

\* EnableFeature of the slot is EnableFeature of the scorer.
LEMMA ScorerEnableFeature == ASSUME NEW f, Slot(bin)!EnableFeature(f) PROVE Scorer!EnableFeature(f)
  BY DEF Slot!EnableFeature, Scorer!EnableFeature, Slot!Background, Scorer!Background,
         Slot!SetFeatureEnabled, Scorer!SetFeatureEnabled, Slot!FeatureBins, Scorer!FeatureBins,
         Slot!GetFeatureBinIndexes, Scorer!GetFeatureBinIndexes, Slot!GetFeatureCount,
         Scorer!GetFeatureCount, Slot!input, Scorer!input, Slot!slot, Scorer!slot, Slot!locals,
         Scorer!locals

\* A step of the slot is a step of Scorer.
LEMMA ScorerNext ==
  ASSUME Slot(bin)!Next \/ UNCHANGED Slot(bin)!vars
  PROVE  [Scorer!Next]_Scorer!vars
  <1>1. CASE UNCHANGED Slot(bin)!vars
    BY <1>1 DEF Slot!vars, Scorer!vars, Slot!input, Scorer!input, Slot!selection, Scorer!selection,
                Slot!slot, Scorer!slot, Slot!locals, Scorer!locals
  <1>2. CASE Slot(bin)!Begin
    BY <1>2, ScorerBegin DEF Scorer!Next, Scorer!Evaluation
  <1>3. CASE \E b \in Slot(bin)!Bins : Slot(bin)!MaxStep(b)
    BY <1>3, ScorerMaxStep, ScorerBins DEF Scorer!Next, Scorer!Evaluation
  <1>4. CASE Slot(bin)!StartMin
    BY <1>4, ScorerStartMin DEF Scorer!Next, Scorer!Evaluation
  <1>5. CASE \E b \in Slot(bin)!Bins : Slot(bin)!MinStep(b)
    BY <1>5, ScorerMinStep, ScorerBins DEF Scorer!Next, Scorer!Evaluation
  <1>6. CASE Slot(bin)!Finish
    BY <1>6, ScorerFinish DEF Scorer!Next, Scorer!Evaluation
  <1>7. CASE \E f \in Slot(bin)!AllFeatureIndexes(FeatureSet) : Slot(bin)!EnableFeature(f)
    BY <1>7, ScorerEnableFeature, ScorerBins DEF Scorer!Next
  <1> QED BY <1>1, <1>2, <1>3, <1>4, <1>5, <1>6, <1>7 DEF Slot!Next, Slot!Evaluation

-----------------------------------------------------------------------------
\* A bin that is enabled stays enabled, and the selection does not start again.
LEMMA BackgroundGrows ==
  ASSUME QueueInv, SelectionInv, Next
  PROVE  phase # "start" => enabled \subseteq enabled'
  <1>1. CASE SelectFirst
    BY <1>1 DEF SelectFirst
  <1>2. CASE SelectNext
    BY <1>2, SelectNextBackground
  <1>3. CASE BeginRound \/ Submit \/ Drain \/ End
    BY <1>3 DEF BeginRound, Submit, Drain, End, bg
  <1>4. ASSUME NEW w \in Workers, Worker(w)
        PROVE  enabled' = enabled
    <2>1. UNCHANGED bg
      BY <1>4, CallStepLeaves DEF Worker, CallStep, Take, Finish, Step
    <2> QED BY <2>1 DEF bg
  <1> QED BY <1>1, <1>2, <1>3, <1>4 DEF Next, Main

\* The slot of every bin that is not enabled keeps the invariant of
\* CachingBinScorer, whatever the other threads do.
THEOREM SlotInvariance == Spec => [](InUse => Scorer!IInv)
  <1> DEFINE I == InUse => Scorer!IInv
  <1>1. Init => I
    BY DEF Init, InUse
  <1>2. Slot(bin)!Init => Scorer!IInv
    BY ScorerInit, ScorerAssumptions, Scorer!InitIInv
  <1>3. (Slot(bin)!Init => Scorer!IInv)'
    BY <1>2, PTL
  <1>4. QueueInv /\ SelectionInv /\ I /\ [Next]_vars => I'
    <2> SUFFICES ASSUME QueueInv, SelectionInv, I, [Next]_vars, InUse'
                 PROVE  Scorer!IInv'
      OBVIOUS
    <2>1. CASE UNCHANGED vars
      <3>1. UNCHANGED <<phase, enabled, pool, bg, ranking>> /\ slots'[bin] = slots[bin] /\ calls'[bin] = calls[bin]
        BY <2>1 DEF vars, main, bg
      <3>2. InUse
        BY <3>1 DEF InUse
      <3>3. UNCHANGED Slot(bin)!vars
        BY <3>1, OtherSlots
      <3>4. [Scorer!Next]_Scorer!vars
        BY <3>3, ScorerNext
      <3> QED BY <3>2, <3>4, ScorerAssumptions, Scorer!NextIInv
    <2>2. CASE Next /\ phase = "start"
      BY <1>3, <2>2, SlotNext DEF InUse
    <2>3. CASE Next /\ phase # "start"
      <3>1. InUse
        BY <2>3, BackgroundGrows DEF InUse
      <3>2. Slot(bin)!Next \/ UNCHANGED Slot(bin)!vars
        BY <2>3, SlotNext DEF InUse
      <3>3. [Scorer!Next]_Scorer!vars
        BY <3>2, ScorerNext
      <3> QED BY <3>1, <3>3, ScorerAssumptions, Scorer!NextIInv
    <2> QED BY <2>1, <2>2, <2>3
  <1> QED BY <1>1, <1>4, QueueInvariance, SelectionInvariance, PTL DEF Spec

\* No check of Evaluate can fail in any thread, no bin is used twice, no cached
\* value is stale when Evaluate returns, and while the number of steps does not
\* grow the result is that of a scorer without a cache.
THEOREM EverySlotIsSound ==
  Spec => [](InUse => /\ Scorer!ChecksHold /\ Scorer!HelpersDistinct
                      /\ Scorer!CacheCurrent /\ Scorer!GreedyUnlessGrown)
  <1>1. Scorer!IInv => /\ Scorer!ChecksHold /\ Scorer!HelpersDistinct
                       /\ Scorer!CacheCurrent /\ Scorer!GreedyUnlessGrown
    BY ScorerAssumptions, Scorer!ChecksFromIInv, Scorer!HelpersFromIInv, Scorer!CacheFromIInv,
       Scorer!GreedyFromIInv
  <1> QED BY <1>1, SlotInvariance, PTL

\* The scores the main thread compares are current: when it collects them, the
\* score of every bin it can choose is the value of the last minimizing step,
\* computed from the helpers and the bins of the steps before it.
ScoresCurrent ==
  phase = "pick" /\ bin \in Bins /\ bin \notin enabled =>
    LET s == slots[bin]
        n == calls[bin].stepCount
    IN  /\ \A k \in DOMAIN s.min :
             /\ s.min[k].bin \in enabled
             /\ s.min[k].cmi = Cmi(pool, {bin} \cup BinsBefore(s.max, k),
                                   BinsBefore(s.min, k) \cup {s.min[k].bin})
        /\ s.score = s.min[n - 1].cmi

\* SelectNext never compares a score that an earlier background left in the
\* cache, for every number of threads and every interleaving.
THEOREM CollectedScoresAreCurrent == Spec => []ScoresCurrent
  <1>1. QueueInv /\ SelectionInv /\ (InUse => Scorer!CacheCurrent) => ScoresCurrent
    <2> SUFFICES ASSUME QueueInv, SelectionInv, InUse => Scorer!CacheCurrent,
                        phase = "pick", bin \in Bins, bin \notin enabled
                 PROVE  ScoresCurrent
      BY DEF ScoresCurrent
    <2>1. calls[bin].pc = "done" /\ Scorer!CacheCurrent
      BY AllDone DEF InUse
    <2>2. \A v, k : Scorer!BinsBefore(v, k) = BinsBefore(v, k)
      BY DEF Scorer!BinsBefore, BinsBefore
    <2>3. \A k \in DOMAIN slots[bin].min :
            /\ slots[bin].min[k].bin \in enabled
            /\ slots[bin].min[k].cmi
                 = Scorer!MinValue(pool, bin, slots[bin].max, slots[bin].min, k, slots[bin].min[k].bin)
      BY <2>1 DEF Scorer!CacheCurrent
    <2>4. slots[bin].score = slots[bin].min[calls[bin].stepCount - 1].cmi
      BY <2>1 DEF Scorer!CacheCurrent
    <2>5. \A mx, mn, k, b : Scorer!MinValue(pool, bin, mx, mn, k, b)
            = Cmi(pool, {bin} \cup BinsBefore(mx, k), BinsBefore(mn, k) \cup {b})
      BY <2>2 DEF Scorer!MinValue
    <2> QED BY <2>3, <2>4, <2>5 DEF ScoresCurrent
  <1>2. (InUse => /\ Scorer!ChecksHold /\ Scorer!HelpersDistinct
                  /\ Scorer!CacheCurrent /\ Scorer!GreedyUnlessGrown)
          => (InUse => Scorer!CacheCurrent)
    OBVIOUS
  <1> QED BY <1>1, <1>2, EverySlotIsSound, QueueInvariance, SelectionInvariance, PTL

-----------------------------------------------------------------------------
(***************************************************************************)
(* GetCmimScore while the features enabled are the first ones.             *)
(***************************************************************************)

\* ParallelMinElementBy returns the position, from 0, of a smallest value.
LEMMA FirstMinimumIsPosition ==
  ASSUME NEW n \in Nat \ {0}, NEW values \in [1 .. n -> Int]
  PROVE  /\ FirstMinimum(values) \in 0 .. (n - 1)
         /\ \A j \in 1 .. n : values[FirstMinimum(values) + 1] <= values[j]
  <1> DEFINE V == {values[i] : i \in 1 .. n}
             First(i) == \A j \in 1 .. n : values[i] < values[j] \/ (values[i] = values[j] /\ i <= j)
  <1>1. IsFiniteSet(1 .. n)
    BY FS_Interval
  <1>2. values \in Surjection(1 .. n, V)
    BY DEF Surjection
  <1>3. V \in SUBSET Int /\ IsFiniteSet(V) /\ V # {}
    <2>1. IsFiniteSet(V)
      BY <1>1, <1>2, FS_Surjection
    <2>2. values[1] \in V
      OBVIOUS
    <2> QED BY <2>1, <2>2
  <1>4. PICK m \in V : \A v \in V : m <= v
    BY <1>3, Extremes
  <1> DEFINE P == {i \in 1 .. n : values[i] = m}
  <1>5. P \in SUBSET Int /\ IsFiniteSet(P) /\ P # {}
    <2>1. P \in SUBSET (1 .. n)
      OBVIOUS
    <2>2. IsFiniteSet(P)
      BY <1>1, <2>1, FS_Subset
    <2> QED BY <1>4, <2>2
  <1>6. PICK i \in P : \A j \in P : i <= j
    BY <1>5, Extremes
  <1>7. i \in 1 .. n /\ First(i)
    <2>1. \A j \in 1 .. n : values[j] \in V /\ values[j] \in Int
      OBVIOUS
    <2>2. m \in Int /\ values[i] = m /\ i \in 1 .. n
      BY <1>3, <1>6
    <2>3. ASSUME NEW j \in 1 .. n
          PROVE  m < values[j] \/ (m = values[j] /\ i <= j)
      <3>1. m <= values[j] /\ values[j] \in Int
        BY <1>4, <2>1
      <3>2. values[j] = m => j \in P
        OBVIOUS
      <3> HIDE DEF P, V
      <3> QED BY <1>6, <2>2, <3>1, <3>2
    <2> QED BY <2>2, <2>3
  <1>8. FirstMinimum(values) = (CHOOSE k \in 1 .. n : First(k)) - 1
    BY DEF FirstMinimum
  <1>9. PICK k : k = CHOOSE x \in 1 .. n : First(x)
    OBVIOUS
  <1>10. k \in 1 .. n /\ First(k)
    BY <1>7, <1>9
  <1>11. FirstMinimum(values) = k - 1 /\ k - 1 \in 0 .. (n - 1) /\ (k - 1) + 1 = k
    <2>1. FirstMinimum(values) = k - 1
      BY <1>8, <1>9
    <2>2. k - 1 \in 0 .. (n - 1) /\ (k - 1) + 1 = k
      BY <1>10
    <2> QED BY <2>1, <2>2
  <1>12. \A j \in 1 .. n : values[k] <= values[j]
    BY <1>10
  <1> QED BY <1>11, <1>12

\* The numbers 0, 1, ... in order: position i holds i - 1.
LEMMA AscendingFromZero ==
  ASSUME NEW n \in Nat
  PROVE  Ascending(0 .. (n - 1)) = [i \in 1 .. n |-> i - 1]
  <1> DEFINE S == 0 .. (n - 1)
  <1>1. IsFiniteSet(S) /\ Cardinality(S) = n /\ S \in SUBSET Int
    BY FS_Interval
  <1>2. \A x \in S : Rank(S, x) = x + 1
    <2> SUFFICES ASSUME NEW x \in S
                 PROVE  Rank(S, x) = x + 1
      OBVIOUS
    <2>1. {y \in S : y <= x} = 0 .. x
      OBVIOUS
    <2>2. Cardinality(0 .. x) = x + 1
      BY FS_Interval
    <2> QED BY <2>1, <2>2 DEF Rank
  <1>3. Ascending(S) = [i \in 1 .. n |-> CHOOSE x \in S : Rank(S, x) = i]
    BY <1>1 DEF Ascending, Rank
  <1>4. ASSUME NEW i \in 1 .. n
        PROVE  (CHOOSE x \in S : Rank(S, x) = i) = i - 1
    <2>1. i - 1 \in S /\ (i - 1) + 1 = i
      OBVIOUS
    <2>2. \A x \in S : x + 1 = i => x = i - 1
      OBVIOUS
    <2> HIDE DEF S
    <2>3. \E x \in S : Rank(S, x) = i
      BY <1>2, <2>1
    <2>4. \A x \in S : Rank(S, x) = i => x = i - 1
      BY <1>2, <2>2
    <2> QED BY <2>3, <2>4
  <1> QED BY <1>3, <1>4

\* Without a feature that is not enabled, the same features are enabled.
LEMMA OtherFeaturesStay ==
  ASSUME SelectionInv, NEW f \in AllFeatureIndexes(FeatureSet),
         f \notin EnabledFeatureIndexes(FeatureSet, Background)
  PROVE  EnabledFeatureIndexes(FeatureSet, SetFeatureEnabled(FeatureSet, Background, f, FALSE))
           = EnabledFeatureIndexes(FeatureSet, Background)
  <1>1. SetFeatureEnabled(FeatureSet, Background, f, FALSE).enabled = enabled \ FeatureBins(f)
    BY DEF SetFeatureEnabled, Background, FeatureBins
  <1>2. /\ EnabledFeatureIndexes(FeatureSet, SetFeatureEnabled(FeatureSet, Background, f, FALSE))
             = {g \in AllFeatureIndexes(FeatureSet) : FeatureBins(g) \subseteq enabled \ FeatureBins(f)}
        /\ EnabledFeatureIndexes(FeatureSet, Background)
             = {g \in AllFeatureIndexes(FeatureSet) : FeatureBins(g) \subseteq enabled}
    BY <1>1 DEF EnabledFeatureIndexes, IsFeatureEnabled, FeatureBins, Background
  <1>3. ASSUME NEW g \in AllFeatureIndexes(FeatureSet), FeatureBins(g) \subseteq enabled
        PROVE  FeatureBins(g) \subseteq enabled \ FeatureBins(f)
    <2>1. g # f
      BY <1>2, <1>3
    <2>2. FeatureBins(g) \subseteq Bins
      BY FeatureRange
    <2>3. \A b \in FeatureBins(g) : b \notin FeatureBins(f)
      BY <2>1, <2>2, FeaturesDisjoint
    <2> QED BY <1>3, <2>3
  <1> QED BY <1>2, <1>3

\* After the first round some feature is enabled: the first of the ranking.
LEMMA SomeFeatureEnabled ==
  ASSUME SelectionInv, phase # "start"
  PROVE  EnabledFeatureIndexes(FeatureSet, Background) # {}
  <1>1. PICK F : F = AllFeatureIndexes(FeatureSet)
    OBVIOUS
  <1>2. ranking \in Seq(F) /\ ranking # <<>>
    BY <1>1 DEF SelectionInv, RankingInv
  <1>3. 1 \in DOMAIN ranking /\ ranking[1] \in F
    BY <1>2, EmptySeq, LenProperties, ElementOfSeq
  <1>4. FeatureBins(ranking[1]) \subseteq Bins
    BY <1>1, <1>3, FeatureRange
  <1>5. FeatureBins(ranking[1]) \subseteq enabled
    BY <1>3, <1>4 DEF SelectionInv, RankingInv
  <1> QED BY <1>1, <1>3, <1>5 DEF EnabledFeatureIndexes, IsFeatureEnabled, Background, FeatureBins

\* What GetCmimScore computes is a natural number.
LEMMA KernelType ==
  ASSUME SelectionInv, NEW f \in AllFeatureIndexes(FeatureSet), NEW g \in AllFeatureIndexes(FeatureSet)
  PROVE  CmimKernel(pool, f, g) \in Nat
  <1>1. FeatureBins(f) \in SUBSET Bins /\ FeatureBins(g) \in SUBSET Bins
    BY FeatureRange
  <1>2. pool \in Pools
    BY DEF SelectionInv, RankingInv
  <1> QED BY <1>1, <1>2, CmiAssumption DEF CmimKernel

\* While the enabled features are 0, 1, ..., the position GetCmimScore takes
\* for a feature index is one: the score is the least information over all
\* enabled features, and minimizingFeatureIndex a feature that attains it.
THEOREM CmimScoreIsLeast == Spec => []CmimOfFirstFeatures
  <1>1. SelectionInv => CmimOfFirstFeatures
    <2> DEFINE others == EnabledFeatureIndexes(FeatureSet, Background)
               m == Cardinality(others)
    <2> SUFFICES ASSUME SelectionInv, phase = "pick", NEW f \in AllFeatureIndexes(FeatureSet),
                        f \notin others, others = 0 .. (m - 1)
                 PROVE  LET cmim == GetCmimScore(pool, Background, f)
                        IN  /\ cmim.minimizingFeatureIndex \in others
                            /\ cmim.score = CmimKernel(pool, f, cmim.minimizingFeatureIndex)
                            /\ \A g \in others : cmim.score <= CmimKernel(pool, f, g)
      BY DEF CmimOfFirstFeatures
    <2>1. others \subseteq AllFeatureIndexes(FeatureSet) /\ others # {}
      BY SomeFeatureEnabled DEF EnabledFeatureIndexes
    <2>2. IsFiniteSet(others) /\ m \in Nat \ {0}
      <3>1. IsFiniteSet(AllFeatureIndexes(FeatureSet))
        <4>1. PICK c \in Nat \ {0} : c = Len(FeatureSet.start)
          BY FeatureStart
        <4>2. IsFiniteSet(0 .. (c - 1))
          BY FS_Interval
        <4> QED BY <4>1, <4>2, FeatureStart
      <3>2. IsFiniteSet(others)
        BY <2>1, <3>1, FS_Subset
      <3> QED BY <2>1, <3>2, FS_CardinalityType, FS_EmptySet
    <2> DEFINE range == Ascending(EnabledFeatureIndexes(FeatureSet,
                                    SetFeatureEnabled(FeatureSet, Background, f, FALSE)))
               values == [i \in 1 .. m |-> CmimKernel(pool, f, i - 1)]
               best == FirstMinimum(values)
    <2>3. range = Ascending(others)
      BY OtherFeaturesStay
    <2> HIDE DEF m, others, range
    <2>4. range = [i \in 1 .. m |-> i - 1]
      BY <2>2, <2>3, AscendingFromZero
    <2>5. [i \in DOMAIN range |-> CmimKernel(pool, f, range[i])] = values /\ range # <<>>
      <3>1. DOMAIN range = 1 .. m /\ 1 \in 1 .. m
        BY <2>2, <2>4
      <3>2. range # <<>>
        <4>1. Len(<<>>) = 0 /\ <<>> \in Seq(Nat)
          BY EmptySeq
        <4>2. DOMAIN <<>> = 1 .. 0
          BY <4>1, LenProperties
        <4>3. 1 \notin 1 .. 0
          OBVIOUS
        <4> QED BY <3>1, <4>2, <4>3
      <3>3. \A i \in 1 .. m : range[i] = i - 1
        BY <2>4
      <3> QED BY <3>1, <3>2, <3>3
    <2>6. GetCmimScore(pool, Background, f)
            = [score |-> CmimKernel(pool, f, best), minimizingFeatureIndex |-> best]
      <3> HIDE DEF values
      <3>1. GetCmimScore(pool, Background, f)
              = IF range = <<>> THEN [score |-> 0, minimizingFeatureIndex |-> 0]
                ELSE [score |-> CmimKernel(pool, f, best), minimizingFeatureIndex |-> best]
        BY <2>5 DEF GetCmimScore, range
      <3> QED BY <2>5, <3>1
    <2>7. \A i \in 1 .. m : i - 1 \in others
      BY <2>2
    <2>8. values \in [1 .. m -> Int]
      <3> SUFFICES ASSUME NEW i \in 1 .. m PROVE CmimKernel(pool, f, i - 1) \in Int
        OBVIOUS
      <3>1. CmimKernel(pool, f, i - 1) \in Nat
        BY <2>1, <2>7, KernelType
      <3> QED BY <3>1
    <2>9. best \in 0 .. (m - 1) /\ \A j \in 1 .. m : values[best + 1] <= values[j]
      <3> HIDE DEF values
      <3> QED BY <2>2, <2>8, FirstMinimumIsPosition
    <2>10. values[best + 1] = CmimKernel(pool, f, best)
      <3> HIDE DEF best
      <3>1. best + 1 \in 1 .. m /\ (best + 1) - 1 = best
        BY <2>2, <2>9
      <3> QED BY <3>1
    <2>11. ASSUME NEW g \in others
           PROVE  CmimKernel(pool, f, best) <= CmimKernel(pool, f, g)
      <3> HIDE DEF best
      <3>1. g + 1 \in 1 .. m /\ (g + 1) - 1 = g
        BY <2>2
      <3>2. values[g + 1] = CmimKernel(pool, f, g)
        BY <3>1
      <3> QED BY <2>9, <2>10, <3>1, <3>2
    <2> HIDE DEF best
    <2> QED BY <2>6, <2>9, <2>11
  <1> QED BY <1>1, SelectionInvariance, PTL

-----------------------------------------------------------------------------
(***************************************************************************)
(* The phases of the scorer without a cache.                               *)
(***************************************************************************)

\* The bins of the steps of s before step k.
EarlierBins(s, k) == {s[i].bin : i \in 1 .. (k - 1)}

\* The step that follows those that have used the bins before.
MaxNext(p, D, e, before) ==
  LET best == CHOOSE b \in D : IsMaxElementBy(p, {e}, before, D \ before, b)
  IN  [bin |-> best, cmi |-> BinValue(p, {e}, before, best)]

MinNext(p, D, second, before) ==
  LET best == CHOOSE b \in D : IsMinElementBy(p, second, before, D \ before, b)
  IN  [bin |-> best, cmi |-> BinValue(p, second, before, best)]

SecondOf(e, helpers, k) == {e} \cup {helpers[i].bin : i \in {j \in DOMAIN helpers : j < k}}

NextStep(kind, p, D, e, helpers, k, before) ==
  IF kind = "max" THEN MaxNext(p, D, e, before) ELSE MinNext(p, D, SecondOf(e, helpers, k), before)

\* The steps[k] of a phase of K steps.
IsPhase(kind, p, D, e, helpers, K, c) ==
  c = [k \in 0 .. K |-> IF k = 0 THEN <<>>
                        ELSE Append(c[k - 1], NextStep(kind, p, D, e, helpers, k, BinsOf(c[k - 1])))]

\* There is such a function, for every number of steps.
LEMMA PhaseExists ==
  ASSUME NEW kind, NEW p, NEW D, NEW e, NEW helpers, NEW K \in Nat
  PROVE  \E c : IsPhase(kind, p, D, e, helpers, K, c)
  <1> DEFINE Ext(k, s) == Append(s, NextStep(kind, p, D, e, helpers, k, BinsOf(s)))
             Rec(m, c) == c = [k \in 0 .. m |-> IF k = 0 THEN <<>> ELSE Ext(k, c[k - 1])]
             bad == {m \in 0 .. K : ~\E c : Rec(m, c)}
  <1> HIDE DEF Ext
  <1>1. bad = {}
    <2> SUFFICES ASSUME bad # {} PROVE FALSE
      OBVIOUS
    <2>1. PICK m \in bad : \A x \in bad : m <= x
      <3>1. bad \in SUBSET (0 .. K)
        <4> HIDE DEF Rec
        <4> QED OBVIOUS
      <3> HIDE DEF bad
      <3>2. IsFiniteSet(0 .. K) /\ 0 .. K \in SUBSET Int
        BY FS_Interval
      <3>3. IsFiniteSet(bad) /\ bad \in SUBSET Int
        BY <3>1, <3>2, FS_Subset
      <3> QED BY <3>3, Extremes
    <2>2. m \in 0 .. K /\ ~\E c : Rec(m, c)
      OBVIOUS
    <2>3. CASE m = 0
      <3> DEFINE c == [k \in 0 .. 0 |-> <<>>]
      <3>1. [k \in 0 .. 0 |-> IF k = 0 THEN <<>> ELSE Ext(k, c[k - 1])] = c
        OBVIOUS
      <3> QED BY <2>2, <2>3, <3>1
    <2>4. CASE m # 0
      <3>1. m - 1 \in 0 .. K /\ ~(m <= m - 1) /\ m - 1 \in Nat
        BY <2>2, <2>4
      <3>2. m - 1 \notin bad
        BY <2>1, <3>1
      <3>3. PICK c : Rec(m - 1, c)
        BY <3>1, <3>2
      <3> DEFINE d == [k \in 0 .. m |-> IF k = m THEN Ext(m, c[m - 1]) ELSE c[k]]
      <3>4. \A k \in 0 .. (m - 1) : /\ k \in 0 .. m /\ k # m
                                    /\ c[k] = IF k = 0 THEN <<>> ELSE Ext(k, c[k - 1])
        <4> HIDE DEF bad, d
        <4>1. \A k \in 0 .. (m - 1) : k \in 0 .. m /\ k # m
          <5> HIDE DEF Rec
          <5> QED BY <2>2
        <4>2. c = [k \in 0 .. (m - 1) |-> IF k = 0 THEN <<>> ELSE Ext(k, c[k - 1])]
          BY <3>3
        <4>3. \A k \in 0 .. (m - 1) : c[k] = IF k = 0 THEN <<>> ELSE Ext(k, c[k - 1])
          BY ONLY <4>2
        <4> QED BY <4>1, <4>3
      <3>5. ASSUME NEW k \in 0 .. m
            PROVE  d[k] = IF k = 0 THEN <<>> ELSE Ext(k, d[k - 1])
        <4>1. CASE k = m
          <5>1. m - 1 \in 0 .. m /\ m - 1 # m
            BY <2>2, <2>4
          <5>2. d[m - 1] = c[m - 1]
            BY <5>1
          <5> QED BY <2>4, <4>1, <5>2
        <4>2. CASE k # m
          <5>1. k \in 0 .. (m - 1)
            BY <2>2, <4>2
          <5>2. d[k] = c[k]
            BY <4>2
          <5>3. k # 0 => k - 1 \in 0 .. m /\ k - 1 # m
            BY <2>2, <5>1
          <5>4. k # 0 => d[k - 1] = c[k - 1]
            BY <5>3
          <5> HIDE DEF d
          <5> QED BY <3>4, <5>1, <5>2, <5>4
        <4> QED BY <4>1, <4>2
      <3>6. Rec(m, d)
        <4>1. d = [k \in 0 .. m |-> d[k]]
          OBVIOUS
        <4> HIDE DEF d
        <4> QED BY <3>5, <4>1
      <3> QED BY <2>2, <3>6
    <2> QED BY <2>3, <2>4
  <1>2. PICK c : Rec(K, c)
    <2>1. K \in 0 .. K
      OBVIOUS
    <2> HIDE DEF Rec
    <2> QED BY <1>1, <2>1
  <1>3. IsPhase(kind, p, D, e, helpers, K, c)
    BY <1>2 DEF IsPhase, Ext
  <1> QED BY <1>3

\* A phase adds one step after the other, each chosen after the ones before it.
LEMMA PhaseSteps ==
  ASSUME NEW kind, NEW p, NEW D, NEW e, NEW helpers, NEW K \in Nat,
         NEW c, IsPhase(kind, p, D, e, helpers, K, c)
  PROVE  /\ DOMAIN c[K] = 1 .. K /\ Len(c[K]) = K
         /\ \A k \in 1 .. K : c[K][k] = NextStep(kind, p, D, e, helpers, k, EarlierBins(c[K], k))
  <1> DEFINE t == [k \in 1 .. K |-> NextStep(kind, p, D, e, helpers, k, BinsOf(c[k - 1]))]
             T == {t[k] : k \in 1 .. K}
             is(k) == c[k] = [i \in 1 .. k |-> t[i]]
             bad == {k \in 0 .. K : ~is(k)}
  <1>1. c[0] = <<>> /\ \A k \in 1 .. K : c[k] = Append(c[k - 1], t[k])
    <2>1. \A k \in 0 .. K :
            c[k] = IF k = 0 THEN <<>>
                   ELSE Append(c[k - 1], NextStep(kind, p, D, e, helpers, k, BinsOf(c[k - 1])))
      BY DEF IsPhase
    <2>2. 0 \in 0 .. K /\ \A k \in 1 .. K : k \in 0 .. K /\ k # 0
      OBVIOUS
    <2> QED BY <2>1, <2>2
  <1>2. \A k \in 1 .. K : t[k] \in T
    OBVIOUS
  <1>0. \A k \in 1 .. K : t[k] = NextStep(kind, p, D, e, helpers, k, BinsOf(c[k - 1]))
    OBVIOUS
  <1> HIDE DEF t, T
  <1>3. \A k \in 0 .. K : [i \in 1 .. k |-> t[i]] \in Seq(T) /\ Len([i \in 1 .. k |-> t[i]]) = k
    <2> SUFFICES ASSUME NEW k \in 0 .. K
                 PROVE  [i \in 1 .. k |-> t[i]] \in Seq(T) /\ Len([i \in 1 .. k |-> t[i]]) = k
      OBVIOUS
    <2> DEFINE s == [i \in 1 .. k |-> t[i]]
    <2>1. s \in [1 .. k -> T] /\ k \in Nat
      BY <1>2
    <2> HIDE DEF s
    <2>2. s \in Seq(T)
      BY <2>1, SeqDef
    <2>3. Len(s) = k
      BY <2>1, <2>2, LenProperties
    <2> QED BY <2>2, <2>3 DEF s
  <1>4. bad = {}
    <2> SUFFICES ASSUME bad # {} PROVE FALSE
      OBVIOUS
    <2>1. PICK m \in bad : \A x \in bad : m <= x
      <3>1. bad \in SUBSET (0 .. K)
        <4> HIDE DEF is
        <4> QED OBVIOUS
      <3> HIDE DEF bad
      <3>2. IsFiniteSet(0 .. K) /\ 0 .. K \in SUBSET Int
        BY FS_Interval
      <3>3. IsFiniteSet(bad) /\ bad \in SUBSET Int
        BY <3>1, <3>2, FS_Subset
      <3> QED BY <3>3, Extremes
    <2>2. m \in 0 .. K /\ ~is(m)
      <3> HIDE DEF is
      <3> QED OBVIOUS
    <2>3. CASE m = 0
      <3>1. [i \in 1 .. 0 |-> t[i]] \in Seq(T) /\ Len([i \in 1 .. 0 |-> t[i]]) = 0
        BY <1>3
      <3> DEFINE s == [i \in 1 .. 0 |-> t[i]]
      <3> HIDE DEF s
      <3>2. s = <<>>
        BY <3>1, EmptySeq DEF s
      <3> QED BY <1>1, <2>2, <2>3, <3>2 DEF s
    <2>4. CASE m # 0
      <3>1. m \in 1 .. K /\ m - 1 \in 0 .. K /\ ~(m <= m - 1) /\ (m - 1) + 1 = m
        BY <2>2, <2>4
      <3>2. is(m - 1)
        <4> HIDE DEF is
        <4> QED BY <2>1, <3>1
      <3> DEFINE s == [i \in 1 .. (m - 1) |-> t[i]]
                 u == Append(s, t[m])
                 v == [i \in 1 .. m |-> t[i]]
      <3>3. s \in Seq(T) /\ Len(s) = m - 1 /\ t[m] \in T
        BY <1>2, <1>3, <3>1
      <3>4. \A i \in 1 .. (m - 1) : s[i] = t[i]
        OBVIOUS
      <3>5. c[m] = u
        BY <1>1, <3>1, <3>2
      <3> HIDE DEF s
      <3>6. /\ u \in Seq(T) /\ Len(u) = m
            /\ \A i \in 1 .. (m - 1) : u[i] = s[i]
            /\ u[m] = t[m]
        BY <3>1, <3>3, AppendProperties
      <3>7. v \in Seq(T) /\ Len(v) = m
        BY <1>3, <3>1
      <3>8. \A i \in 1 .. m : v[i] = t[i]
        OBVIOUS
      <3> HIDE DEF u, v
      <3>9. \A i \in 1 .. m : u[i] = v[i]
        <4>1. \A i \in 1 .. m : i = m \/ i \in 1 .. (m - 1)
          BY <3>1
        <4> QED BY <3>4, <3>6, <3>8, <4>1
      <3>10. u = v
        BY <3>6, <3>7, <3>9, SeqEqual
      <3> QED BY <2>2, <3>5, <3>10 DEF v
    <2> QED BY <2>3, <2>4
  <1>5. \A k \in 0 .. K : c[k] = [i \in 1 .. k |-> t[i]]
    BY <1>4
  <1>6. DOMAIN c[K] = 1 .. K /\ Len(c[K]) = K
    <2>1. K \in 0 .. K
      OBVIOUS
    <2>2. c[K] = [i \in 1 .. K |-> t[i]]
      BY <1>5, <2>1
    <2>3. Len(c[K]) = K
      BY <1>3, <2>1, <2>2
    <2> QED BY <2>2, <2>3
  <1>7. ASSUME NEW k \in 1 .. K
        PROVE  c[K][k] = NextStep(kind, p, D, e, helpers, k, EarlierBins(c[K], k))
    <2>1. k \in 0 .. K /\ k - 1 \in 0 .. K /\ K \in 0 .. K /\ \A i \in 1 .. (k - 1) : i \in 1 .. K
      OBVIOUS
    <2>2. c[K][k] = t[k] /\ \A i \in 1 .. (k - 1) : c[K][i] = t[i]
      BY <1>5, <2>1
    <2>3. DOMAIN c[k - 1] = 1 .. (k - 1) /\ \A i \in 1 .. (k - 1) : c[k - 1][i] = t[i]
      BY <1>5, <2>1
    <2>4. BinsOf(c[k - 1]) = EarlierBins(c[K], k)
      BY <2>2, <2>3 DEF BinsOf, EarlierBins
    <2> QED BY <1>0, <2>2, <2>4
  <1> QED BY <1>6, <1>7

\* What DoMaximizePhase returns: every step is chosen after the ones before it.
LEMMA MaxPhase ==
  ASSUME NEW p, NEW D, NEW e, NEW K \in Nat
  PROVE  LET r == DoMaximizePhase(p, D, e, K)
         IN  /\ DOMAIN r = 1 .. K /\ Len(r) = K
             /\ \A k \in 1 .. K : r[k] = MaxNext(p, D, e, EarlierBins(r, k))
  <1> DEFINE P(c) == c = [k \in 0 .. K |->
               IF k = 0 THEN <<>>
               ELSE LET before == BinsOf(c[k - 1])
                        best   == CHOOSE b \in D : IsMaxElementBy(p, {e}, before, D \ before, b)
                    IN  Append(c[k - 1], [bin |-> best, cmi |-> BinValue(p, {e}, before, best)])]
             c == CHOOSE c : P(c)
             r == DoMaximizePhase(p, D, e, K)
  <1>1. ASSUME NEW d
        PROVE  P(d) <=> IsPhase("max", p, D, e, <<>>, K, d)
    <2>1. \A k : NextStep("max", p, D, e, <<>>, k, BinsOf(d[k - 1])) = MaxNext(p, D, e, BinsOf(d[k - 1]))
      BY DEF NextStep
    <2>2. P(d) <=> d = [k \in 0 .. K |-> IF k = 0 THEN <<>>
                       ELSE Append(d[k - 1], MaxNext(p, D, e, BinsOf(d[k - 1])))]
      BY DEF MaxNext
    <2> HIDE DEF P
    <2> QED BY <2>1, <2>2 DEF IsPhase
  <1>2. r = c[K]
    BY DEF DoMaximizePhase
  <1> HIDE DEF P, r
  <1>3. P(c)
    BY <1>1, PhaseExists
  <1> HIDE DEF c
  <1>4. IsPhase("max", p, D, e, <<>>, K, c)
    BY <1>1, <1>3
  <1>5. /\ DOMAIN r = 1 .. K /\ Len(r) = K
        /\ \A k \in 1 .. K : r[k] = NextStep("max", p, D, e, <<>>, k, EarlierBins(r, k))
    <2>1. /\ DOMAIN c[K] = 1 .. K /\ Len(c[K]) = K
          /\ \A k \in 1 .. K : c[K][k] = NextStep("max", p, D, e, <<>>, k, EarlierBins(c[K], k))
      BY <1>4, PhaseSteps
    <2> QED BY <1>2, <2>1
  <1>6. \A k \in 1 .. K : r[k] = MaxNext(p, D, e, EarlierBins(r, k))
    BY <1>5 DEF NextStep
  <1> QED BY <1>5, <1>6 DEF r

\* What DoMinimizePhase returns, whose second variable grows by the helpers.
LEMMA MinPhase ==
  ASSUME NEW p, NEW D, NEW e, NEW helpers, NEW K \in Nat
  PROVE  LET r == DoMinimizePhase(p, D, e, helpers, K)
         IN  /\ DOMAIN r = 1 .. K /\ Len(r) = K
             /\ \A k \in 1 .. K : r[k] = MinNext(p, D, SecondOf(e, helpers, k), EarlierBins(r, k))
  <1> DEFINE sv(k) == {e} \cup {helpers[i].bin : i \in {j \in DOMAIN helpers : j < k}}
             P(c) == c = [k \in 0 .. K |->
               IF k = 0 THEN <<>>
               ELSE LET before == BinsOf(c[k - 1])
                        best   == CHOOSE b \in D : IsMinElementBy(p, sv(k), before, D \ before, b)
                    IN  Append(c[k - 1], [bin |-> best, cmi |-> BinValue(p, sv(k), before, best)])]
             c == CHOOSE c : P(c)
             r == DoMinimizePhase(p, D, e, helpers, K)
  <1>1. ASSUME NEW d
        PROVE  P(d) <=> IsPhase("min", p, D, e, helpers, K, d)
    <2>1. \A k : NextStep("min", p, D, e, helpers, k, BinsOf(d[k - 1]))
                   = MinNext(p, D, SecondOf(e, helpers, k), BinsOf(d[k - 1]))
      BY DEF NextStep
    <2>2. P(d) <=> d = [k \in 0 .. K |-> IF k = 0 THEN <<>>
                       ELSE Append(d[k - 1], MinNext(p, D, SecondOf(e, helpers, k), BinsOf(d[k - 1])))]
      BY DEF MinNext, SecondOf
    <2> HIDE DEF P
    <2> QED BY <2>1, <2>2 DEF IsPhase
  <1>2. r = c[K]
    BY DEF DoMinimizePhase
  <1> HIDE DEF P, r
  <1>3. P(c)
    BY <1>1, PhaseExists
  <1> HIDE DEF c
  <1>4. IsPhase("min", p, D, e, helpers, K, c)
    BY <1>1, <1>3
  <1>5. /\ DOMAIN r = 1 .. K /\ Len(r) = K
        /\ \A k \in 1 .. K : r[k] = NextStep("min", p, D, e, helpers, k, EarlierBins(r, k))
    <2>1. /\ DOMAIN c[K] = 1 .. K /\ Len(c[K]) = K
          /\ \A k \in 1 .. K : c[K][k] = NextStep("min", p, D, e, helpers, k, EarlierBins(c[K], k))
      BY <1>4, PhaseSteps
    <2> QED BY <1>2, <2>1
  <1>6. \A k \in 1 .. K : r[k] = MinNext(p, D, SecondOf(e, helpers, k), EarlierBins(r, k))
    BY <1>5 DEF NextStep
  <1> QED BY <1>5, <1>6 DEF r

-----------------------------------------------------------------------------
(***************************************************************************)
(* A vector of best steps is the phase, unless several bins are as good.   *)
(***************************************************************************)

\* Step s is a best one after those that have used the bins before: it has the
\* greatest (least) value among the bins of D that are left.
MaxStepBest(p, D, e, before, s) ==
  /\ s \in StepResults /\ s.bin \in D \ before
  /\ s.cmi = BinValue(p, {e}, before, s.bin)
  /\ \A b \in D \ before : BinValue(p, {e}, before, b) <= s.cmi

MinStepBest(p, D, second, before, s) ==
  /\ s \in StepResults /\ s.bin \in D \ before
  /\ s.cmi = BinValue(p, second, before, s.bin)
  /\ \A b \in D \ before : BinValue(p, second, before, b) >= s.cmi

\* No other bin has the value of step s.
StepAlone(p, D, second, before, s) ==
  \A b \in D \ before : b # s.bin => BinValue(p, second, before, b) # s.cmi

\* The vectors hold best steps.
BestMax(p, D, e, K, mx) ==
  /\ DOMAIN mx = 0 .. (K - 1)
  /\ \A k \in 0 .. (K - 1) : MaxStepBest(p, D, e, BinsBefore(mx, k), mx[k])

BestMin(p, D, e, K, mx, mn) ==
  /\ DOMAIN mn = 0 .. (K - 1)
  /\ \A k \in 0 .. (K - 1) :
       MinStepBest(p, D, {e} \cup BinsBefore(mx, k), BinsBefore(mn, k), mn[k])

\* Among finitely many bins there is a first best one.
LEMMA FirstBest ==
  ASSUME NEW p \in Pools, NEW second \in SUBSET Bins, NEW before \in SUBSET Bins,
         NEW S \in SUBSET Bins, S # {}
  PROVE  /\ \E b \in S : IsMaxElementBy(p, second, before, S, b)
         /\ \E b \in S : IsMinElementBy(p, second, before, S, b)
         /\ \A b \in S : BinValue(p, second, before, b) \in Int
  <1> DEFINE value == [b \in S |-> BinValue(p, second, before, b)]
             V == {value[b] : b \in S}
             at(v) == {b \in S : value[b] = v}
  <1>1. \A b \in S : BinValue(p, second, before, b) \in Int
    <2> SUFFICES ASSUME NEW b \in S PROVE BinValue(p, second, before, b) \in Int
      OBVIOUS
    <2>1. before \cup {b} \in SUBSET Bins
      OBVIOUS
    <2>2. Cmi(p, second, before \cup {b}) \in Nat
      BY <2>1, CmiAssumption
    <2> QED BY <2>2 DEF BinValue
  <1>2. S \in SUBSET Int /\ IsFiniteSet(S)
    BY BinsFinite
  <1>3. V \in SUBSET Int /\ IsFiniteSet(V) /\ V # {}
    <2>1. value \in Surjection(S, V)
      BY DEF Surjection
    <2>2. IsFiniteSet(V)
      BY <1>2, <2>1, FS_Surjection
    <2> QED BY <1>1, <2>2
  <1>4. \A b \in S : value[b] = BinValue(p, second, before, b) /\ value[b] \in V /\ value[b] \in Int
    BY <1>1
  <1>5. ASSUME NEW v \in V
        PROVE  \E b \in at(v) : \A x \in at(v) : b <= x
    <2>1. at(v) \in SUBSET S /\ at(v) # {}
      OBVIOUS
    <2> HIDE DEF at
    <2>2. at(v) \in SUBSET Int /\ IsFiniteSet(at(v))
      BY <1>2, <2>1, FS_Subset
    <2> QED BY <2>1, <2>2, Extremes
  <1> HIDE DEF value, V
  <1>6. \E b \in S : IsMaxElementBy(p, second, before, S, b)
    <2>1. PICK v \in V : \A u \in V : u <= v
      BY <1>3, Extremes
    <2>2. PICK b \in at(v) : \A x \in at(v) : b <= x
      BY <1>5
    <2>3. \A x \in S : value[x] < value[b] \/ (value[x] = value[b] /\ b <= x)
      BY <1>4, <2>1, <2>2
    <2>4. b \in S
      BY <2>2
    <2>5. \A x \in S : \/ BinValue(p, second, before, x) < BinValue(p, second, before, b)
                       \/ BinValue(p, second, before, x) = BinValue(p, second, before, b) /\ b <= x
      BY <1>4, <2>3, <2>4
    <2> QED BY <2>4, <2>5 DEF IsMaxElementBy
  <1>7. \E b \in S : IsMinElementBy(p, second, before, S, b)
    <2>1. PICK v \in V : \A u \in V : v <= u
      BY <1>3, Extremes
    <2>2. PICK b \in at(v) : \A x \in at(v) : b <= x
      BY <1>5
    <2>3. \A x \in S : value[x] > value[b] \/ (value[x] = value[b] /\ b <= x)
      BY <1>4, <2>1, <2>2
    <2>4. b \in S
      BY <2>2
    <2>5. \A x \in S : \/ BinValue(p, second, before, x) > BinValue(p, second, before, b)
                       \/ BinValue(p, second, before, x) = BinValue(p, second, before, b) /\ b <= x
      BY <1>4, <2>3, <2>4
    <2> QED BY <2>4, <2>5 DEF IsMinElementBy
  <1> QED BY <1>1, <1>6, <1>7

\* One maximizing step: if its best value is attained by one bin, this is the bin
\* of every best step.
LEMMA SameMaxStep ==
  ASSUME NEW p \in Pools, NEW D \in SUBSET Bins, NEW e \in Bins, NEW before \in SUBSET Bins,
         NEW s, MaxStepBest(p, D, e, before, s), StepAlone(p, D, {e}, before, MaxNext(p, D, e, before))
  PROVE  MaxNext(p, D, e, before) = s
  <1> DEFINE best == CHOOSE b \in D : IsMaxElementBy(p, {e}, before, D \ before, b)
             value(b) == BinValue(p, {e}, before, b)
  <1>0. /\ s \in StepResults /\ s.bin \in D \ before /\ s.cmi = value(s.bin)
        /\ \A b \in D \ before : value(b) <= s.cmi
        /\ \A b \in D \ before : b # MaxNext(p, D, e, before).bin =>
             value(b) # MaxNext(p, D, e, before).cmi
    BY DEF MaxStepBest, StepAlone
  <1>1. MaxNext(p, D, e, before) = [bin |-> best, cmi |-> value(best)]
    BY DEF MaxNext
  <1>2. {e} \in SUBSET Bins /\ D \ before \in SUBSET Bins /\ D \ before # {}
    BY <1>0
  <1>3. \E b \in D : IsMaxElementBy(p, {e}, before, D \ before, b)
    BY <1>2, FirstBest
  <1>4. best \in D /\ IsMaxElementBy(p, {e}, before, D \ before, best)
    BY <1>3
  <1> HIDE DEF best
  <1>5. best \in D \ before /\ value(s.bin) <= value(best)
    <2>1. \A b \in D \ before : value(b) \in Int
      BY <1>2, FirstBest
    <2> QED BY <1>0, <1>4, <2>1 DEF IsMaxElementBy
  <1>6. value(best) <= s.cmi /\ value(best) \in Int /\ s.cmi \in Int
    <2>1. value(best) \in Int /\ value(s.bin) \in Int
      BY <1>0, <1>2, <1>5, FirstBest
    <2> QED BY <1>0, <1>5, <2>1
  <1>7. value(s.bin) = value(best)
    <2> HIDE DEF value
    <2> QED BY <1>0, <1>5, <1>6
  <1>8. s.bin = best
    <2>1. MaxNext(p, D, e, before).bin = best /\ MaxNext(p, D, e, before).cmi = value(best)
      BY <1>1
    <2>2. s.bin # best => value(s.bin) # value(best)
      BY <1>0, <2>1
    <2> QED BY <1>7, <2>2
  <1>9. s = [bin |-> s.bin, cmi |-> s.cmi]
    BY <1>0 DEF StepResults
  <1> QED BY <1>0, <1>1, <1>7, <1>8, <1>9

\* The same for a minimizing step.
LEMMA SameMinStep ==
  ASSUME NEW p \in Pools, NEW D \in SUBSET Bins, NEW second \in SUBSET Bins, NEW before \in SUBSET Bins,
         NEW s, MinStepBest(p, D, second, before, s),
         StepAlone(p, D, second, before, MinNext(p, D, second, before))
  PROVE  MinNext(p, D, second, before) = s
  <1> DEFINE best == CHOOSE b \in D : IsMinElementBy(p, second, before, D \ before, b)
             value(b) == BinValue(p, second, before, b)
  <1>0. /\ s \in StepResults /\ s.bin \in D \ before /\ s.cmi = value(s.bin)
        /\ \A b \in D \ before : value(b) >= s.cmi
        /\ \A b \in D \ before : b # MinNext(p, D, second, before).bin =>
             value(b) # MinNext(p, D, second, before).cmi
    BY DEF MinStepBest, StepAlone
  <1>1. MinNext(p, D, second, before) = [bin |-> best, cmi |-> value(best)]
    BY DEF MinNext
  <1>2. D \ before \in SUBSET Bins /\ D \ before # {}
    BY <1>0
  <1>3. \E b \in D : IsMinElementBy(p, second, before, D \ before, b)
    BY <1>2, FirstBest
  <1>4. best \in D /\ IsMinElementBy(p, second, before, D \ before, best)
    BY <1>3
  <1> HIDE DEF best
  <1>5. best \in D \ before /\ value(s.bin) >= value(best)
    <2>1. \A b \in D \ before : value(b) \in Int
      BY <1>2, FirstBest
    <2> QED BY <1>0, <1>4, <2>1 DEF IsMinElementBy
  <1>6. value(best) >= s.cmi /\ value(best) \in Int /\ s.cmi \in Int
    <2>1. value(best) \in Int /\ value(s.bin) \in Int
      BY <1>0, <1>2, <1>5, FirstBest
    <2> QED BY <1>0, <1>5, <2>1
  <1>7. value(s.bin) = value(best)
    <2> HIDE DEF value
    <2> QED BY <1>0, <1>5, <1>6
  <1>8. s.bin = best
    <2>1. MinNext(p, D, second, before).bin = best /\ MinNext(p, D, second, before).cmi = value(best)
      BY <1>1
    <2>2. s.bin # best => value(s.bin) # value(best)
      BY <1>0, <2>1
    <2> QED BY <1>7, <2>2
  <1>9. s = [bin |-> s.bin, cmi |-> s.cmi]
    BY <1>0 DEF StepResults
  <1> QED BY <1>0, <1>1, <1>7, <1>8, <1>9

\* Steps that are the same use the same bins; those of a vector count from 0.
LEMMA SameBins ==
  ASSUME NEW n \in Nat, NEW v, DOMAIN v = 0 .. (n - 1), NEW r, NEW k \in 1 .. (n + 1),
         \A i \in 1 .. (k - 1) : r[i] = v[i - 1]
  PROVE  EarlierBins(r, k) = BinsBefore(v, k - 1)
  <1>1. ASSUME NEW i \in 1 .. (k - 1)
        PROVE  r[i].bin \in BinsBefore(v, k - 1)
    <2>1. i - 1 \in DOMAIN v /\ i - 1 < k - 1 /\ r[i] = v[i - 1]
      OBVIOUS
    <2> QED BY <2>1 DEF BinsBefore
  <1>2. ASSUME NEW j \in DOMAIN v, j < k - 1
        PROVE  v[j].bin \in EarlierBins(r, k)
    <2>1. j + 1 \in 1 .. (k - 1) /\ (j + 1) - 1 = j
      BY <1>2
    <2>2. r[j + 1] = v[j]
      BY <2>1
    <2> QED BY <2>1, <2>2 DEF EarlierBins
  <1> QED BY <1>1, <1>2 DEF EarlierBins, BinsBefore

\* No step of the phase r has another bin that is as good.
MaxUncontested(p, D, e, r) ==
  \A k \in DOMAIN r : StepAlone(p, D, {e}, EarlierBins(r, k), r[k])

MinUncontested(p, D, e, helpers, r) ==
  \A k \in DOMAIN r : StepAlone(p, D, {e} \cup EarlierBins(helpers, k), EarlierBins(r, k), r[k])

\* The helpers of a call with K steps, as a vector and as a phase.
SameHelpers(K, mx, helpers) ==
  /\ DOMAIN mx = 0 .. (K - 2) /\ \A k \in DOMAIN mx : mx[k].bin \in Bins
  /\ DOMAIN helpers = 1 .. (K - 1) /\ \A k \in 1 .. (K - 1) : helpers[k] = mx[k - 1]

\* The vector v holds the K steps of the phase r.
HoldsPhase(K, r, v) == \A k \in 1 .. K : r[k] = v[k - 1]

\* Then the maximizing phase
LEMMA SameMaxPhase ==
  ASSUME NEW p \in Pools, NEW D \in SUBSET Bins, NEW e \in Bins, NEW K \in Nat, NEW mx,
         BestMax(p, D, e, K, mx),
         NEW r, r = DoMaximizePhase(p, D, e, K), MaxUncontested(p, D, e, r)
  PROVE  HoldsPhase(K, r, mx)
  <1> DEFINE bad == {k \in 1 .. K : r[k] # mx[k - 1]}
  <1>1. DOMAIN r = 1 .. K /\ \A k \in 1 .. K : r[k] = MaxNext(p, D, e, EarlierBins(r, k))
    BY MaxPhase
  <1> SUFFICES ASSUME bad # {} PROVE FALSE
    BY DEF HoldsPhase
  <1>2. PICK k \in bad : \A x \in bad : k <= x
    <2>1. bad \in SUBSET (1 .. K)
      OBVIOUS
    <2>2. IsFiniteSet(1 .. K) /\ 1 .. K \in SUBSET Int
      BY FS_Interval
    <2> HIDE DEF bad
    <2>3. IsFiniteSet(bad) /\ bad \in SUBSET Int
      BY <2>1, <2>2, FS_Subset
    <2> QED BY <2>3, Extremes
  <1>3. k \in 1 .. K /\ k - 1 \in 0 .. (K - 1) /\ k \in 1 .. (K + 1) /\ r[k] # mx[k - 1]
    BY <1>2
  <1>4. \A i \in 1 .. (k - 1) : r[i] = mx[i - 1]
    BY <1>2, <1>3
  <1> DEFINE before == BinsBefore(mx, k - 1)
             s == mx[k - 1]
  <1>5. EarlierBins(r, k) = before
    <2>1. DOMAIN mx = 0 .. (K - 1)
      BY DEF BestMax
    <2> QED BY <1>3, <1>4, <2>1, SameBins
  <1>6. before \in SUBSET Bins
    BY DEF BestMax, MaxStepBest, BinsBefore
  <1>7. MaxStepBest(p, D, e, before, s)
    BY <1>3 DEF BestMax
  <1>8. StepAlone(p, D, {e}, before, r[k])
    BY <1>1, <1>3, <1>5 DEF MaxUncontested
  <1>9. r[k] = MaxNext(p, D, e, before)
    BY <1>1, <1>3, <1>5
  <1> HIDE DEF before, s
  <1>10. MaxNext(p, D, e, before) = s
    <2>1. StepAlone(p, D, {e}, before, MaxNext(p, D, e, before))
      BY <1>8, <1>9
    <2> QED BY <1>6, <1>7, <2>1, SameMaxStep
  <1> QED BY <1>3, <1>9, <1>10 DEF s

\* and the minimizing phase, with the same helpers, are those of the vectors.
LEMMA SameMinPhase ==
  ASSUME NEW p \in Pools, NEW D \in SUBSET Bins, NEW e \in Bins, NEW K \in Nat \ {0}, NEW mx, NEW mn,
         BestMin(p, D, e, K, mx, mn), NEW helpers, SameHelpers(K, mx, helpers),
         NEW r, r = DoMinimizePhase(p, D, e, helpers, K), MinUncontested(p, D, e, helpers, r)
  PROVE  HoldsPhase(K, r, mn)
  <1> DEFINE bad == {k \in 1 .. K : r[k] # mn[k - 1]}
  <1>1. DOMAIN r = 1 .. K
        /\ \A k \in 1 .. K : r[k] = MinNext(p, D, SecondOf(e, helpers, k), EarlierBins(r, k))
    BY MinPhase
  <1> SUFFICES ASSUME bad # {} PROVE FALSE
    BY DEF HoldsPhase
  <1>2. PICK k \in bad : \A x \in bad : k <= x
    <2>1. bad \in SUBSET (1 .. K)
      OBVIOUS
    <2>2. IsFiniteSet(1 .. K) /\ 1 .. K \in SUBSET Int
      BY FS_Interval
    <2> HIDE DEF bad
    <2>3. IsFiniteSet(bad) /\ bad \in SUBSET Int
      BY <2>1, <2>2, FS_Subset
    <2> QED BY <2>3, Extremes
  <1>3. k \in 1 .. K /\ k - 1 \in 0 .. (K - 1) /\ k \in 1 .. (K + 1) /\ r[k] # mn[k - 1]
    BY <1>2
  <1>4. \A i \in 1 .. (k - 1) : r[i] = mn[i - 1]
    BY <1>2, <1>3
  <1> DEFINE before == BinsBefore(mn, k - 1)
             second == {e} \cup BinsBefore(mx, k - 1)
             s == mn[k - 1]
  <1>5. EarlierBins(r, k) = before
    <2>1. DOMAIN mn = 0 .. (K - 1)
      BY DEF BestMin
    <2> QED BY <1>3, <1>4, <2>1, SameBins
  <1>6. {e} \cup EarlierBins(helpers, k) = second /\ SecondOf(e, helpers, k) = second
    <2>1. K - 1 \in Nat /\ DOMAIN mx = 0 .. ((K - 1) - 1) /\ k \in 1 .. ((K - 1) + 1)
      BY <1>3 DEF SameHelpers
    <2>2. \A i \in 1 .. (k - 1) : helpers[i] = mx[i - 1]
      BY <1>3 DEF SameHelpers
    <2>3. EarlierBins(helpers, k) = BinsBefore(mx, k - 1)
      BY <2>1, <2>2, SameBins
    <2>4. {j \in DOMAIN helpers : j < k} = 1 .. (k - 1)
      BY <1>3 DEF SameHelpers
    <2> QED BY <2>3, <2>4 DEF SecondOf, EarlierBins
  <1>7. before \in SUBSET Bins /\ second \in SUBSET Bins
    BY DEF BestMin, MinStepBest, BinsBefore, SameHelpers
  <1>8. MinStepBest(p, D, second, before, s)
    BY <1>3 DEF BestMin
  <1>9. StepAlone(p, D, second, before, r[k])
    BY <1>1, <1>3, <1>5, <1>6 DEF MinUncontested
  <1>10. r[k] = MinNext(p, D, second, before)
    BY <1>1, <1>3, <1>5, <1>6
  <1> HIDE DEF before, second, s
  <1>11. MinNext(p, D, second, before) = s
    <2>1. StepAlone(p, D, second, before, MinNext(p, D, second, before))
      BY <1>9, <1>10
    <2> QED BY <1>7, <1>8, <2>1, SameMinStep
  <1> QED BY <1>3, <1>10, <1>11 DEF s

-----------------------------------------------------------------------------
(***************************************************************************)
(* The slot of bin when Evaluate has returned.                             *)
(***************************************************************************)

\* As long as the number of steps is that of the first call, the slot holds
\* best steps among all enabled bins.
LEMMA SlotIsBest ==
  ASSUME Scorer!IInv, calls[bin].pc = "done", NEW n, n = calls[bin].stepCount,
         n = IF slots[bin].min = EmptyVector THEN 0
             ELSE StepCountFor(FeatureBins(ranking[1]), EvalStepCount)
  PROVE  /\ n \in Nat \ {0} /\ pool \in Pools /\ enabled \in SUBSET Bins
         /\ BestMax(pool, enabled \cup {bin}, bin, n - 1, slots[bin].max)
         /\ BestMin(pool, enabled, bin, n, slots[bin].max, slots[bin].min)
         /\ slots[bin].score = slots[bin].min[n - 1].cmi
  <1> DEFINE mx == slots[bin].max
             mn == slots[bin].min
  <1>1. Scorer!Bins = Bins /\ Scorer!StepResults = StepResults
    BY DEF Scorer!Bins, Bins, Scorer!AllBinIndexes, AllBinIndexes, Scorer!StepResults, StepResults
  <1>2. \A v, k : Scorer!BinsBefore(v, k) = BinsBefore(v, k)
    BY DEF Scorer!BinsBefore, BinsBefore
  <1>3. /\ n \in Nat \ {0} /\ pool \in Pools /\ enabled \in SUBSET Bins
        /\ mx \in [0 .. (n - 2) -> StepResults] /\ mn \in [0 .. (n - 1) -> StepResults]
    <2>1. /\ pool \in Pools /\ enabled \in SUBSET Scorer!Bins
      BY DEF Scorer!IInv, Scorer!OuterInv
    <2>2. /\ n \in 0 .. Scorer!StepCountFor(enabled, EvalStepCount) /\ n > 0
          /\ mx \in [0 .. (n - 2) -> Scorer!StepResults] /\ mn \in [0 .. (n - 1) -> Scorer!StepResults]
      BY DEF Scorer!IInv, Scorer!CountInv
    <2> QED BY <1>1, <2>1, <2>2
  <1>4. /\ Scorer!AllSet(mx) /\ Scorer!AllSet(mn)
        /\ Scorer!MaxOK(pool, bin, enabled, mx) /\ Scorer!MinOK(pool, bin, enabled, mx, mn)
        /\ slots[bin].score = mn[n - 1].cmi
    BY DEF Scorer!IInv, Scorer!SlotInv
  <1>5. Scorer!SlotIsGreedy
    <2>1. Scorer!GreedyUnlessGrown
      BY ScorerAssumptions, Scorer!GreedyFromIInv
    <2> QED BY <2>1 DEF Scorer!GreedyUnlessGrown
  <1>6. ASSUME NEW k \in 0 .. (n - 2)
        PROVE  MaxStepBest(pool, enabled \cup {bin}, bin, BinsBefore(mx, k), mx[k])
    <2>1. k \in DOMAIN mx /\ mx[k] \in StepResults
      BY <1>3
    <2>2. mx[k].bin # -1
      BY <1>4, <2>1 DEF Scorer!AllSet
    <2>3. /\ mx[k].bin \in enabled \cup {bin} /\ mx[k].bin \notin BinsBefore(mx, k)
          /\ mx[k].cmi = Scorer!MaxValue(pool, bin, mx, k, mx[k].bin)
      BY <1>2, <1>4, <2>1, <2>2 DEF Scorer!MaxOK, Scorer!MaxStepOK, Scorer!UnsetMax
    <2>4. \A b \in (enabled \cup {bin}) \ BinsBefore(mx, k) :
            Scorer!MaxValue(pool, bin, mx, k, b) <= mx[k].cmi
      BY <1>2, <1>5, <2>1 DEF Scorer!SlotIsGreedy, Scorer!MaxGreedy
    <2>5. \A b : Scorer!MaxValue(pool, bin, mx, k, b) = BinValue(pool, {bin}, BinsBefore(mx, k), b)
      BY <1>2 DEF Scorer!MaxValue, BinValue
    <2> QED BY <2>1, <2>3, <2>4, <2>5 DEF MaxStepBest
  <1>7. ASSUME NEW k \in 0 .. (n - 1)
        PROVE  MinStepBest(pool, enabled, {bin} \cup BinsBefore(mx, k), BinsBefore(mn, k), mn[k])
    <2>1. k \in DOMAIN mn /\ mn[k] \in StepResults
      BY <1>3
    <2>2. mn[k].bin # -1
      BY <1>4, <2>1 DEF Scorer!AllSet
    <2>3. /\ mn[k].bin \in enabled /\ mn[k].bin \notin BinsBefore(mn, k)
          /\ mn[k].cmi = Scorer!MinValue(pool, bin, mx, mn, k, mn[k].bin)
      BY <1>2, <1>4, <2>1, <2>2 DEF Scorer!MinOK, Scorer!MinStepOK, Scorer!UnsetMin, Scorer!ResetMin
    <2>4. \A b \in enabled \ BinsBefore(mn, k) :
            Scorer!MinValue(pool, bin, mx, mn, k, b) >= mn[k].cmi
      BY <1>2, <1>5, <2>1 DEF Scorer!SlotIsGreedy, Scorer!MinGreedy
    <2>5. \A b : Scorer!MinValue(pool, bin, mx, mn, k, b)
                   = BinValue(pool, {bin} \cup BinsBefore(mx, k), BinsBefore(mn, k), b)
      BY <1>2 DEF Scorer!MinValue, BinValue
    <2> QED BY <2>1, <2>3, <2>4, <2>5 DEF MinStepBest
  <1>8. (n - 1) - 1 = n - 2
    BY <1>3
  <1>9. BestMax(pool, enabled \cup {bin}, bin, n - 1, mx)
    BY <1>3, <1>6, <1>8 DEF BestMax
  <1>10. BestMin(pool, enabled, bin, n, mx, mn)
    BY <1>3, <1>7 DEF BestMin
  <1> QED BY <1>3, <1>4, <1>9, <1>10

\* The feature of a bin that is not enabled has no enabled bin.
LEMMA FeatureNotEnabled ==
  ASSUME SelectionInv, NEW e \in Bins, e \notin enabled
  PROVE  FeatureBins(GetFeatureIndexByBinIndex(FeatureSet, e)) \cap enabled = {}
  <1> DEFINE f == GetFeatureIndexByBinIndex(FeatureSet, e)
  <1>1. f \in AllFeatureIndexes(FeatureSet) /\ e \in FeatureBins(f)
    BY FeatureOfBin
  <1> HIDE DEF f
  <1> SUFFICES ASSUME NEW b \in FeatureBins(f), b \in enabled PROVE FALSE
    BY DEF f
  <1>2. b \in Bins
    BY <1>1, FeatureRange
  <1>3. PICK i \in DOMAIN ranking : b \in FeatureBins(ranking[i])
    BY <1>2 DEF SelectionInv, RankingInv
  <1>4. ranking[i] \in AllFeatureIndexes(FeatureSet)
    <2>1. PICK F : F = AllFeatureIndexes(FeatureSet)
      OBVIOUS
    <2>2. ranking \in Seq(F)
      BY <2>1 DEF SelectionInv, RankingInv
    <2> QED BY <1>3, <2>1, <2>2, LenProperties, ElementOfSeq
  <1>5. f = ranking[i]
    BY <1>1, <1>2, <1>3, <1>4, FeaturesDisjoint
  <1>6. e \in enabled
    BY <1>1, <1>3, <1>5 DEF SelectionInv, RankingInv
  <1> QED BY <1>6

\* GetBinScore runs the two phases with all enabled bins.
LEMMA GetBinScorePhases ==
  ASSUME SelectionInv, NEW e \in Bins, e \notin enabled, NEW n
  PROVE  \E helpers, worst :
           /\ helpers = DoMaximizePhase(pool, enabled \cup {e}, e, n - 1)
           /\ worst = DoMinimizePhase(pool, enabled, e, helpers, n)
           /\ GetBinScore(pool, Background, e, n)
                = [score |-> worst[Len(worst)].cmi, max |-> helpers, min |-> worst]
  <1> DEFINE f == GetFeatureIndexByBinIndex(FeatureSet, e)
             withBin == SetBinEnabled(Background, e, TRUE)
             without == SetFeatureEnabled(FeatureSet, withBin, f, FALSE)
             helpers == DoMaximizePhase(pool, withBin.enabled, e, n - 1)
             worst == DoMinimizePhase(pool, without.enabled, e, helpers, n)
  <1>1. GetBinScore(pool, Background, e, n)
          = [score |-> worst[Len(worst)].cmi, max |-> helpers, min |-> worst]
    BY DEF GetBinScore, MinimizingScore, BinScore
  <1>2. withBin.enabled = enabled \cup {e}
    BY DEF SetBinEnabled, Background
  <1>3. without.enabled = enabled
    <2>1. without.enabled = withBin.enabled \ FeatureBins(f)
      BY DEF SetFeatureEnabled, FeatureBins
    <2>2. e \in FeatureBins(f) /\ FeatureBins(f) \cap enabled = {}
      BY FeatureOfBin, FeatureNotEnabled
    <2> HIDE DEF without, withBin, f
    <2> QED BY <1>2, <2>1, <2>2
  <1> HIDE DEF without, withBin, f
  <1>4. helpers = DoMaximizePhase(pool, enabled \cup {e}, e, n - 1)
    BY <1>2
  <1>5. worst = DoMinimizePhase(pool, enabled, e, helpers, n)
    BY <1>3
  <1> HIDE DEF helpers, worst
  <1> QED BY <1>1, <1>4, <1>5

\* What it means for the two phases that no step is contested.
LEMMA NotContested ==
  ASSUME NEW e, NEW r, ~Contested(e, r)
  PROVE  /\ MaxUncontested(pool, enabled \cup {e}, e, r.max)
         /\ MinUncontested(pool, enabled, e, r.max, r.min)
  <1>1. ASSUME NEW k \in DOMAIN r.max
        PROVE  StepAlone(pool, enabled \cup {e}, {e}, EarlierBins(r.max, k), r.max[k])
    BY Zenon DEF Contested, StepAlone, EarlierBins
  <1>2. ASSUME NEW k \in DOMAIN r.min
        PROVE  StepAlone(pool, enabled, {e} \cup EarlierBins(r.max, k), EarlierBins(r.min, k), r.min[k])
    BY Zenon DEF Contested, StepAlone, EarlierBins
  <1> QED BY <1>1, <1>2 DEF MaxUncontested, MinUncontested

\* While the number of steps has not grown since the first round, the threads
\* leave in the slot of every bin what GetBinScore computes from scratch.
THEOREM SlotEqualsSlow == Spec => [](bin \in Bins => ScoreEqualsSlow(bin))
  <1>1. QueueInv /\ SelectionInv /\ (InUse => Scorer!IInv) => (bin \in Bins => ScoreEqualsSlow(bin))
    <2> DEFINE n == StepCountFor(enabled, EvalStepCount)
               first == IF slots[bin].min = EmptyVector THEN 0
                        ELSE StepCountFor(FeatureBins(ranking[1]), EvalStepCount)
               r == GetBinScore(pool, Background, bin, n)
               mx == slots[bin].max
               mn == slots[bin].min
    <2> SUFFICES ASSUME QueueInv, SelectionInv, InUse => Scorer!IInv, bin \in Bins,
                        phase = "pick", bin \notin enabled,
                        Cardinality(FeatureBins(ranking[1])) >= EvalStepCount,
                        ~Contested(bin, r)
                 PROVE  Holds(slots[bin], r)
      BY DEF ScoreEqualsSlow, HoldsUnlessContested
    <2>1. Scorer!IInv /\ calls[bin].pc = "done"
      BY AllDone DEF InUse
    <2>2. calls[bin].stepCount = n /\ first = n
      <3>1. EvalStepCount \in Nat \ {0}
        BY EvalStepCountAssumption
      <3>2. n \in Nat /\ n <= EvalStepCount
        <4>1. IsFiniteSet(enabled)
          BY BinsFinite DEF SelectionInv, RankingInv
        <4>2. Cardinality(enabled) \in Nat
          BY <4>1, FS_CardinalityType
        <4> QED BY <3>1, <4>2 DEF StepCountFor
      <3>3. StepCountFor(FeatureBins(ranking[1]), EvalStepCount) = EvalStepCount
        <4>1. IsFiniteSet(FeatureBins(ranking[1]))
          <5>1. PICK F : F = AllFeatureIndexes(FeatureSet)
            OBVIOUS
          <5>2. ranking \in Seq(F) /\ ranking # <<>>
            BY <5>1 DEF SelectionInv, RankingInv
          <5>3. ranking[1] \in F
            BY <5>2, EmptySeq, LenProperties, ElementOfSeq
          <5> QED BY <5>1, <5>3, FeatureRange, BinsFinite
        <4>2. Cardinality(FeatureBins(ranking[1])) \in Nat
          BY <4>1, FS_CardinalityType
        <4> QED BY <3>1, <4>2 DEF StepCountFor
      <3>4. /\ calls[bin].stepCount \in 0 .. n
            /\ first \in 0 .. calls[bin].stepCount /\ first # 0
        <4>1. Scorer!StepCountFor(enabled, EvalStepCount) = n
          BY ScorerPrologue
        <4>2. /\ calls[bin].stepCount \in 0 .. Scorer!StepCountFor(enabled, EvalStepCount)
              /\ first \in 0 .. calls[bin].stepCount
              /\ first = 0 => calls[bin].pc = "idle"
          BY <2>1 DEF Scorer!IInv, Scorer!CountInv
        <4> QED BY <2>1, <4>1, <4>2
      <3>5. first = EvalStepCount
        BY <3>3, <3>4
      <3> HIDE DEF first, n
      <3> QED BY <3>1, <3>2, <3>4, <3>5
    <2>3. /\ n \in Nat \ {0} /\ pool \in Pools /\ enabled \in SUBSET Bins
          /\ BestMax(pool, enabled \cup {bin}, bin, n - 1, mx)
          /\ BestMin(pool, enabled, bin, n, mx, mn)
          /\ slots[bin].score = mn[n - 1].cmi
      <3> HIDE DEF n
      <3> QED BY <2>1, <2>2, SlotIsBest
    <2> HIDE DEF n
    <2>4. PICK helpers, worst :
            /\ helpers = DoMaximizePhase(pool, enabled \cup {bin}, bin, n - 1)
            /\ worst = DoMinimizePhase(pool, enabled, bin, helpers, n)
            /\ r = [score |-> worst[Len(worst)].cmi, max |-> helpers, min |-> worst]
      BY GetBinScorePhases
    <2>5. n - 1 \in Nat /\ enabled \cup {bin} \in SUBSET Bins
      BY <2>3
    <2>6. DOMAIN helpers = 1 .. (n - 1) /\ DOMAIN worst = 1 .. n /\ Len(worst) = n
      BY <2>3, <2>4, <2>5, MaxPhase, MinPhase
    <2> HIDE DEF r, mx, mn
    <2>7. r.max = helpers /\ r.min = worst /\ r.score = worst[n].cmi
      BY <2>4, <2>6
    <2>8. /\ MaxUncontested(pool, enabled \cup {bin}, bin, helpers)
          /\ MinUncontested(pool, enabled, bin, helpers, worst)
      BY <2>7, NotContested
    <2>9. \A k \in 1 .. (n - 1) : helpers[k] = mx[k - 1]
      <3>1. PICK D \in SUBSET Bins : D = enabled \cup {bin}
        BY <2>5
      <3>2. PICK m \in Nat : m = n - 1
        BY <2>5
      <3>3. /\ BestMax(pool, D, bin, m, mx) /\ pool \in Pools
            /\ helpers = DoMaximizePhase(pool, D, bin, m)
            /\ MaxUncontested(pool, D, bin, helpers)
        BY <2>3, <2>4, <2>8, <3>1, <3>2
      <3>4. HoldsPhase(m, helpers, mx)
        BY <3>3, SameMaxPhase
      <3> QED BY <3>2, <3>4 DEF HoldsPhase
    <2>10. DOMAIN mx = 0 .. (n - 2) /\ \A k \in DOMAIN mx : mx[k].bin \in Bins
      <3>1. DOMAIN mx = 0 .. ((n - 1) - 1) /\ (n - 1) - 1 = n - 2
        BY <2>3 DEF BestMax
      <3> QED BY <2>3, <2>5, <3>1 DEF BestMax, MaxStepBest
    <2>11. \A k \in 1 .. n : worst[k] = mn[k - 1]
      <3>1. PICK D \in SUBSET Bins : D = enabled
        BY <2>3
      <3>2. PICK m \in Nat \ {0} : m = n
        BY <2>3
      <3>3. /\ BestMin(pool, D, bin, m, mx, mn) /\ pool \in Pools
            /\ worst = DoMinimizePhase(pool, D, bin, helpers, m)
            /\ MinUncontested(pool, D, bin, helpers, worst)
        BY <2>3, <2>4, <2>8, <3>1, <3>2
      <3>4. SameHelpers(m, mx, helpers)
        BY <2>6, <2>9, <2>10, <3>2 DEF SameHelpers
      <3>5. HoldsPhase(m, worst, mn)
        BY <3>3, <3>4, SameMinPhase
      <3> QED BY <3>2, <3>5 DEF HoldsPhase
    <2>12. slots[bin].score = r.score
      BY <2>3, <2>7, <2>11
    <2> QED BY <2>6, <2>7, <2>9, <2>11, <2>12 DEF Holds, mx, mn
  <1> QED BY <1>1, SlotInvariance, QueueInvariance, SelectionInvariance, PTL

=============================================================================
