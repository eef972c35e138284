------------------------------ MODULE Selection ------------------------------
(***************************************************************************)
(* FastFeatureSelection (cmicot/lib/selection.cpp): the main thread ranks  *)
(* the features; in every round the threads of a TMtpQueue evaluate the    *)
(* bins that are not enabled yet.                                          *)
(*                                                                         *)
(* The background is shared: the threads read it, the main thread writes   *)
(* it.  Every call of TCachingBinScorer::Evaluate works on its own slot of *)
(* the cache and on its own locals (calls[b], the frame of the call for    *)
(* bin b), and every iteration of its loops is a step of its thread.       *)
(*                                                                         *)
(* ParallelMaxElementBy submits the bins one by one while the threads are  *)
(* already running, destroys the queue at the end of RunParallelForEach,   *)
(* which waits for the last job, and then collects the values in the order *)
(* of submission.                                                          *)
(***************************************************************************)
EXTENDS Evaluate

CONSTANTS
  EvalStepCount,     \* option -t
  FeatureCount,      \* how many features are asked for
  Workers            \* the threads of the queue

ASSUME EvalStepCountAssumption == EvalStepCount \in Nat \ {0}
ASSUME FeatureCountAssumption == FeatureCount \in Nat

VARIABLES
  pool,
  enabled, last,     \* bg
  ranking,           \* the calls of onFeatureSelected
  phase,             \* main thread: "start", "round", "submit", "pick", "end"
  disabledBins,      \* the bins of the round, in order
  submitted,         \* how many of them are in the queue
  queue,             \* jobs no thread has taken
  job,               \* the bin a thread works on
  slots,             \* Cache
  calls              \* the frames of Evaluate

bg == <<enabled, last>>
main == <<ranking, phase, disabledBins, submitted>>
vars == <<pool, bg, main, queue, job, slots, calls>>

NoBin == -1

Background == [enabled |-> enabled, last |-> last]
FeatureBins(f) == GetFeatureBinIndexes(FeatureSet, f)

EmptySlot == [max |-> EmptyVector, min |-> EmptyVector, score |-> 0]
NoCall == [pc |-> "idle", stepCount |-> 0, step |-> 0, background |-> {},
           toProcess |-> {}, second |-> {}, condition |-> {}]

\* Mutant: std::less instead of std::greater.
FirstSmallest(values) ==
  CHOOSE i \in DOMAIN values :
    \A j \in DOMAIN values : values[i] < values[j] \/ (values[j] = values[i] /\ i <= j)

\* ExtremeElementBy with std::greater: the first position of the largest value.
FirstMaximum(values) ==
  CHOOSE i \in DOMAIN values :
    \A j \in DOMAIN values : values[j] < values[i] \/ (values[j] = values[i] /\ i <= j)

-----------------------------------------------------------------------------
Init ==
  /\ pool \in Pools
  /\ enabled = {} /\ last = {}
  /\ ranking = <<>> /\ phase = "start"
  /\ disabledBins = <<>> /\ submitted = 0
  /\ queue = <<>> /\ job = [w \in Workers |-> NoBin]
  /\ slots = [b \in Bins |-> EmptySlot]
  /\ calls = [b \in Bins |-> NoCall]

-----------------------------------------------------------------------------
\* The main thread

\* The first feature is that of the bin with most information on the label.
\* The threads that compute it write nothing.
SelectFirst ==
  LET allBins == Ascending(Bins)
      values  == [i \in DOMAIN allBins |-> Cmi(pool, {allBins[i]}, {})]
      f       == GetFeatureIndexByBinIndex(FeatureSet, allBins[FirstMaximum(values)])
      new     == SetFeatureEnabled(FeatureSet, DisableAll(NewBackground(FeatureSet)), f, TRUE)
  IN  /\ phase = "start"
      /\ enabled' = new.enabled /\ last' = new.last
      /\ ranking' = <<f>>
      /\ phase' = "round"
      /\ UNCHANGED <<pool, disabledBins, submitted, queue, job, slots, calls>>

FeaturesToSelectCount ==
  (IF FeatureCount < GetFeatureCount(FeatureSet) THEN FeatureCount
                                                 ELSE GetFeatureCount(FeatureSet)) - 1

BeginRound ==
  /\ phase = "round"
  /\ Len(ranking) - 1 < FeaturesToSelectCount
  /\ disabledBins' = Ascending(DisabledBinIndexes(FeatureSet, Background))
  /\ submitted' = 0
  /\ phase' = "submit"
  /\ UNCHANGED <<pool, bg, ranking, queue, job, slots, calls>>

Submit ==
  /\ phase = "submit"
  /\ submitted < Len(disabledBins)
  /\ queue' = Append(queue, disabledBins[submitted + 1])
  /\ submitted' = submitted + 1
  /\ UNCHANGED <<pool, bg, ranking, phase, disabledBins, job, slots, calls>>

\* Mutant: the destructor waits until the queue is empty but for no thread.
DrainWithoutThreads ==
  /\ phase = "submit"
  /\ submitted = Len(disabledBins)
  /\ queue = <<>>
  /\ phase' = "pick"
  /\ UNCHANGED <<pool, bg, ranking, disabledBins, submitted, queue, job, slots, calls>>

\* The destructor of the queue, at the end of RunParallelForEach.
Drain ==
  /\ phase = "submit"
  /\ submitted = Len(disabledBins)
  /\ queue = <<>> /\ \A w \in Workers : job[w] = NoBin
  /\ phase' = "pick"
  /\ UNCHANGED <<pool, bg, ranking, disabledBins, submitted, queue, job, slots, calls>>

\* The values are those the futures hold.  The program stops at the Y_VERIFY
\* if there was no bin.
SelectNext ==
  LET values == [i \in DOMAIN disabledBins |-> slots[disabledBins[i]].score]
      f      == GetFeatureIndexByBinIndex(FeatureSet, disabledBins[FirstMaximum(values)])
      new    == SetFeatureEnabled(FeatureSet, Background, f, TRUE)
  IN  /\ phase = "pick"
      /\ disabledBins # <<>>
      /\ enabled' = new.enabled /\ last' = new.last
      /\ ranking' = Append(ranking, f)
      /\ phase' = "round"
      /\ calls' = [b \in Bins |-> [calls[b] EXCEPT !.pc = "idle"]]
      /\ UNCHANGED <<pool, disabledBins, submitted, queue, job, slots>>

End ==
  /\ phase = "round"
  /\ Len(ranking) - 1 >= FeaturesToSelectCount
  /\ phase' = "end"
  /\ UNCHANGED <<pool, bg, ranking, disabledBins, submitted, queue, job, slots, calls>>

Main == SelectFirst \/ BeginRound \/ Submit \/ Drain \/ SelectNext \/ End

-----------------------------------------------------------------------------
\* A thread of the queue

\* Mutant: the job is read but not removed.
TakeWithoutPop(w) ==
  /\ job[w] = NoBin
  /\ queue # <<>>
  /\ job' = [job EXCEPT ![w] = Head(queue)]
  /\ UNCHANGED <<pool, bg, main, queue, slots, calls>>

Take(w) ==
  /\ job[w] = NoBin
  /\ queue # <<>>
  /\ job' = [job EXCEPT ![w] = Head(queue)]
  /\ queue' = Tail(queue)
  /\ UNCHANGED <<pool, bg, main, slots, calls>>

\* A step of the call a thread is in: it replaces the frame and the slot.
Step(w, call, slot) ==
  /\ calls' = [calls EXCEPT ![job[w]] = call]
  /\ slots' = [slots EXCEPT ![job[w]] = slot]
  /\ UNCHANGED <<pool, bg, main, queue>>

\* Mutant: binsToProcess is taken after the evaluated bin was enabled.
BeginLate(w) ==
  LET e  == job[w]
      s  == slots[e]
      n  == StepCountFor(enabled, EvalStepCount)
      bk == SetBinEnabled(Background, e, TRUE)
  IN  /\ e # NoBin
      /\ calls[e].pc = "idle"
      /\ ~NotEnoughBins(bk.enabled, n)
      /\ Step(w,
              [pc |-> "max", stepCount |-> n, step |-> 0, background |-> bk.enabled,
               toProcess |-> LastEnabled(bk).enabled,
               second |-> {e}, condition |-> {}],
              [s EXCEPT !.max = Resize(s.max, n - 1, UnsetMax),
                        !.min = Resize(s.min, n, UnsetMin)])
      /\ UNCHANGED job

Begin(w) ==
  LET e  == job[w]
      s  == slots[e]
      n  == StepCountFor(enabled, EvalStepCount)
      bk == SetBinEnabled(Background, e, TRUE).enabled
  IN  /\ e # NoBin
      /\ calls[e].pc = "idle"
      /\ ~NotEnoughBins(bk, n)
      /\ Step(w,
              [pc |-> "max", stepCount |-> n, step |-> 0, background |-> bk,
               toProcess |-> LastEnabled(Background).enabled,
               second |-> {e}, condition |-> {}],
              [s EXCEPT !.max = Resize(s.max, n - 1, UnsetMax),
                        !.min = Resize(s.min, n, UnsetMin)])
      /\ UNCHANGED job

MaxStep(w, b) ==
  LET e == job[w]
      s == slots[e]
      c == calls[e]
      k == c.step
      v == BinValue(pool, c.second, c.condition, b)
      new == [s EXCEPT !.max = MaxStepMax(s.max, k, b, v),
                       !.min = MaxStepMin(s.max, s.min, k, v)]
  IN  /\ e # NoBin
      /\ c.pc = "max" /\ k < c.stepCount - 1
      /\ IsMaxElementBy(pool, c.second, c.condition, MaxCandidates(c.toProcess, s.max, k), b)
      /\ Step(w,
              [c EXCEPT !.toProcess = MaxStepToProcess(s.max, k, v, c.toProcess, c.background),
                        !.condition = c.condition \cup {new.max[k].bin},
                        !.step = k + 1],
              new)
      /\ UNCHANGED job

StartMin(w) ==
  LET e == job[w]
      c == calls[e]
  IN  /\ e # NoBin
      /\ c.pc = "max" /\ c.step = c.stepCount - 1
      /\ Step(w,
              [c EXCEPT !.pc = "min", !.step = 0,
                        !.background = c.background \ {e}, !.toProcess = c.toProcess \ {e},
                        !.second = {e}, !.condition = {}],
              slots[e])
      /\ UNCHANGED job

MinStep(w, b) ==
  LET e == job[w]
      s == slots[e]
      c == calls[e]
      k == c.step
      v == BinValue(pool, c.second, c.condition, b)
      new == [s EXCEPT !.min = MinStepMin(s.min, k, b, v)]
      chosen == new.min[k].bin
  IN  /\ e # NoBin
      /\ c.pc = "min" /\ k < c.stepCount
      /\ IsMinElementBy(pool, c.second, c.condition, c.toProcess, b)
      /\ Step(w,
              [c EXCEPT !.toProcess = MinStepToProcess(s.min, k, v, c.toProcess, c.background, chosen),
                        !.background = c.background \ {chosen},
                        !.condition = c.condition \cup {chosen},
                        !.second = MinStepSecond(s.max, k, c.second),
                        !.step = k + 1],
              new)
      /\ UNCHANGED job

\* Evaluate returns, the value of the future is set, the thread is free.
Finish(w) ==
  LET e == job[w]
      c == calls[e]
  IN  /\ e # NoBin
      /\ c.pc = "min" /\ c.step = c.stepCount
      /\ Step(w, [c EXCEPT !.pc = "done"],
              [slots[e] EXCEPT !.score = Cmi(pool, c.second, c.condition)])
      /\ job' = [job EXCEPT ![w] = NoBin]

Worker(w) ==
  \/ Take(w)
  \/ Begin(w)
  \/ \E b \in Bins : MaxStep(w, b)
  \/ StartMin(w)
  \/ \E b \in Bins : MinStep(w, b)
  \/ Finish(w)

Next == Main \/ \E w \in Workers : Worker(w)

Spec == Init /\ [][Next]_vars

\* Threads that can run do run.
FairSpec == Spec /\ WF_vars(Main) /\ \A w \in Workers : WF_vars(Worker(w))

-----------------------------------------------------------------------------
(***************************************************************************)
(* Properties                                                              *)
(***************************************************************************)

\* The Y_VERIFY of line 52: a round always has a bin to choose from.
VerifyHolds == phase = "pick" => disabledBins # <<>>

\* The selection ends; by then as many features as were asked for, but always
\* at least one, have been reported, none of them twice, and their bins are
\* the background.
Terminates ==
  <>(/\ phase = "end"
     /\ Len(ranking) = IF FeaturesToSelectCount < 0 THEN 1 ELSE FeaturesToSelectCount + 1
     /\ \A i, j \in DOMAIN ranking : i # j => ranking[i] # ranking[j]
     /\ enabled = UNION {FeatureBins(ranking[i]) : i \in DOMAIN ranking})

\* Two threads are never inside Evaluate for the same bin, and no bin is
\* submitted twice in a round, so that no slot of the cache, none of which is
\* protected by a lock, is ever written by two threads.
SlotsPrivate ==
  /\ \A v, w \in Workers : v # w /\ job[v] # NoBin => job[v] # job[w]
  /\ \A w \in Workers, i \in DOMAIN queue : queue[i] # job[w]
  /\ \A i, j \in DOMAIN queue : i # j => queue[i] # queue[j]

\* The background, which the threads read without a lock, never changes
\* while one of them may still read it or has yet to start.
BackgroundStable ==
  [][enabled' # enabled \/ last' # last =>
       queue = <<>> /\ \A w \in Workers : job[w] = NoBin]_vars

-----------------------------------------------------------------------------
\* Every slot behaves as module CachingBinScorer says.

Slot(b) == INSTANCE CachingBinScorer WITH
  evalBin <- b,
  maxSteps <- slots[b].max, minSteps <- slots[b].min, score <- slots[b].score,
  pc <- calls[b].pc, stepCount <- calls[b].stepCount, step <- calls[b].step,
  background <- calls[b].background, toProcess <- calls[b].toProcess,
  second <- calls[b].second, condition <- calls[b].condition,
  initialSteps <- IF slots[b].min = EmptyVector THEN 0
                  ELSE StepCountFor(FeatureBins(ranking[1]), EvalStepCount)

\* As long as a bin is not enabled, its slot, seen through the background,
\* takes the steps of CachingBinScorer and no others, in whatever order the
\* threads run; so that what is proved there holds for every slot here.
SlotsImplementCachingBinScorer ==
  [][\A b \in Bins :
       b \notin enabled' =>
         IF phase = "start" THEN Slot(b)!Init'
                            ELSE Slot(b)!Next \/ UNCHANGED Slot(b)!vars]_vars

=============================================================================
