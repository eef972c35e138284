------------------------------ MODULE MtpQueue -------------------------------
(***************************************************************************)
(* TMtpQueue::TImpl (util/thread/queue.cpp): the thread pool that          *)
(* evaluates the bins, from Start to the return of Stop.                   *)
(*                                                                         *)
(* The owner starts the queue and stops it once, at any time; adders call  *)
(* Add; the threads of the queue run DoExecute.  (In CMICOT the owner is   *)
(* also the only adder and has returned from its last Add when it stops    *)
(* the queue; a full queue and an Add that races Stop are what the rest of *)
(* the interface promises.)                                                *)
(*                                                                         *)
(* A thread in a wait of a condition variable has released the mutex; a    *)
(* signal, or a spurious wakeup, sends it back to acquiring the mutex and  *)
(* to the test of its loop.  ShouldTerminate is atomic and is set without  *)
(* a lock, so every read of it is a step of its own.                       *)
(*                                                                         *)
(* Left out: the restart after a fork, and what a job does (an exception   *)
(* of a job is swallowed in CatchingMode and the thread goes on).          *)
(***************************************************************************)
EXTENDS Integers, Sequences, FiniteSets

CONSTANTS
  Owner,
  Adders,
  Workers,            \* threads the queue may be started with
  AddCalls,           \* bound: number of calls of Add by each adder
  Settings            \* pairs of blocking (TRUE is BlockingMode) and the limit of the queue (0 is none)

VARIABLES
  threads,            \* Tharr: the threads of the queue, none means the caller
  blocking, maxQueueSize,
  shouldTerminate,
  queue,              \* Queue
  queueMutex, stopMutex,    \* the thread that holds it, or Nobody
  threadCountReal,
  pc,                 \* where every thread is
  calls,              \* number of the last call of Add of every adder
  job,                \* the job a thread has popped
  accepted,           \* history: the jobs for which Add returns true
  processed           \* history: how often a job was processed

config == <<threads, blocking, maxQueueSize>>
locks == <<queueMutex, stopMutex>>
history == <<accepted, processed>>
vars == <<config, shouldTerminate, queue, locks, threadCountReal, pc, calls, job, history>>

Nobody == "nobody"
NoJob == <<>>

Jobs == UNION {{a} \X (1 .. AddCalls[a]) : a \in Adders}
Threads == {Owner} \cup Adders \cup Workers

ASSUME MtpQueueAssumption ==
  /\ Owner \notin Adders \cup Workers
  /\ Adders \cap Workers = {}
  /\ Nobody \notin Threads
  /\ IsFiniteSet(Workers)
  /\ AddCalls \in [Adders -> Nat]
  /\ Settings \subseteq BOOLEAN \X Nat

-----------------------------------------------------------------------------
\* ThreadCountReal after Start.
StartedThreads(tharr) == Cardinality(tharr)

\* Start
Init ==
  /\ threads \in {{}, Workers}
  /\ \E s \in Settings : blocking = s[1] /\ maxQueueSize = s[2]
  /\ shouldTerminate = FALSE
  /\ queue = <<>>
  /\ queueMutex = Nobody /\ stopMutex = Nobody
  /\ threadCountReal = StartedThreads(threads)
  /\ pc = [t \in Threads |-> IF t \in threads THEN "lock"
                             ELSE IF t \in Workers THEN "exited"
                             ELSE IF t = Owner THEN "running" ELSE "idle"]
  /\ calls = [a \in Adders |-> 0]
  /\ job = [w \in Workers |-> NoJob]
  /\ accepted = {} /\ processed = [j \in Jobs |-> 0]

-----------------------------------------------------------------------------
\* Condition variables and mutexes

WaitsFor(condition) == {t \in Threads : pc[t] = condition}

\* Where a thread that was woken goes on: it acquires its mutex again.
Awake(t) == IF t = Owner THEN "lockStop" ELSE "lock"

\* Thread t goes to place p and signals a condition: one waiting thread wakes.
Signal(t, p, condition) ==
  IF WaitsFor(condition) = {}
  THEN pc' = [pc EXCEPT ![t] = p]
  ELSE \E u \in WaitsFor(condition) : pc' = [pc EXCEPT ![t] = p, ![u] = Awake(u)]

BroadCast(t, p, condition) ==
  pc' = [u \in Threads |-> IF u = t THEN p
                           ELSE IF u \in WaitsFor(condition) THEN Awake(u) ELSE pc[u]]

GoTo(t, p) == pc' = [pc EXCEPT ![t] = p]

\* The start of with_lock (QueueMutex), or the end of a wait, in an adder or a
\* thread of the queue.
LockQueue(t) ==
  /\ pc[t] = "lock"
  /\ queueMutex = Nobody
  /\ queueMutex' = t
  /\ GoTo(t, "test")
  /\ UNCHANGED <<config, shouldTerminate, queue, stopMutex, threadCountReal, calls, job, history>>

SpuriousWakeup(t) ==
  /\ pc[t] \in {"waitPush", "waitPop", "waitStop"}
  /\ GoTo(t, Awake(t))
  /\ UNCHANGED <<config, shouldTerminate, queue, locks, threadCountReal, calls, job, history>>

-----------------------------------------------------------------------------
\* Add, in an adder

ThisJob(a) == <<a, calls[a]>>

CallAdd(a) ==
  /\ pc[a] = "idle"
  /\ calls[a] < AddCalls[a]
  /\ calls' = [calls EXCEPT ![a] = @ + 1]
  /\ GoTo(a, IF shouldTerminate THEN "idle" ELSE IF threads = {} THEN "inline" ELSE "lock")
  /\ UNCHANGED <<config, shouldTerminate, queue, locks, threadCountReal, job, history>>

\* Without threads the caller processes the job.
ProcessInline(a) ==
  /\ pc[a] = "inline"
  /\ processed' = [processed EXCEPT ![ThisJob(a)] = @ + 1]
  /\ accepted' = accepted \cup {ThisJob(a)}
  /\ GoTo(a, "idle")
  /\ UNCHANGED <<config, shouldTerminate, queue, locks, threadCountReal, calls, job>>

Full == maxQueueSize > 0 /\ Len(queue) >= maxQueueSize /\ ~shouldTerminate

AddTest(a) ==
  /\ pc[a] = "test"
  /\ GoTo(a, IF Full THEN "full" ELSE "check")
  /\ UNCHANGED <<config, shouldTerminate, queue, locks, threadCountReal, calls, job, history>>

\* A full queue: Add waits in BlockingMode and returns false otherwise.
AddFull(a) ==
  /\ pc[a] = "full"
  /\ queueMutex' = Nobody
  /\ GoTo(a, IF blocking THEN "waitPop" ELSE "idle")
  /\ UNCHANGED <<config, shouldTerminate, queue, stopMutex, threadCountReal, calls, job, history>>

AddRefused(a) ==
  /\ pc[a] = "check"
  /\ shouldTerminate
  /\ queueMutex' = Nobody
  /\ GoTo(a, "idle")
  /\ UNCHANGED <<config, shouldTerminate, queue, stopMutex, threadCountReal, calls, job, history>>

\* Mutant: ShouldTerminate is not read again under the lock.
AddPushUnchecked(a) ==
  /\ pc[a] = "check"
  /\ queue' = Append(queue, ThisJob(a))
  /\ accepted' = accepted \cup {ThisJob(a)}
  /\ queueMutex' = Nobody
  /\ GoTo(a, "signalPush")
  /\ UNCHANGED <<config, shouldTerminate, stopMutex, threadCountReal, calls, job, processed>>

AddPush(a) ==
  /\ pc[a] = "check"
  /\ ~shouldTerminate
  /\ queue' = Append(queue, ThisJob(a))
  /\ accepted' = accepted \cup {ThisJob(a)}
  /\ queueMutex' = Nobody
  /\ GoTo(a, "signalPush")
  /\ UNCHANGED <<config, shouldTerminate, stopMutex, threadCountReal, calls, job, processed>>

\* Mutant: no signal after the push.
AddSilently(a) ==
  /\ pc[a] = "signalPush"
  /\ GoTo(a, "idle")
  /\ UNCHANGED <<config, shouldTerminate, queue, locks, threadCountReal, calls, job, history>>

AddSignal(a) ==
  /\ pc[a] = "signalPush"
  /\ Signal(a, "idle", "waitPush")
  /\ UNCHANGED <<config, shouldTerminate, queue, locks, threadCountReal, calls, job, history>>

Adder(a) ==
  \/ CallAdd(a) \/ ProcessInline(a) \/ LockQueue(a) \/ AddTest(a)
  \/ AddFull(a) \/ AddRefused(a) \/ AddPush(a) \/ AddSignal(a)

-----------------------------------------------------------------------------
\* DoExecute, in a thread of the queue

WorkerTest(w) ==
  /\ pc[w] = "test"
  /\ GoTo(w, IF queue = <<>> /\ ~shouldTerminate THEN "empty" ELSE "check")
  /\ UNCHANGED <<config, shouldTerminate, queue, locks, threadCountReal, calls, job, history>>

WorkerWait(w) ==
  /\ pc[w] = "empty"
  /\ queueMutex' = Nobody
  /\ GoTo(w, "waitPush")
  /\ UNCHANGED <<config, shouldTerminate, queue, stopMutex, threadCountReal, calls, job, history>>

WorkerPop(w) ==
  /\ pc[w] = "check"
  /\ queue # <<>>
  /\ job' = [job EXCEPT ![w] = Head(queue)]
  /\ queue' = Tail(queue)
  /\ queueMutex' = Nobody
  /\ GoTo(w, "signalPop")
  /\ UNCHANGED <<config, shouldTerminate, stopMutex, threadCountReal, calls, history>>

WorkerSignal(w) ==
  /\ pc[w] = "signalPop"
  /\ Signal(w, "process", "waitPop")
  /\ UNCHANGED <<config, shouldTerminate, queue, locks, threadCountReal, calls, job, history>>

Process(w) ==
  /\ pc[w] = "process"
  /\ processed' = [processed EXCEPT ![job[w]] = @ + 1]
  /\ job' = [job EXCEPT ![w] = NoJob]
  /\ GoTo(w, "lock")
  /\ UNCHANGED <<config, shouldTerminate, queue, locks, threadCountReal, calls, accepted>>

WorkerBreak(w) ==
  /\ pc[w] = "check"
  /\ shouldTerminate /\ queue = <<>>
  /\ queueMutex' = Nobody
  /\ GoTo(w, "finish")
  /\ UNCHANGED <<config, shouldTerminate, queue, stopMutex, threadCountReal, calls, job, history>>

\* Mutant: the owner is not signalled.
FinishSilently(w) ==
  /\ pc[w] = "finish"
  /\ stopMutex = Nobody
  /\ threadCountReal' = threadCountReal - 1
  /\ GoTo(w, "exited")
  /\ UNCHANGED <<config, shouldTerminate, queue, locks, calls, job, history>>

\* All of it happens under StopMutex.
FinishOneThread(w) ==
  /\ pc[w] = "finish"
  /\ stopMutex = Nobody
  /\ threadCountReal' = threadCountReal - 1
  /\ Signal(w, "exited", "waitStop")
  /\ UNCHANGED <<config, shouldTerminate, queue, locks, calls, job, history>>

Worker(w) ==
  \/ LockQueue(w) \/ WorkerTest(w) \/ WorkerWait(w) \/ WorkerPop(w)
  \/ WorkerSignal(w) \/ Process(w) \/ WorkerBreak(w) \/ FinishOneThread(w)

-----------------------------------------------------------------------------
\* Stop, in the owner

SetTerminate ==
  /\ pc[Owner] = "running"
  /\ shouldTerminate' = TRUE
  /\ GoTo(Owner, "broadcast")
  /\ UNCHANGED <<config, queue, locks, threadCountReal, calls, job, history>>

\* Mutant: the adders are left to the signals of the threads.
ReleaseNoAdder ==
  /\ pc[Owner] = "broadcast"
  /\ queueMutex = Nobody
  /\ GoTo(Owner, "lockStop")
  /\ UNCHANGED <<config, shouldTerminate, queue, locks, threadCountReal, calls, job, history>>

ReleaseAdders ==
  /\ pc[Owner] = "broadcast"
  /\ queueMutex = Nobody
  /\ BroadCast(Owner, "lockStop", "waitPop")
  /\ UNCHANGED <<config, shouldTerminate, queue, locks, threadCountReal, calls, job, history>>

\* WaitForComplete
LockStop ==
  /\ pc[Owner] = "lockStop"
  /\ stopMutex = Nobody
  /\ stopMutex' = Owner
  /\ GoTo(Owner, "testStop")
  /\ UNCHANGED <<config, shouldTerminate, queue, queueMutex, threadCountReal, calls, job, history>>

TestStop ==
  /\ pc[Owner] = "testStop"
  /\ threadCountReal # 0
  /\ GoTo(Owner, "wakeWorker")
  /\ UNCHANGED <<config, shouldTerminate, queue, locks, threadCountReal, calls, job, history>>

\* Mutant: the threads are expected to notice by themselves.
WakeNoWorker ==
  /\ pc[Owner] = "wakeWorker"
  /\ queueMutex = Nobody
  /\ GoTo(Owner, "beforeWait")
  /\ UNCHANGED <<config, shouldTerminate, queue, locks, threadCountReal, calls, job, history>>

\* One thread is woken in every round of the loop.
WakeWorker ==
  /\ pc[Owner] = "wakeWorker"
  /\ queueMutex = Nobody
  /\ Signal(Owner, "beforeWait", "waitPush")
  /\ UNCHANGED <<config, shouldTerminate, queue, locks, threadCountReal, calls, job, history>>

WaitStop ==
  /\ pc[Owner] = "beforeWait"
  /\ stopMutex' = Nobody
  /\ GoTo(Owner, "waitStop")
  /\ UNCHANGED <<config, shouldTerminate, queue, queueMutex, threadCountReal, calls, job, history>>

StopReturn ==
  /\ pc[Owner] = "testStop"
  /\ threadCountReal = 0
  /\ stopMutex' = Nobody
  /\ GoTo(Owner, "stopped")
  /\ UNCHANGED <<config, shouldTerminate, queue, queueMutex, threadCountReal, calls, job, history>>

Stop ==
  \/ SetTerminate \/ ReleaseAdders \/ LockStop \/ TestStop
  \/ WakeWorker \/ WaitStop \/ StopReturn

-----------------------------------------------------------------------------
Next ==
  \/ Stop
  \/ \E a \in Adders : Adder(a)
  \/ \E w \in Workers : Worker(w)
  \/ \E t \in Threads : SpuriousWakeup(t)

Spec == Init /\ [][Next]_vars

\* Every thread that can run does run, and spurious wakeups do not go on
\* forever.  The owner may let the queue run forever, but a Stop it has begun
\* goes on.  The mutexes need not be fair: no thread competes for one forever.
FairSpec ==
  /\ Spec
  /\ <>[][\A t \in Threads : ~SpuriousWakeup(t)]_vars
  /\ WF_vars(Stop /\ pc[Owner] # "running")
  /\ \A a \in Adders : WF_vars(Adder(a))
  /\ \A w \in Workers : WF_vars(Worker(w))

-----------------------------------------------------------------------------
(***************************************************************************)
(* Properties                                                              *)
(***************************************************************************)

\* "Wait for completion of all scheduled objects, and then exit" (queue.h):
\* when Stop returns no thread of the queue is left, and every job that Add
\* accepted, also while Stop was already running, has been processed, once;
\* no other job has been.
StopDrains ==
  pc[Owner] = "stopped" =>
    /\ queue = <<>>
    /\ \A w \in Workers : pc[w] = "exited"
    /\ \A j \in Jobs : processed[j] = IF j \in accepted THEN 1 ELSE 0

\* While the owner sleeps on StopCond some thread of the queue is awake and
\* will signal it: signalling one thread a round is enough, and the flag set
\* outside the lock makes no thread miss its wakeup.
OwnerNotForgotten ==
  pc[Owner] = "waitStop" => \E w \in Workers : pc[w] \notin {"waitPush", "exited"}

\* A job does not lie in the queue while every thread of the queue sleeps,
\* unless the signal for it is still to come.
JobsNotForgotten ==
  queue # <<>> =>
    \/ \E w \in Workers : pc[w] \notin {"waitPush", "finish", "exited"}
    \/ \E a \in Adders : pc[a] = "signalPush"

\* Every call of Add returns, also one that waits for room in the queue,
\* whether or not the queue is stopped meanwhile.
AddReturns == \A a \in Adders : pc[a] # "idle" ~> pc[a] = "idle"

Pool == INSTANCE JobPool WITH
  state <- CASE pc[Owner] = "running" -> "running"
             [] pc[Owner] = "stopped" -> "stopped"
             [] OTHER                 -> "stopping"

\* The queue is the pool its callers rely on: every job Add accepted is
\* processed, once, also when nobody ever stops the queue, and a Stop that was
\* called returns, when no job is left.
IsJobPool == Pool!Spec

=============================================================================
