--------------------------- MODULE MtpQueue_proofs ----------------------------
(***************************************************************************)
(* Stop of a TMtpQueue returns when every accepted job has been processed, *)
(* no wakeup is missed on the way, and every step of the queue is one of   *)
(* module JobPool, for any number of adders, threads and jobs, any limit   *)
(* of the queue and both modes.                                            *)
(***************************************************************************)
EXTENDS MtpQueue, FiniteSetTheorems, TLAPS

(***************************************************************************)
(* The inductive invariant.                                                *)
(***************************************************************************)
OwnerPlaces == {"running", "broadcast", "lockStop", "testStop", "wakeWorker", "beforeWait",
                "waitStop", "stopped"}
AdderPlaces == {"idle", "inline", "lock", "test", "full", "check", "waitPop", "signalPush"}
WorkerPlaces == {"lock", "test", "empty", "waitPush", "check", "signalPop", "process", "finish",
                 "exited"}

Places == OwnerPlaces \cup AdderPlaces \cup WorkerPlaces

TypeOK ==
  /\ threads \in {{}, Workers}
  /\ blocking \in BOOLEAN /\ maxQueueSize \in Nat
  /\ shouldTerminate \in BOOLEAN
  /\ queue \in Seq(Jobs)
  /\ queueMutex \in Adders \cup Workers \cup {Nobody}
  /\ stopMutex \in {Owner, Nobody}
  /\ pc \in [Threads -> Places]
  /\ pc[Owner] \in OwnerPlaces
  /\ \A a \in Adders : pc[a] \in AdderPlaces
  /\ \A w \in Workers : pc[w] \in WorkerPlaces
  /\ calls \in [Adders -> Nat]
  /\ \A a \in Adders : calls[a] <= AddCalls[a]
  /\ job \in [Workers -> Jobs \cup {NoJob}]
  /\ accepted \in SUBSET Jobs
  /\ processed \in [Jobs -> Nat]

\* Who is inside a critical section holds its mutex.
LockInv ==
  /\ \A t \in Adders \cup Workers :
       queueMutex = t <=> pc[t] \in {"test", "full", "empty", "check"}
  /\ stopMutex = Owner <=> pc[Owner] \in {"testStop", "wakeWorker", "beforeWait"}

\* ThreadCountReal counts the threads that have not finished.
CountInv == threadCountReal = Cardinality({w \in Workers : pc[w] # "exited"})

\* Without threads nothing is queued; with threads nothing is done inline.
StartInv ==
  /\ threads = {} => /\ queue = <<>>
                     /\ \A w \in Workers : pc[w] = "exited"
                     /\ \A a \in Adders : pc[a] \in {"idle", "inline"}
  /\ threads # {} => \A a \in Adders : pc[a] # "inline"

Queued(j) == \E k \in DOMAIN queue : queue[k] = j
Held(j) == \E w \in Workers : job[w] = j

\* An accepted job lies in the queue, is with a thread, or was processed: it
\* is in one of these places, and once.
JobInv ==
  /\ \A i, k \in DOMAIN queue : queue[i] = queue[k] => i = k
  /\ \A w \in Workers : job[w] # NoJob <=> pc[w] \in {"signalPop", "process"}
  /\ \A v, w \in Workers : job[v] = job[w] /\ job[v] # NoJob => v = w
  /\ \A j \in Jobs :
       /\ Queued(j) => ~Held(j)
       /\ j \in accepted => processed[j] = IF Queued(j) \/ Held(j) THEN 0 ELSE 1
       /\ j \notin accepted => ~Queued(j) /\ ~Held(j) /\ processed[j] = 0

\* The job of a call of Add that has not been decided is a new one.
CallInv ==
  \A a \in Adders :
    /\ pc[a] \in {"inline", "lock", "test", "full", "check", "waitPop"} =>
         calls[a] >= 1 /\ ThisJob(a) \notin accepted
    /\ \A n \in 1 .. AddCalls[a] : <<a, n>> \in accepted => n <= calls[a]

\* A thread that has left its loop, or goes to sleep, leaves no job behind;
\* none goes to sleep once the owner has been inside QueueMutex to broadcast,
\* and the owner does not go to sleep unless it has woken a thread, which
\* cannot exit before that.
StopInv ==
  /\ shouldTerminate <=> pc[Owner] # "running"
  /\ threads # {} => \A w \in Workers :
       pc[w] \in {"finish", "exited"} => shouldTerminate /\ queue = <<>>
  /\ \A w \in Workers : pc[w] = "empty" => /\ queue = <<>>
                                           /\ pc[Owner] \in {"running", "broadcast"}
  /\ pc[Owner] = "wakeWorker" => \E w \in Workers : pc[w] # "exited"
  /\ pc[Owner] \in {"beforeWait", "waitStop"} =>
       \E w \in Workers : pc[w] \notin {"waitPush", "exited"}
  /\ pc[Owner] = "stopped" => \A w \in Workers : pc[w] = "exited"

IInv ==
  /\ TypeOK /\ LockInv /\ CountInv /\ StartInv /\ JobInv /\ CallInv /\ StopInv
  /\ JobsNotForgotten

-----------------------------------------------------------------------------
(***************************************************************************)
(* How threads move: one thread goes to its next place, and threads that   *)
(* wait for a condition may be woken.                                      *)
(***************************************************************************)
Waits == {"waitPush", "waitPop", "waitStop"}

Moved(t, p, condition) ==
  /\ pc' \in [Threads -> Places]
  /\ pc'[t] = p
  /\ \A u \in Threads : u # t => pc'[u] = pc[u] \/ (pc[u] = condition /\ pc'[u] = Awake(u))

\* A step without a signal moves one thread.
LEMMA GoToMoves ==
  ASSUME TypeOK, NEW t \in Threads, NEW p \in Places, GoTo(t, p)
  PROVE  /\ Moved(t, p, "none")
         /\ \A u \in Threads : u # t => pc'[u] = pc[u]
  BY DEF TypeOK, GoTo, Moved, Awake

\* A signal wakes one of the threads that wait, if there is one.
LEMMA SignalMoves ==
  ASSUME TypeOK, NEW t \in Threads, NEW p \in Places, NEW condition \in Waits,
         pc[t] # condition, Signal(t, p, condition)
  PROVE  /\ Moved(t, p, condition)
         /\ \/ \A u \in Threads : pc[u] # condition
            \/ \E u \in Threads : u # t /\ pc[u] = condition /\ pc'[u] = Awake(u)
  <1>1. CASE WaitsFor(condition) = {}
    BY <1>1 DEF TypeOK, Signal, WaitsFor, Moved, Awake
  <1>2. CASE WaitsFor(condition) # {}
    <2>1. PICK u \in WaitsFor(condition) : pc' = [pc EXCEPT ![t] = p, ![u] = Awake(u)]
      BY <1>2 DEF Signal
    <2>2. u \in Threads /\ pc[u] = condition /\ u # t /\ Awake(u) \in Places
      BY <2>1 DEF WaitsFor, Awake, Places, OwnerPlaces, AdderPlaces
    <2>3. pc' \in [Threads -> Places] /\ pc'[t] = p /\ pc'[u] = Awake(u)
          /\ \A v \in Threads : v # t /\ v # u => pc'[v] = pc[v]
      BY <2>1, <2>2 DEF TypeOK
    <2> QED BY <2>2, <2>3 DEF Moved, Awake
  <1> QED BY <1>1, <1>2

\* A broadcast wakes all of them.
LEMMA BroadCastMoves ==
  ASSUME TypeOK, NEW t \in Threads, NEW p \in Places, NEW condition \in Waits,
         BroadCast(t, p, condition)
  PROVE  Moved(t, p, condition)
  <1>1. \A u \in Threads : Awake(u) \in Places /\ pc[u] \in Places
    BY DEF TypeOK, Awake, Places, OwnerPlaces, AdderPlaces
  <1> QED BY <1>1 DEF BroadCast, WaitsFor, Moved, Awake

\* What a job is.
LEMMA JobsAre ==
  /\ \A a \in Adders, n \in Nat : <<a, n>> \in Jobs <=> n \in 1 .. AddCalls[a]
  /\ \A j \in Jobs : \E a \in Adders : \E n \in 1 .. AddCalls[a] : j = <<a, n>>
  /\ NoJob \notin Jobs
  BY MtpQueueAssumption DEF Jobs, NoJob

\* ThreadCountReal still counts if no thread exits.
LEMMA CountKept ==
  ASSUME CountInv, threadCountReal' = threadCountReal,
         \A w \in Workers : pc'[w] = "exited" <=> pc[w] = "exited"
  PROVE  CountInv'
  <1>1. {w \in Workers : pc'[w] # "exited"} = {w \in Workers : pc[w] # "exited"}
    OBVIOUS
  <1> QED BY <1>1 DEF CountInv

\* A job stays where it is if no thread takes or finishes one.
LEMMA JobsKept ==
  ASSUME JobInv, UNCHANGED <<queue, job, history>>,
         \A w \in Workers : pc'[w] \in {"signalPop", "process"} <=> pc[w] \in {"signalPop", "process"}
  PROVE  JobInv'
  <1>1. \A j : (Queued(j)' <=> Queued(j)) /\ (Held(j)' <=> Held(j))
    BY DEF Queued, Held
  <1> QED BY <1>1 DEF JobInv, history

\* ThreadCountReal is zero when all threads have finished.
LEMMA NoneLeft ==
  ASSUME CountInv
  PROVE  threadCountReal = 0 <=> \A w \in Workers : pc[w] = "exited"
  <1>1. IsFiniteSet({w \in Workers : pc[w] # "exited"})
    BY MtpQueueAssumption, FS_Subset
  <1> QED BY <1>1, FS_EmptySet DEF CountInv

\* The job of a call of Add that has not been decided.
LEMMA ThisJobIsNew ==
  ASSUME IInv, NEW a \in Adders,
         pc[a] \in {"inline", "lock", "test", "full", "check", "waitPop"}
  PROVE  /\ ThisJob(a) \in Jobs /\ ThisJob(a) \notin accepted
         /\ ~Queued(ThisJob(a)) /\ ~Held(ThisJob(a)) /\ processed[ThisJob(a)] = 0
  <1>1. calls[a] \in 1 .. AddCalls[a] /\ ThisJob(a) \notin accepted
    BY MtpQueueAssumption DEF IInv, TypeOK, CallInv
  <1>2. ThisJob(a) \in Jobs
    BY <1>1, JobsAre, MtpQueueAssumption DEF ThisJob
  <1> QED BY <1>1, <1>2 DEF IInv, JobInv

\* What Append does to a queue of distinct jobs.
LEMMA AppendQueue ==
  ASSUME queue \in Seq(Jobs), NEW e \in Jobs, queue' = Append(queue, e)
  PROVE  /\ queue' \in Seq(Jobs)
         /\ \A j : Queued(j)' <=> Queued(j) \/ j = e
         /\ ~Queued(e) /\ (\A i, k \in DOMAIN queue : queue[i] = queue[k] => i = k)
              => \A i, k \in DOMAIN queue' : queue'[i] = queue'[k] => i = k
  <1>1. /\ queue' \in Seq(Jobs)
        /\ DOMAIN queue' = DOMAIN queue \cup {Len(queue) + 1}
        /\ \A k \in DOMAIN queue : queue'[k] = queue[k]
        /\ queue'[Len(queue) + 1] = e
    OBVIOUS
  <1> QED BY <1>1 DEF Queued

\* What Tail does to it.
LEMMA TailQueue ==
  ASSUME queue \in Seq(Jobs), queue # <<>>, queue' = Tail(queue),
         \A i, k \in DOMAIN queue : queue[i] = queue[k] => i = k
  PROVE  /\ queue' \in Seq(Jobs) /\ Head(queue) \in Jobs /\ Queued(Head(queue))
         /\ \A j : Queued(j)' <=> Queued(j) /\ j # Head(queue)
         /\ \A i, k \in DOMAIN queue' : queue'[i] = queue'[k] => i = k
  <1>1. /\ queue' \in Seq(Jobs) /\ Head(queue) = queue[1] /\ 1 \in DOMAIN queue /\ queue[1] \in Jobs
        /\ \A k \in DOMAIN queue' : k + 1 \in DOMAIN queue /\ k + 1 # 1 /\ queue'[k] = queue[k + 1]
        /\ \A k \in DOMAIN queue : k # 1 => k - 1 \in DOMAIN queue' /\ queue'[k - 1] = queue[k]
        /\ DOMAIN queue' \subseteq Int
    OBVIOUS
  <1>2. \A j : Queued(j)' => Queued(j) /\ j # Head(queue)
    BY <1>1 DEF Queued
  <1>3. ASSUME NEW j, Queued(j), j # Head(queue) PROVE Queued(j)'
    <2>1. PICK k \in DOMAIN queue : queue[k] = j
      BY <1>3 DEF Queued
    <2>2. k - 1 \in DOMAIN queue' /\ queue'[k - 1] = j
      BY <1>1, <1>3, <2>1
    <2> QED BY <2>2 DEF Queued
  <1>4. \A i, k \in DOMAIN queue' : queue'[i] = queue'[k] => i = k
    BY <1>1
  <1>5. Queued(Head(queue))
    BY <1>1 DEF Queued
  <1> QED BY <1>1, <1>2, <1>3, <1>4, <1>5

\* A thread that is awake, or a signal that is to come, stays so.
LEMMA StillRemembered ==
  ASSUME JobsNotForgotten, queue' = queue,
         \A w \in Workers : pc'[w] \in {"waitPush", "finish", "exited"} =>
                             pc[w] \in {"waitPush", "finish", "exited"},
         \A a \in Adders : pc[a] = "signalPush" => pc'[a] = "signalPush"
  PROVE  JobsNotForgotten'
  BY DEF JobsNotForgotten

\* While the owner stays where it is, or wakes from its wait, Stop depends on
\* the threads that finish or go to sleep alone.
LEMMA StopKept ==
  ASSUME StopInv, UNCHANGED <<threads, queue, shouldTerminate>>,
         pc'[Owner] = pc[Owner] \/ (pc[Owner] = "waitStop" /\ pc'[Owner] = "lockStop"),
         \A w \in Workers : /\ pc'[w] \in {"finish", "exited"} => pc[w] \in {"finish", "exited"}
                            /\ pc'[w] = "exited" <=> pc[w] = "exited"
                            /\ pc'[w] = "empty" => pc[w] = "empty"
                            /\ pc'[w] = "waitPush" => pc[w] = "waitPush"
  PROVE  StopInv'
  BY DEF StopInv

\* What every step below needs: who is where, and how a thread moves.
USE MtpQueueAssumption DEF Moved, Waits, Awake, Threads, OwnerPlaces, AdderPlaces, WorkerPlaces,
  Places

(***************************************************************************)
(* Condition variables and mutexes.                                        *)
(***************************************************************************)

\* A thread enters QueueMutex.
LEMMA LockQueueInv ==
  ASSUME IInv, NEW t \in Adders \cup Workers, LockQueue(t)
  PROVE  IInv'
  <1>m. /\ Moved(t, "test", "none")
        /\ \A u \in Threads : u # t => pc'[u] = pc[u]
    BY GoToMoves DEF IInv, LockQueue
  <1>1. TypeOK'
    BY <1>m DEF IInv, TypeOK, LockQueue, config, history
  <1>2. LockInv'
    BY <1>m DEF IInv, TypeOK, LockInv, LockQueue, config, history
  <1>3. CountInv'
    BY <1>m, CountKept DEF IInv, TypeOK, LockQueue
  <1>4. StartInv'
    BY <1>m DEF IInv, TypeOK, StartInv, LockQueue, config, history
  <1>5. JobInv'
    BY <1>m, JobsKept DEF IInv, TypeOK, history, LockQueue
  <1>6. CallInv'
    BY <1>m DEF IInv, TypeOK, CallInv, ThisJob, LockQueue, config, history
  <1>7. StopInv'
    BY <1>m, StopKept DEF IInv, TypeOK, LockQueue, config
  <1>8. JobsNotForgotten'
    BY <1>m, StillRemembered DEF IInv, TypeOK, LockQueue
  <1> QED BY <1>1, <1>2, <1>3, <1>4, <1>5, <1>6, <1>7, <1>8 DEF IInv

\* A thread wakes for no reason and tests its condition again.
LEMMA SpuriousWakeupInv ==
  ASSUME IInv, NEW t \in Threads, SpuriousWakeup(t)
  PROVE  IInv'
  <1>m. /\ Moved(t, Awake(t), "none")
        /\ \A u \in Threads : u # t => pc'[u] = pc[u]
    BY GoToMoves DEF IInv, SpuriousWakeup
  <1>1. TypeOK'
    <2>1. /\ pc' \in [Threads -> Places] /\ pc'[Owner] \in OwnerPlaces
          /\ \A b \in Adders : pc'[b] \in AdderPlaces
          /\ \A v \in Workers : pc'[v] \in WorkerPlaces
      BY <1>m DEF IInv, TypeOK, SpuriousWakeup
    <2> QED BY <2>1 DEF IInv, TypeOK, SpuriousWakeup, config, locks, history
  <1>2. LockInv'
    BY <1>m DEF IInv, TypeOK, LockInv, SpuriousWakeup, config, locks, history
  <1>3. CountInv'
    BY <1>m, CountKept DEF IInv, TypeOK, SpuriousWakeup
  <1>4. StartInv'
    BY <1>m DEF IInv, TypeOK, StartInv, SpuriousWakeup, config, locks, history
  <1>5. JobInv'
    BY <1>m, JobsKept DEF IInv, TypeOK, history, SpuriousWakeup
  <1>6. CallInv'
    BY <1>m DEF IInv, TypeOK, CallInv, ThisJob, SpuriousWakeup, config, locks, history
  <1>7. StopInv'
    BY <1>m, StopKept DEF IInv, TypeOK, SpuriousWakeup, config
  <1>8. JobsNotForgotten'
    BY <1>m, StillRemembered DEF IInv, TypeOK, SpuriousWakeup
  <1> QED BY <1>1, <1>2, <1>3, <1>4, <1>5, <1>6, <1>7, <1>8 DEF IInv

(***************************************************************************)
(* Add.                                                                    *)
(***************************************************************************)

\* A call of Add makes a new job.
LEMMA CallAddInv ==
  ASSUME IInv, NEW a \in Adders, CallAdd(a)
  PROVE  IInv'
  <1>m. /\ Moved(a, IF shouldTerminate THEN "idle" ELSE IF threads = {} THEN "inline" ELSE "lock",
                 "none")
        /\ \A u \in Threads : u # a => pc'[u] = pc[u]
    BY GoToMoves DEF IInv, CallAdd
  <1>1. TypeOK'
    <2>1. /\ pc' \in [Threads -> Places] /\ pc'[Owner] \in OwnerPlaces
          /\ \A b \in Adders : pc'[b] \in AdderPlaces
          /\ \A v \in Workers : pc'[v] \in WorkerPlaces
      BY <1>m DEF IInv, TypeOK, CallAdd
    <2>2. calls' \in [Adders -> Nat] /\ \A b \in Adders : calls'[b] <= AddCalls[b]
      <3>1. calls[a] \in Nat /\ AddCalls[a] \in Nat /\ calls[a] + 1 <= AddCalls[a]
        <4>1. calls[a] \in Nat /\ AddCalls[a] \in Nat
          BY DEF IInv, TypeOK
        <4> QED BY <4>1 DEF CallAdd
      <3> QED BY <3>1 DEF IInv, TypeOK, CallAdd
    <2> QED BY <2>1, <2>2 DEF IInv, TypeOK, CallAdd, config, locks, history
  <1>2. LockInv'
    BY <1>m DEF IInv, TypeOK, LockInv, CallAdd, config, locks, history
  <1>3. CountInv'
    BY <1>m, CountKept DEF IInv, TypeOK, CallAdd
  <1>4. StartInv'
    BY <1>m DEF IInv, TypeOK, StartInv, CallAdd, config, locks, history
  <1>5. JobInv'
    BY <1>m, JobsKept DEF IInv, TypeOK, history, CallAdd
  <1>6. CallInv'
    <2>1. \A b \in Adders : b # a => pc'[b] = pc[b] /\ calls'[b] = calls[b]
      BY <1>m DEF IInv, TypeOK, CallAdd
    <2>2. accepted' = accepted /\ calls'[a] = calls[a] + 1 /\ calls[a] \in Nat
      BY DEF IInv, TypeOK, CallAdd, history
    <2>3. <<a, calls[a] + 1>> \notin accepted
      <3>1. calls[a] + 1 \in 1 .. AddCalls[a]
        BY <2>2 DEF CallAdd
      <3>2. \A n \in 1 .. AddCalls[a] : <<a, n>> \in accepted => n <= calls[a]
        BY DEF IInv, CallInv
      <3> QED BY <2>2, <3>1, <3>2
    <2>4. \A n \in 1 .. AddCalls[a] : <<a, n>> \in accepted => n <= calls[a] + 1
      BY <2>2 DEF IInv, TypeOK, CallInv
    <2> QED BY <2>1, <2>2, <2>3, <2>4 DEF IInv, CallInv, ThisJob
  <1>7. StopInv'
    BY <1>m, StopKept DEF IInv, TypeOK, CallAdd, config
  <1>8. JobsNotForgotten'
    BY <1>m, StillRemembered DEF IInv, TypeOK, CallAdd
  <1> QED BY <1>1, <1>2, <1>3, <1>4, <1>5, <1>6, <1>7, <1>8 DEF IInv

\* Without threads the caller processes its job.
LEMMA ProcessInlineInv ==
  ASSUME IInv, NEW a \in Adders, ProcessInline(a)
  PROVE  IInv'
  <1>m. /\ Moved(a, "idle", "none")
        /\ \A u \in Threads : u # a => pc'[u] = pc[u]
    BY GoToMoves DEF IInv, ProcessInline
  <1>1. TypeOK'
    <2>1. /\ pc' \in [Threads -> Places] /\ pc'[Owner] \in OwnerPlaces
          /\ \A b \in Adders : pc'[b] \in AdderPlaces
          /\ \A v \in Workers : pc'[v] \in WorkerPlaces
      BY <1>m DEF IInv, TypeOK, ProcessInline
    <2>2. ThisJob(a) \in Jobs
      BY ThisJobIsNew DEF ProcessInline
    <2> QED BY <2>1, <2>2 DEF IInv, TypeOK, ProcessInline, config, locks
  <1>2. LockInv'
    BY <1>m DEF IInv, TypeOK, LockInv, ProcessInline, config, locks
  <1>3. CountInv'
    BY <1>m, CountKept DEF IInv, TypeOK, ProcessInline
  <1>4. StartInv'
    BY <1>m DEF IInv, TypeOK, StartInv, ProcessInline, config, locks
  <1>5. JobInv'
    <2> DEFINE e == ThisJob(a)
    <2>1. /\ e \in Jobs /\ e \notin accepted /\ ~Queued(e) /\ ~Held(e) /\ processed[e] = 0
      BY ThisJobIsNew DEF ProcessInline
    <2>2. accepted' = accepted \cup {e} /\ processed' = [processed EXCEPT ![e] = @ + 1]
      BY DEF ProcessInline
    <2>3. \A j : (Queued(j)' <=> Queued(j)) /\ (Held(j)' <=> Held(j))
      BY DEF ProcessInline, Queued, Held
    <2>4. \A v \in Workers : pc'[v] = pc[v]
      BY <1>m
    <2> HIDE DEF e
    <2>5. ASSUME NEW j \in Jobs
          PROVE  /\ Queued(j)' => ~Held(j)'
                 /\ j \in accepted' => processed'[j] = IF Queued(j)' \/ Held(j)' THEN 0 ELSE 1
                 /\ j \notin accepted' => ~Queued(j)' /\ ~Held(j)' /\ processed'[j] = 0
      <3>1. CASE j = e
        BY <2>1, <2>2, <2>3, <3>1 DEF IInv, TypeOK
      <3>2. CASE j # e
        BY <2>1, <2>2, <2>3, <3>2 DEF IInv, TypeOK, JobInv
      <3> QED BY <3>1, <3>2
    <2> QED BY <2>4, <2>5 DEF IInv, JobInv, ProcessInline
  <1>6. CallInv'
    BY <1>m DEF IInv, TypeOK, CallInv, ThisJob, ProcessInline, config, locks
  <1>7. StopInv'
    BY <1>m DEF IInv, TypeOK, StopInv, LockInv, ProcessInline, config, locks
  <1>8. JobsNotForgotten'
    BY <1>m DEF IInv, TypeOK, JobsNotForgotten, StopInv, StartInv, ProcessInline, config, locks
  <1> QED BY <1>1, <1>2, <1>3, <1>4, <1>5, <1>6, <1>7, <1>8 DEF IInv

\* Add finds the queue full, or not.
LEMMA AddTestInv ==
  ASSUME IInv, NEW a \in Adders, AddTest(a)
  PROVE  IInv'
  <1>m. /\ Moved(a, IF Full THEN "full" ELSE "check", "none")
        /\ \A u \in Threads : u # a => pc'[u] = pc[u]
    BY GoToMoves DEF IInv, AddTest
  <1>1. TypeOK'
    <2>1. /\ pc' \in [Threads -> Places] /\ pc'[Owner] \in OwnerPlaces
          /\ \A b \in Adders : pc'[b] \in AdderPlaces
          /\ \A v \in Workers : pc'[v] \in WorkerPlaces
      BY <1>m DEF IInv, TypeOK, AddTest
    <2> QED BY <2>1 DEF IInv, TypeOK, AddTest, config, locks, history
  <1>2. LockInv'
    BY <1>m DEF IInv, TypeOK, LockInv, AddTest, config, locks, history
  <1>3. CountInv'
    BY <1>m, CountKept DEF IInv, TypeOK, AddTest
  <1>4. StartInv'
    BY <1>m DEF IInv, TypeOK, StartInv, AddTest, config, locks, history
  <1>5. JobInv'
    BY <1>m, JobsKept DEF IInv, TypeOK, history, AddTest
  <1>6. CallInv'
    BY <1>m DEF IInv, TypeOK, CallInv, ThisJob, AddTest, config, locks, history
  <1>7. StopInv'
    BY <1>m, StopKept DEF IInv, TypeOK, AddTest, config
  <1>8. JobsNotForgotten'
    BY <1>m, StillRemembered DEF IInv, TypeOK, AddTest
  <1> QED BY <1>1, <1>2, <1>3, <1>4, <1>5, <1>6, <1>7, <1>8 DEF IInv

\* Add waits or gives up.
LEMMA AddFullInv ==
  ASSUME IInv, NEW a \in Adders, AddFull(a)
  PROVE  IInv'
  <1>m. /\ Moved(a, IF blocking THEN "waitPop" ELSE "idle", "none")
        /\ \A u \in Threads : u # a => pc'[u] = pc[u]
    BY GoToMoves DEF IInv, AddFull
  <1>1. TypeOK'
    BY <1>m DEF IInv, TypeOK, AddFull, config, history
  <1>2. LockInv'
    BY <1>m DEF IInv, TypeOK, LockInv, AddFull, config, history
  <1>3. CountInv'
    BY <1>m, CountKept DEF IInv, TypeOK, AddFull
  <1>4. StartInv'
    BY <1>m DEF IInv, TypeOK, StartInv, AddFull, config, history
  <1>5. JobInv'
    BY <1>m, JobsKept DEF IInv, TypeOK, history, AddFull
  <1>6. CallInv'
    BY <1>m DEF IInv, TypeOK, CallInv, ThisJob, AddFull, config, history
  <1>7. StopInv'
    BY <1>m, StopKept DEF IInv, TypeOK, AddFull, config
  <1>8. JobsNotForgotten'
    BY <1>m, StillRemembered DEF IInv, TypeOK, AddFull
  <1> QED BY <1>1, <1>2, <1>3, <1>4, <1>5, <1>6, <1>7, <1>8 DEF IInv

\* Add refuses a job while the queue stops.
LEMMA AddRefusedInv ==
  ASSUME IInv, NEW a \in Adders, AddRefused(a)
  PROVE  IInv'
  <1>m. /\ Moved(a, "idle", "none")
        /\ \A u \in Threads : u # a => pc'[u] = pc[u]
    BY GoToMoves DEF IInv, AddRefused
  <1>1. TypeOK'
    BY <1>m DEF IInv, TypeOK, AddRefused, config, history
  <1>2. LockInv'
    BY <1>m DEF IInv, TypeOK, LockInv, AddRefused, config, history
  <1>3. CountInv'
    BY <1>m, CountKept DEF IInv, TypeOK, AddRefused
  <1>4. StartInv'
    BY <1>m DEF IInv, TypeOK, StartInv, AddRefused, config, history
  <1>5. JobInv'
    BY <1>m, JobsKept DEF IInv, TypeOK, history, AddRefused
  <1>6. CallInv'
    BY <1>m DEF IInv, TypeOK, CallInv, ThisJob, AddRefused, config, history
  <1>7. StopInv'
    BY <1>m, StopKept DEF IInv, TypeOK, AddRefused, config
  <1>8. JobsNotForgotten'
    BY <1>m, StillRemembered DEF IInv, TypeOK, AddRefused
  <1> QED BY <1>1, <1>2, <1>3, <1>4, <1>5, <1>6, <1>7, <1>8 DEF IInv

\* Add accepts a job, under QueueMutex and before the queue stops: no thread
\* has left its loop.
LEMMA AddPushInv ==
  ASSUME IInv, NEW a \in Adders, AddPush(a)
  PROVE  IInv'
  <1>m. /\ Moved(a, "signalPush", "none")
        /\ \A u \in Threads : u # a => pc'[u] = pc[u]
    BY GoToMoves DEF IInv, AddPush
  <1>1. TypeOK'
    <2>1. /\ pc' \in [Threads -> Places] /\ pc'[Owner] \in OwnerPlaces
          /\ \A b \in Adders : pc'[b] \in AdderPlaces
          /\ \A v \in Workers : pc'[v] \in WorkerPlaces
      BY <1>m DEF IInv, TypeOK, AddPush
    <2>2. ThisJob(a) \in Jobs
      BY ThisJobIsNew DEF AddPush
    <2>3. queue' \in Seq(Jobs)
      BY <2>2, AppendQueue DEF IInv, TypeOK, AddPush
    <2> QED BY <2>1, <2>2, <2>3 DEF IInv, TypeOK, AddPush, config
  <1>2. LockInv'
    BY <1>m DEF IInv, TypeOK, LockInv, AddPush, config
  <1>3. CountInv'
    BY <1>m, CountKept DEF IInv, TypeOK, AddPush
  <1>4. StartInv'
    BY <1>m DEF IInv, TypeOK, StartInv, AddPush, config
  <1>5. JobInv'
    <2> DEFINE e == ThisJob(a)
    <2>1. /\ e \in Jobs /\ e \notin accepted /\ ~Queued(e) /\ ~Held(e) /\ processed[e] = 0
      BY ThisJobIsNew DEF AddPush
    <2>2. accepted' = accepted \cup {e} /\ queue' = Append(queue, e)
      BY DEF AddPush
    <2>3. \A j : Held(j)' <=> Held(j)
      BY DEF AddPush, Held
    <2>4. \A v \in Workers : pc'[v] = pc[v]
      BY <1>m
    <2> HIDE DEF e
    <2>5. /\ \A j : Queued(j)' <=> Queued(j) \/ j = e
          /\ \A i, k \in DOMAIN queue' : queue'[i] = queue'[k] => i = k
      BY <2>1, <2>2, AppendQueue DEF IInv, TypeOK, JobInv
    <2>6. ASSUME NEW j \in Jobs
          PROVE  /\ Queued(j)' => ~Held(j)'
                 /\ j \in accepted' => processed'[j] = IF Queued(j)' \/ Held(j)' THEN 0 ELSE 1
                 /\ j \notin accepted' => ~Queued(j)' /\ ~Held(j)' /\ processed'[j] = 0
      BY <2>1, <2>2, <2>3, <2>5 DEF IInv, JobInv, AddPush
    <2> QED BY <2>4, <2>5, <2>6 DEF IInv, JobInv, AddPush
  <1>6. CallInv'
    BY <1>m DEF IInv, TypeOK, CallInv, ThisJob, AddPush, config
  <1>7. StopInv'
    BY <1>m DEF IInv, TypeOK, StopInv, LockInv, AddPush, config
  <1>8. JobsNotForgotten'
    BY <1>m DEF IInv, TypeOK, JobsNotForgotten, StopInv, StartInv, AddPush, config
  <1> QED BY <1>1, <1>2, <1>3, <1>4, <1>5, <1>6, <1>7, <1>8 DEF IInv

\* Add signals: a thread wakes, or none sleeps.
LEMMA AddSignalInv ==
  ASSUME IInv, NEW a \in Adders, AddSignal(a)
  PROVE  IInv'
  <1>m. /\ Moved(a, "idle", "waitPush")
        /\ \/ \A u \in Threads : pc[u] # "waitPush"
           \/ \E u \in Threads : u # a /\ pc[u] = "waitPush" /\ pc'[u] = Awake(u)
    BY SignalMoves DEF IInv, AddSignal
  <1>1. TypeOK'
    BY <1>m DEF IInv, TypeOK, AddSignal, config, locks, history
  <1>2. LockInv'
    BY <1>m DEF IInv, TypeOK, LockInv, AddSignal, config, locks, history
  <1>3. CountInv'
    BY <1>m, CountKept DEF IInv, TypeOK, AddSignal
  <1>4. StartInv'
    BY <1>m DEF IInv, TypeOK, StartInv, AddSignal, config, locks, history
  <1>5. JobInv'
    BY <1>m, JobsKept DEF IInv, TypeOK, history, AddSignal
  <1>6. CallInv'
    BY <1>m DEF IInv, TypeOK, CallInv, ThisJob, AddSignal, config, locks, history
  <1>7. StopInv'
    BY <1>m, StopKept DEF IInv, TypeOK, AddSignal, config
  <1>8. JobsNotForgotten'
    <2> SUFFICES ASSUME queue # <<>>
                 PROVE  \E w \in Workers : pc'[w] \notin {"waitPush", "finish", "exited"}
      BY DEF JobsNotForgotten, AddSignal
    <2>1. \A w \in Workers : pc[w] \notin {"finish", "exited"}
      BY DEF IInv, StartInv, StopInv
    <2>2. CASE \E u \in Threads : pc[u] = "waitPush" /\ pc'[u] = Awake(u)
      BY <2>2 DEF IInv, TypeOK
    <2>3. CASE \A u \in Threads : pc[u] # "waitPush"
      <3>1. \E w \in Workers : TRUE
        BY DEF IInv, TypeOK, StartInv
      <3>2. \A w \in Workers : pc'[w] = pc[w] /\ pc[w] # "waitPush"
        BY <1>m, <2>3
      <3> QED BY <2>1, <3>1, <3>2
    <2> QED BY <1>m, <2>2, <2>3
  <1> QED BY <1>1, <1>2, <1>3, <1>4, <1>5, <1>6, <1>7, <1>8 DEF IInv

(***************************************************************************)
(* DoExecute.                                                              *)
(***************************************************************************)

\* A thread goes to wait only for an empty queue that is not stopping.
LEMMA WorkerTestInv ==
  ASSUME IInv, NEW w \in Workers, WorkerTest(w)
  PROVE  IInv'
  <1>m. /\ Moved(w, IF queue = <<>> /\ ~shouldTerminate THEN "empty" ELSE "check", "none")
        /\ \A u \in Threads : u # w => pc'[u] = pc[u]
    BY GoToMoves DEF IInv, WorkerTest
  <1>1. TypeOK'
    BY <1>m DEF IInv, TypeOK, WorkerTest, config, locks, history
  <1>2. LockInv'
    BY <1>m DEF IInv, TypeOK, LockInv, WorkerTest, config, locks, history
  <1>3. CountInv'
    BY <1>m, CountKept DEF IInv, TypeOK, WorkerTest
  <1>4. StartInv'
    BY <1>m DEF IInv, TypeOK, StartInv, WorkerTest, config, locks, history
  <1>5. JobInv'
    BY <1>m, JobsKept DEF IInv, TypeOK, history, WorkerTest
  <1>6. CallInv'
    BY <1>m DEF IInv, TypeOK, CallInv, ThisJob, WorkerTest, config, locks, history
  <1>7. StopInv'
    BY <1>m DEF IInv, TypeOK, StopInv, LockInv, WorkerTest, config, locks, history
  <1>8. JobsNotForgotten'
    BY <1>m DEF IInv, TypeOK, JobsNotForgotten, StopInv, StartInv, WorkerTest, config, locks,
           history
  <1> QED BY <1>1, <1>2, <1>3, <1>4, <1>5, <1>6, <1>7, <1>8 DEF IInv

\* A thread sleeps; nothing was pushed since its test.
LEMMA WorkerWaitInv ==
  ASSUME IInv, NEW w \in Workers, WorkerWait(w)
  PROVE  IInv'
  <1>m. /\ Moved(w, "waitPush", "none")
        /\ \A u \in Threads : u # w => pc'[u] = pc[u]
    BY GoToMoves DEF IInv, WorkerWait
  <1>1. TypeOK'
    BY <1>m DEF IInv, TypeOK, WorkerWait, config, history
  <1>2. LockInv'
    BY <1>m DEF IInv, TypeOK, LockInv, WorkerWait, config, history
  <1>3. CountInv'
    BY <1>m, CountKept DEF IInv, TypeOK, WorkerWait
  <1>4. StartInv'
    BY <1>m DEF IInv, TypeOK, StartInv, WorkerWait, config, history
  <1>5. JobInv'
    BY <1>m, JobsKept DEF IInv, TypeOK, history, WorkerWait
  <1>6. CallInv'
    BY <1>m DEF IInv, TypeOK, CallInv, ThisJob, WorkerWait, config, history
  <1>7. StopInv'
    BY <1>m DEF IInv, TypeOK, StopInv, LockInv, WorkerWait, config, history
  <1>8. JobsNotForgotten'
    BY <1>m DEF IInv, TypeOK, JobsNotForgotten, StopInv, StartInv, WorkerWait, config, history
  <1> QED BY <1>1, <1>2, <1>3, <1>4, <1>5, <1>6, <1>7, <1>8 DEF IInv

\* A thread takes the first job.
LEMMA WorkerPopInv ==
  ASSUME IInv, NEW w \in Workers, WorkerPop(w)
  PROVE  IInv'
  <1>m. /\ Moved(w, "signalPop", "none")
        /\ \A u \in Threads : u # w => pc'[u] = pc[u]
    BY GoToMoves DEF IInv, WorkerPop
  <1>1. TypeOK'
    <2>1. /\ pc' \in [Threads -> Places] /\ pc'[Owner] \in OwnerPlaces
          /\ \A b \in Adders : pc'[b] \in AdderPlaces
          /\ \A v \in Workers : pc'[v] \in WorkerPlaces
      BY <1>m DEF IInv, TypeOK, WorkerPop
    <2>2. queue' \in Seq(Jobs) /\ Head(queue) \in Jobs
      BY TailQueue DEF IInv, TypeOK, JobInv, WorkerPop
    <2> QED BY <2>1, <2>2 DEF IInv, TypeOK, WorkerPop, config, history
  <1>2. LockInv'
    BY <1>m DEF IInv, TypeOK, LockInv, WorkerPop, config, history
  <1>3. CountInv'
    BY <1>m, CountKept DEF IInv, TypeOK, WorkerPop
  <1>4. StartInv'
    BY <1>m DEF IInv, TypeOK, StartInv, WorkerPop, config, history
  <1>5. JobInv'
    <2> DEFINE h == Head(queue)
    <2>1. /\ h \in Jobs /\ Queued(h) /\ h # NoJob
          /\ \A j : Queued(j)' <=> Queued(j) /\ j # h
          /\ \A i, k \in DOMAIN queue' : queue'[i] = queue'[k] => i = k
      BY TailQueue, JobsAre DEF IInv, TypeOK, JobInv, WorkerPop
    <2>2. job' = [job EXCEPT ![w] = h] /\ job[w] = NoJob
      BY DEF IInv, JobInv, WorkerPop
    <2>3. ~Held(h)
      BY <2>1 DEF IInv, JobInv
    <2> HIDE DEF h
    <2>4. \A j \in Jobs : Held(j)' <=> Held(j) \/ j = h
      BY <2>1, <2>2, JobsAre DEF IInv, TypeOK, Held
    <2>5. /\ \A v \in Workers : v # w => pc'[v] = pc[v]
          /\ pc'[w] = "signalPop"
      BY <1>m
    <2>6. \A v \in Workers : job'[v] # NoJob <=> pc'[v] \in {"signalPop", "process"}
      BY <2>1, <2>2, <2>5 DEF IInv, TypeOK, JobInv
    <2>7. \A u, v \in Workers : job'[u] = job'[v] /\ job'[u] # NoJob => u = v
      BY <2>2, <2>3 DEF IInv, TypeOK, JobInv, Held
    <2>8. ASSUME NEW j \in Jobs
          PROVE  /\ Queued(j)' => ~Held(j)'
                 /\ j \in accepted' => processed'[j] = IF Queued(j)' \/ Held(j)' THEN 0 ELSE 1
                 /\ j \notin accepted' => ~Queued(j)' /\ ~Held(j)' /\ processed'[j] = 0
      BY <2>1, <2>4 DEF IInv, JobInv, WorkerPop, history
    <2> QED BY <2>1, <2>6, <2>7, <2>8 DEF JobInv
  <1>6. CallInv'
    BY <1>m DEF IInv, TypeOK, CallInv, ThisJob, WorkerPop, config, history
  <1>7. StopInv'
    BY <1>m DEF IInv, TypeOK, StopInv, LockInv, WorkerPop, config, history
  <1>8. JobsNotForgotten'
    BY <1>m DEF IInv, TypeOK, JobsNotForgotten, StopInv, StartInv, WorkerPop, config, history
  <1> QED BY <1>1, <1>2, <1>3, <1>4, <1>5, <1>6, <1>7, <1>8 DEF IInv

\* The thread tells an adder that there is room.
LEMMA WorkerSignalInv ==
  ASSUME IInv, NEW w \in Workers, WorkerSignal(w)
  PROVE  IInv'
  <1>m. /\ Moved(w, "process", "waitPop")
        /\ \/ \A u \in Threads : pc[u] # "waitPop"
           \/ \E u \in Threads : u # w /\ pc[u] = "waitPop" /\ pc'[u] = Awake(u)
    BY SignalMoves DEF IInv, WorkerSignal
  <1>1. TypeOK'
    BY <1>m DEF IInv, TypeOK, WorkerSignal, config, locks, history
  <1>2. LockInv'
    BY <1>m DEF IInv, TypeOK, LockInv, WorkerSignal, config, locks, history
  <1>3. CountInv'
    BY <1>m, CountKept DEF IInv, TypeOK, WorkerSignal
  <1>4. StartInv'
    BY <1>m DEF IInv, TypeOK, StartInv, WorkerSignal, config, locks, history
  <1>5. JobInv'
    BY <1>m, JobsKept DEF IInv, TypeOK, history, WorkerSignal
  <1>6. CallInv'
    BY <1>m DEF IInv, TypeOK, CallInv, ThisJob, WorkerSignal, config, locks, history
  <1>7. StopInv'
    BY <1>m DEF IInv, TypeOK, StopInv, LockInv, WorkerSignal, config, locks, history
  <1>8. JobsNotForgotten'
    BY <1>m DEF IInv, TypeOK, JobsNotForgotten, StopInv, StartInv, WorkerSignal, config, locks,
           history
  <1> QED BY <1>1, <1>2, <1>3, <1>4, <1>5, <1>6, <1>7, <1>8 DEF IInv

\* The job of a thread is processed, for the first time.
LEMMA ProcessInv ==
  ASSUME IInv, NEW w \in Workers, Process(w)
  PROVE  IInv'
  <1>m. /\ Moved(w, "lock", "none")
        /\ \A u \in Threads : u # w => pc'[u] = pc[u]
    BY GoToMoves DEF IInv, Process
  <1>1. TypeOK'
    <2>1. /\ pc' \in [Threads -> Places] /\ pc'[Owner] \in OwnerPlaces
          /\ \A b \in Adders : pc'[b] \in AdderPlaces
          /\ \A v \in Workers : pc'[v] \in WorkerPlaces
      BY <1>m DEF IInv, TypeOK, Process
    <2>2. job[w] \in Jobs
      BY DEF IInv, TypeOK, JobInv, Process
    <2>3. processed' \in [Jobs -> Nat] /\ job' \in [Workers -> Jobs \cup {NoJob}]
      BY <2>2 DEF IInv, TypeOK, Process
    <2> QED BY <2>1, <2>3 DEF IInv, TypeOK, Process, config, locks
  <1>2. LockInv'
    BY <1>m DEF IInv, TypeOK, LockInv, Process, config, locks
  <1>3. CountInv'
    BY <1>m, CountKept DEF IInv, TypeOK, Process
  <1>4. StartInv'
    BY <1>m DEF IInv, TypeOK, StartInv, Process, config, locks
  <1>5. JobInv'
    <2> DEFINE h == job[w]
    <2>1. /\ h \in Jobs /\ h # NoJob /\ Held(h)
          /\ \A v \in Workers : job[v] = h => v = w
      BY DEF IInv, TypeOK, JobInv, Process, Held
    <2>2. ~Queued(h) /\ h \in accepted /\ processed[h] = 0
      BY <2>1 DEF IInv, JobInv
    <2>3. job' = [job EXCEPT ![w] = NoJob] /\ processed' = [processed EXCEPT ![h] = @ + 1]
      BY DEF Process
    <2>4. /\ \A v \in Workers : v # w => pc'[v] = pc[v]
          /\ pc'[w] = "lock"
      BY <1>m
    <2> HIDE DEF h
    <2>5. \A j \in Jobs : Held(j)' <=> Held(j) /\ j # h
      BY <2>1, <2>3, JobsAre DEF IInv, TypeOK, Held, h
    <2>6. \A j : Queued(j)' <=> Queued(j)
      BY DEF Process, Queued
    <2>7. \A v \in Workers : job'[v] # NoJob <=> pc'[v] \in {"signalPop", "process"}
      BY <2>3, <2>4 DEF IInv, TypeOK, JobInv
    <2>8. \A u, v \in Workers : job'[u] = job'[v] /\ job'[u] # NoJob => u = v
      BY <2>3 DEF IInv, TypeOK, JobInv
    <2>9. ASSUME NEW j \in Jobs
          PROVE  /\ Queued(j)' => ~Held(j)'
                 /\ j \in accepted' => processed'[j] = IF Queued(j)' \/ Held(j)' THEN 0 ELSE 1
                 /\ j \notin accepted' => ~Queued(j)' /\ ~Held(j)' /\ processed'[j] = 0
      <3>1. CASE j = h
        BY <2>1, <2>2, <2>3, <2>5, <2>6, <3>1 DEF IInv, TypeOK, Process
      <3>2. CASE j # h
        BY <2>1, <2>3, <2>5, <2>6, <3>2 DEF IInv, TypeOK, JobInv, Process
      <3> QED BY <3>1, <3>2
    <2> QED BY <2>7, <2>8, <2>9 DEF IInv, JobInv, Process
  <1>6. CallInv'
    BY <1>m DEF IInv, TypeOK, CallInv, ThisJob, Process, config, locks
  <1>7. StopInv'
    BY <1>m DEF IInv, TypeOK, StopInv, LockInv, Process, config, locks
  <1>8. JobsNotForgotten'
    BY <1>m DEF IInv, TypeOK, JobsNotForgotten, StopInv, StartInv, Process, config, locks
  <1> QED BY <1>1, <1>2, <1>3, <1>4, <1>5, <1>6, <1>7, <1>8 DEF IInv

\* A thread leaves its loop when the queue is empty and stops.
LEMMA WorkerBreakInv ==
  ASSUME IInv, NEW w \in Workers, WorkerBreak(w)
  PROVE  IInv'
  <1>m. /\ Moved(w, "finish", "none")
        /\ \A u \in Threads : u # w => pc'[u] = pc[u]
    BY GoToMoves DEF IInv, WorkerBreak
  <1>1. TypeOK'
    BY <1>m DEF IInv, TypeOK, WorkerBreak, config, history
  <1>2. LockInv'
    BY <1>m DEF IInv, TypeOK, LockInv, WorkerBreak, config, history
  <1>3. CountInv'
    BY <1>m, CountKept DEF IInv, TypeOK, WorkerBreak
  <1>4. StartInv'
    BY <1>m DEF IInv, TypeOK, StartInv, WorkerBreak, config, history
  <1>5. JobInv'
    BY <1>m, JobsKept DEF IInv, TypeOK, history, WorkerBreak
  <1>6. CallInv'
    BY <1>m DEF IInv, TypeOK, CallInv, ThisJob, WorkerBreak, config, history
  <1>7. StopInv'
    BY <1>m DEF IInv, TypeOK, StopInv, LockInv, WorkerBreak, config, history
  <1>8. JobsNotForgotten'
    BY <1>m DEF IInv, TypeOK, JobsNotForgotten, StopInv, StartInv, WorkerBreak, config, history
  <1> QED BY <1>1, <1>2, <1>3, <1>4, <1>5, <1>6, <1>7, <1>8 DEF IInv

\* A thread exits and wakes the owner, if it sleeps.
LEMMA FinishOneThreadInv ==
  ASSUME IInv, NEW w \in Workers, FinishOneThread(w)
  PROVE  IInv'
  <1>m. /\ Moved(w, "exited", "waitStop")
        /\ \/ \A u \in Threads : pc[u] # "waitStop"
           \/ \E u \in Threads : u # w /\ pc[u] = "waitStop" /\ pc'[u] = Awake(u)
    BY SignalMoves DEF IInv, FinishOneThread
  <1>1. TypeOK'
    BY <1>m DEF IInv, TypeOK, FinishOneThread, config, locks, history
  <1>2. LockInv'
    BY <1>m DEF IInv, TypeOK, LockInv, FinishOneThread, config, locks, history
  <1>3. CountInv'
    <2>1. {v \in Workers : pc'[v] # "exited"} = {v \in Workers : pc[v] # "exited"} \ {w}
      BY <1>m DEF IInv, TypeOK, FinishOneThread
    <2>2. w \in {v \in Workers : pc[v] # "exited"} /\ IsFiniteSet({v \in Workers : pc[v] # "exited"})
      BY FS_Subset DEF FinishOneThread
    <2> QED BY <2>1, <2>2, FS_RemoveElement DEF IInv, CountInv, FinishOneThread
  <1>4. StartInv'
    BY <1>m DEF IInv, TypeOK, StartInv, FinishOneThread, config, locks, history
  <1>5. JobInv'
    BY <1>m, JobsKept DEF IInv, TypeOK, history, FinishOneThread
  <1>6. CallInv'
    BY <1>m DEF IInv, TypeOK, CallInv, ThisJob, FinishOneThread, config, locks, history
  <1>7. StopInv'
    BY <1>m DEF IInv, TypeOK, StopInv, LockInv, FinishOneThread, config, locks, history
  <1>8. JobsNotForgotten'
    BY <1>m DEF IInv, TypeOK, JobsNotForgotten, StopInv, StartInv, FinishOneThread, config,
           locks, history
  <1> QED BY <1>1, <1>2, <1>3, <1>4, <1>5, <1>6, <1>7, <1>8 DEF IInv

(***************************************************************************)
(* Stop.                                                                   *)
(***************************************************************************)

\* Stop begins.
LEMMA SetTerminateInv ==
  ASSUME IInv, SetTerminate
  PROVE  IInv'
  <1>m. /\ Moved(Owner, "broadcast", "none")
        /\ \A u \in Threads : u # Owner => pc'[u] = pc[u]
    BY GoToMoves DEF IInv, SetTerminate
  <1>1. TypeOK'
    BY <1>m DEF IInv, TypeOK, SetTerminate, config, locks, history
  <1>2. LockInv'
    BY <1>m DEF IInv, TypeOK, LockInv, SetTerminate, config, locks, history
  <1>3. CountInv'
    BY <1>m, CountKept DEF IInv, TypeOK, SetTerminate
  <1>4. StartInv'
    BY <1>m DEF IInv, TypeOK, StartInv, SetTerminate, config, locks, history
  <1>5. JobInv'
    BY <1>m, JobsKept DEF IInv, TypeOK, history, SetTerminate
  <1>6. CallInv'
    BY <1>m DEF IInv, TypeOK, CallInv, ThisJob, SetTerminate, config, locks, history
  <1>7. StopInv'
    BY <1>m DEF IInv, TypeOK, StopInv, LockInv, SetTerminate, config, locks, history
  <1>8. JobsNotForgotten'
    BY <1>m DEF IInv, TypeOK, JobsNotForgotten, StopInv, StartInv, SetTerminate, config, locks,
           history
  <1> QED BY <1>1, <1>2, <1>3, <1>4, <1>5, <1>6, <1>7, <1>8 DEF IInv

\* The owner has been inside QueueMutex: no thread is between its test and its
\* wait any more.
LEMMA ReleaseAddersInv ==
  ASSUME IInv, ReleaseAdders
  PROVE  IInv'
  <1>m. Moved(Owner, "lockStop", "waitPop")
    <2>1. TypeOK /\ BroadCast(Owner, "lockStop", "waitPop")
      BY DEF IInv, ReleaseAdders
    <2>2. Owner \in Threads /\ "lockStop" \in Places /\ "waitPop" \in Waits
      OBVIOUS
    <2> QED BY <2>1, <2>2, BroadCastMoves
  <1>1. TypeOK'
    BY <1>m DEF IInv, TypeOK, ReleaseAdders, config, locks, history
  <1>2. LockInv'
    BY <1>m DEF IInv, TypeOK, LockInv, ReleaseAdders, config, locks, history
  <1>3. CountInv'
    BY <1>m, CountKept DEF IInv, TypeOK, ReleaseAdders
  <1>4. StartInv'
    BY <1>m DEF IInv, TypeOK, StartInv, ReleaseAdders, config, locks, history
  <1>5. JobInv'
    BY <1>m, JobsKept DEF IInv, TypeOK, history, ReleaseAdders
  <1>6. CallInv'
    BY <1>m DEF IInv, TypeOK, CallInv, ThisJob, ReleaseAdders, config, locks, history
  <1>7. StopInv'
    BY <1>m DEF IInv, TypeOK, StopInv, LockInv, ReleaseAdders, config, locks, history
  <1>8. JobsNotForgotten'
    BY <1>m, StillRemembered DEF IInv, TypeOK, ReleaseAdders, config
  <1> QED BY <1>1, <1>2, <1>3, <1>4, <1>5, <1>6, <1>7, <1>8 DEF IInv

\* The owner enters StopMutex: no thread exits while it is inside.
LEMMA LockStopInv ==
  ASSUME IInv, LockStop
  PROVE  IInv'
  <1>m. /\ Moved(Owner, "testStop", "none")
        /\ \A u \in Threads : u # Owner => pc'[u] = pc[u]
    BY GoToMoves DEF IInv, LockStop
  <1>1. TypeOK'
    BY <1>m DEF IInv, TypeOK, LockStop, config, history
  <1>2. LockInv'
    BY <1>m DEF IInv, TypeOK, LockInv, LockStop, config, history
  <1>3. CountInv'
    BY <1>m, CountKept DEF IInv, TypeOK, LockStop
  <1>4. StartInv'
    BY <1>m DEF IInv, TypeOK, StartInv, LockStop, config, history
  <1>5. JobInv'
    BY <1>m, JobsKept DEF IInv, TypeOK, history, LockStop
  <1>6. CallInv'
    BY <1>m DEF IInv, TypeOK, CallInv, ThisJob, LockStop, config, history
  <1>7. StopInv'
    BY <1>m DEF IInv, TypeOK, StopInv, LockInv, LockStop, config, history
  <1>8. JobsNotForgotten'
    BY <1>m DEF IInv, TypeOK, JobsNotForgotten, StopInv, StartInv, LockStop, config, history
  <1> QED BY <1>1, <1>2, <1>3, <1>4, <1>5, <1>6, <1>7, <1>8 DEF IInv

\* Some thread has not exited.
LEMMA TestStopInv ==
  ASSUME IInv, TestStop
  PROVE  IInv'
  <1>m. /\ Moved(Owner, "wakeWorker", "none")
        /\ \A u \in Threads : u # Owner => pc'[u] = pc[u]
    BY GoToMoves DEF IInv, TestStop
  <1>1. TypeOK'
    BY <1>m DEF IInv, TypeOK, TestStop, config, locks, history
  <1>2. LockInv'
    BY <1>m DEF IInv, TypeOK, LockInv, TestStop, config, locks, history
  <1>3. CountInv'
    BY <1>m, CountKept DEF IInv, TypeOK, TestStop
  <1>4. StartInv'
    BY <1>m DEF IInv, TypeOK, StartInv, TestStop, config, locks, history
  <1>5. JobInv'
    BY <1>m, JobsKept DEF IInv, TypeOK, history, TestStop
  <1>6. CallInv'
    BY <1>m DEF IInv, TypeOK, CallInv, ThisJob, TestStop, config, locks, history
  <1>7. StopInv'
    <2>1. \E u \in Workers : pc[u] # "exited"
      BY NoneLeft DEF IInv, TestStop
    <2> QED BY <1>m, <2>1 DEF IInv, TypeOK, StopInv, TestStop, config
  <1>8. JobsNotForgotten'
    BY <1>m DEF IInv, TypeOK, JobsNotForgotten, StopInv, StartInv, TestStop, config, locks,
           history
  <1> QED BY <1>1, <1>2, <1>3, <1>4, <1>5, <1>6, <1>7, <1>8 DEF IInv

\* The owner wakes a sleeping thread, or all that are left are awake.
LEMMA WakeWorkerInv ==
  ASSUME IInv, WakeWorker
  PROVE  IInv'
  <1>m. /\ Moved(Owner, "beforeWait", "waitPush")
        /\ \/ \A u \in Threads : pc[u] # "waitPush"
           \/ \E u \in Threads : u # Owner /\ pc[u] = "waitPush" /\ pc'[u] = Awake(u)
    BY SignalMoves DEF IInv, WakeWorker
  <1>1. TypeOK'
    BY <1>m DEF IInv, TypeOK, WakeWorker, config, locks, history
  <1>2. LockInv'
    BY <1>m DEF IInv, TypeOK, LockInv, WakeWorker, config, locks, history
  <1>3. CountInv'
    BY <1>m, CountKept DEF IInv, TypeOK, WakeWorker
  <1>4. StartInv'
    BY <1>m DEF IInv, TypeOK, StartInv, WakeWorker, config, locks, history
  <1>5. JobInv'
    BY <1>m, JobsKept DEF IInv, TypeOK, history, WakeWorker
  <1>6. CallInv'
    BY <1>m DEF IInv, TypeOK, CallInv, ThisJob, WakeWorker, config, locks, history
  <1>7. StopInv'
    BY <1>m DEF IInv, TypeOK, StopInv, LockInv, WakeWorker, config, locks, history
  <1>8. JobsNotForgotten'
    BY <1>m DEF IInv, TypeOK, JobsNotForgotten, StopInv, StartInv, WakeWorker, config, locks,
           history
  <1> QED BY <1>1, <1>2, <1>3, <1>4, <1>5, <1>6, <1>7, <1>8 DEF IInv

\* The owner sleeps.
LEMMA WaitStopInv ==
  ASSUME IInv, WaitStop
  PROVE  IInv'
  <1>m. /\ Moved(Owner, "waitStop", "none")
        /\ \A u \in Threads : u # Owner => pc'[u] = pc[u]
    BY GoToMoves DEF IInv, WaitStop
  <1>1. TypeOK'
    BY <1>m DEF IInv, TypeOK, WaitStop, config, history
  <1>2. LockInv'
    BY <1>m DEF IInv, TypeOK, LockInv, WaitStop, config, history
  <1>3. CountInv'
    BY <1>m, CountKept DEF IInv, TypeOK, WaitStop
  <1>4. StartInv'
    BY <1>m DEF IInv, TypeOK, StartInv, WaitStop, config, history
  <1>5. JobInv'
    BY <1>m, JobsKept DEF IInv, TypeOK, history, WaitStop
  <1>6. CallInv'
    BY <1>m DEF IInv, TypeOK, CallInv, ThisJob, WaitStop, config, history
  <1>7. StopInv'
    BY <1>m DEF IInv, TypeOK, StopInv, LockInv, WaitStop, config, history
  <1>8. JobsNotForgotten'
    BY <1>m DEF IInv, TypeOK, JobsNotForgotten, StopInv, StartInv, WaitStop, config, history
  <1> QED BY <1>1, <1>2, <1>3, <1>4, <1>5, <1>6, <1>7, <1>8 DEF IInv

\* All threads have exited.
LEMMA StopReturnInv ==
  ASSUME IInv, StopReturn
  PROVE  IInv'
  <1>m. /\ Moved(Owner, "stopped", "none")
        /\ \A u \in Threads : u # Owner => pc'[u] = pc[u]
    BY GoToMoves DEF IInv, StopReturn
  <1>1. TypeOK'
    BY <1>m DEF IInv, TypeOK, StopReturn, config, history
  <1>2. LockInv'
    BY <1>m DEF IInv, TypeOK, LockInv, StopReturn, config, history
  <1>3. CountInv'
    BY <1>m, CountKept DEF IInv, TypeOK, StopReturn
  <1>4. StartInv'
    BY <1>m DEF IInv, TypeOK, StartInv, StopReturn, config, history
  <1>5. JobInv'
    BY <1>m, JobsKept DEF IInv, TypeOK, history, StopReturn
  <1>6. CallInv'
    BY <1>m DEF IInv, TypeOK, CallInv, ThisJob, StopReturn, config, history
  <1>7. StopInv'
    <2>1. \A u \in Workers : pc[u] = "exited"
      BY NoneLeft DEF IInv, StopReturn
    <2> QED BY <1>m, <2>1 DEF IInv, TypeOK, StopInv, StopReturn, config
  <1>8. JobsNotForgotten'
    BY <1>m DEF IInv, TypeOK, JobsNotForgotten, StopInv, StartInv, StopReturn, config, history
  <1> QED BY <1>1, <1>2, <1>3, <1>4, <1>5, <1>6, <1>7, <1>8 DEF IInv

-----------------------------------------------------------------------------
HIDE MtpQueueAssumption DEF Moved, Waits, Awake, Threads, OwnerPlaces, AdderPlaces, WorkerPlaces,
  Places

(***************************************************************************)
(* The theorems.                                                           *)
(***************************************************************************)

\* A queue that was just started satisfies the invariant.
LEMMA Initially == Init => IInv
  <1> SUFFICES ASSUME Init PROVE IInv
    OBVIOUS
  <1>1. /\ \A w \in Workers : pc[w] = IF w \in threads THEN "lock" ELSE "exited"
        /\ \A a \in Adders : pc[a] = "idle"
        /\ pc[Owner] = "running"
        /\ threads \in {{}, Workers}
    BY MtpQueueAssumption DEF Init, Threads
  <1>2. TypeOK
    <2>1. pc \in [Threads -> Places]
      BY DEF Init, Places, OwnerPlaces, AdderPlaces, WorkerPlaces
    <2>2. blocking \in BOOLEAN /\ maxQueueSize \in Nat
      BY MtpQueueAssumption DEF Init
    <2>3. /\ \A w \in Workers : pc[w] \in WorkerPlaces
          /\ \A a \in Adders : pc[a] \in AdderPlaces
          /\ pc[Owner] \in OwnerPlaces
      BY <1>1 DEF OwnerPlaces, AdderPlaces, WorkerPlaces
    <2>4. /\ calls \in [Adders -> Nat] /\ \A a \in Adders : calls[a] <= AddCalls[a]
          /\ job \in [Workers -> Jobs \cup {NoJob}] /\ processed \in [Jobs -> Nat]
      BY MtpQueueAssumption DEF Init
    <2>5. /\ queueMutex \in Adders \cup Workers \cup {Nobody} /\ stopMutex \in {Owner, Nobody}
          /\ queue \in Seq(Jobs) /\ accepted \in SUBSET Jobs
      BY DEF Init
    <2>6. shouldTerminate \in BOOLEAN
      BY DEF Init
    <2> QED BY <1>1, <2>1, <2>2, <2>3, <2>4, <2>5, <2>6 DEF TypeOK
  <1>3. LockInv
    BY <1>1, MtpQueueAssumption DEF Init, LockInv, Threads
  <1>4. CountInv
    <2>1. threads = {w \in Workers : pc[w] # "exited"}
      BY <1>1
    <2> QED BY <2>1 DEF Init, CountInv, StartedThreads
  <1>5. StartInv
    BY <1>1 DEF Init, StartInv
  <1>6. JobInv
    BY <1>1, JobsAre DEF Init, JobInv, Queued, Held
  <1>7. CallInv
    BY <1>1 DEF Init, CallInv
  <1>8. StopInv
    BY <1>1 DEF Init, StopInv
  <1>9. JobsNotForgotten
    BY DEF Init, JobsNotForgotten
  <1> QED BY <1>2, <1>3, <1>4, <1>5, <1>6, <1>7, <1>8, <1>9 DEF IInv

\* The invariant is about vars only.
LEMMA Stuttering == IInv /\ UNCHANGED vars => IInv'
  BY DEF vars, config, locks, history, IInv, TypeOK, LockInv, CountInv, StartInv, JobInv, CallInv,
         StopInv, JobsNotForgotten, Queued, Held, ThisJob

\* The invariant holds in every reachable state.
THEOREM Invariance == Spec => []IInv
  <1>1. IInv /\ [Next]_vars => IInv'
    <2> SUFFICES ASSUME IInv, [Next]_vars PROVE IInv'
      OBVIOUS
    <2>1. CASE Stop
      BY <2>1, SetTerminateInv, ReleaseAddersInv, LockStopInv, TestStopInv, WakeWorkerInv,
         WaitStopInv, StopReturnInv DEF Stop
    <2>2. CASE \E a \in Adders : Adder(a)
      BY <2>2, CallAddInv, ProcessInlineInv, LockQueueInv, AddTestInv, AddFullInv, AddRefusedInv,
         AddPushInv, AddSignalInv DEF Adder
    <2>3. CASE \E w \in Workers : Worker(w)
      BY <2>3, LockQueueInv, WorkerTestInv, WorkerWaitInv, WorkerPopInv, WorkerSignalInv, ProcessInv,
         WorkerBreakInv, FinishOneThreadInv DEF Worker
    <2>4. CASE \E t \in Threads : SpuriousWakeup(t)
      BY <2>4, SpuriousWakeupInv
    <2>5. CASE UNCHANGED vars
      BY <2>5, Stuttering
    <2> QED BY <2>1, <2>2, <2>3, <2>4, <2>5 DEF Next
  <1> QED BY <1>1, Initially, PTL DEF Spec

\* A queue whose threads have all finished has processed what it accepted.
LEMMA Drained ==
  ASSUME IInv, pc[Owner] # "running", \A w \in Workers : pc[w] = "exited"
  PROVE  /\ queue = <<>>
         /\ \A j \in Jobs : processed[j] = IF j \in accepted THEN 1 ELSE 0
  <1>1. queue = <<>>
    BY DEF IInv, TypeOK, StartInv, StopInv
  <1>2. \A j \in Jobs : ~Queued(j) /\ ~Held(j)
    BY <1>1, JobsAre DEF IInv, JobInv, Queued, Held
  <1> QED BY <1>1, <1>2 DEF IInv, JobInv

\* When Stop returns no thread is left and every job that Add accepted has
\* been processed, once.
THEOREM StopDrainsQueue == Spec => []StopDrains
  <1>1. IInv => StopDrains
    BY Drained DEF IInv, StopInv, StopDrains
  <1> QED BY <1>1, Invariance, PTL

\* While the owner sleeps in Stop a thread is awake that will signal it.
THEOREM OwnerIsNotForgotten == Spec => []OwnerNotForgotten
  <1>1. IInv => OwnerNotForgotten
    BY DEF IInv, StopInv, OwnerNotForgotten
  <1> QED BY <1>1, Invariance, PTL

\* No job lies in the queue while every thread sleeps and no signal is to come.
THEOREM JobsAreNotForgotten == Spec => []JobsNotForgotten
  BY Invariance, PTL DEF IInv

(***************************************************************************)
(* The queue implements JobPool, step by step.                             *)
(***************************************************************************)
JobPoolSafety == Pool!Init /\ [][Pool!Next]_(Pool!vars)

\* The state of the pool follows from where the owner is.
LEMMA PoolStateKept ==
  ASSUME UNCHANGED history,
         \/ pc'[Owner] = pc[Owner]
         \/ {pc[Owner], pc'[Owner]} \cap {"running", "stopped"} = {}
  PROVE  UNCHANGED Pool!vars
  BY DEF history, Pool!vars

\* The steps of an adder: a job is accepted, or done at once.
LEMMA AdderSimulates ==
  ASSUME IInv, NEW a \in Adders, Adder(a)
  PROVE  Pool!Next \/ UNCHANGED Pool!vars
  <1>1. a \in Threads /\ a # Owner /\ Owner \in Threads
    BY MtpQueueAssumption DEF Threads
  <1>2. CASE CallAdd(a) \/ LockQueue(a) \/ AddTest(a) \/ AddFull(a) \/ AddRefused(a)
    <2>1. pc'[Owner] = pc[Owner] /\ UNCHANGED history
      BY <1>1, <1>2 DEF CallAdd, LockQueue, AddTest, AddFull, AddRefused, GoTo, IInv, TypeOK
    <2> QED BY <2>1, PoolStateKept
  <1>3. CASE AddSignal(a)
    <2>1. pc'[Owner] = pc[Owner]
      BY <1>1, <1>3, SignalMoves, MtpQueueAssumption
      DEF AddSignal, IInv, TypeOK, Moved, Waits, Places, OwnerPlaces, AdderPlaces
    <2> QED BY <1>3, <2>1, PoolStateKept DEF AddSignal
  <1>4. CASE ProcessInline(a)
    <2> DEFINE j == ThisJob(a)
    <2>1. j \in Jobs /\ j \notin accepted /\ processed[j] = 0
      BY <1>4, ThisJobIsNew DEF ProcessInline
    <2>2. /\ accepted' = accepted \cup {j} /\ processed' = [processed EXCEPT ![j] = @ + 1]
          /\ pc'[Owner] = pc[Owner]
      BY <1>1, <1>4 DEF ProcessInline, GoTo, IInv, TypeOK
    <2> HIDE DEF j
    <2>3. processed' = [processed EXCEPT ![j] = 1]
      BY <2>1, <2>2 DEF IInv, TypeOK
    <2>4. Pool!ProcessAtOnce(j)
      BY <2>1, <2>2, <2>3 DEF Pool!ProcessAtOnce
    <2> QED BY <2>1, <2>4 DEF Pool!Next
  <1>5. CASE AddPush(a)
    <2> DEFINE j == ThisJob(a)
    <2>1. j \in Jobs /\ j \notin accepted
      BY <1>5, ThisJobIsNew DEF AddPush
    <2>2. /\ accepted' = accepted \cup {j} /\ processed' = processed
          /\ pc'[Owner] = pc[Owner] /\ pc[Owner] = "running"
      BY <1>1, <1>5 DEF AddPush, GoTo, IInv, TypeOK, StopInv
    <2> HIDE DEF j
    <2>3. Pool!Accept(j)
      BY <2>1, <2>2 DEF Pool!Accept
    <2> QED BY <2>1, <2>3 DEF Pool!Next
  <1> QED BY <1>2, <1>3, <1>4, <1>5 DEF Adder

\* The steps of a thread: it processes an accepted job for the first time.
LEMMA WorkerSimulates ==
  ASSUME IInv, NEW w \in Workers, Worker(w)
  PROVE  Pool!Next \/ UNCHANGED Pool!vars
  <1>1. w \in Threads /\ w # Owner /\ Owner \in Threads
    BY MtpQueueAssumption DEF Threads
  <1>2. CASE LockQueue(w) \/ WorkerTest(w) \/ WorkerWait(w) \/ WorkerPop(w) \/ WorkerBreak(w)
    <2>1. pc'[Owner] = pc[Owner] /\ UNCHANGED history
      BY <1>1, <1>2 DEF LockQueue, WorkerTest, WorkerWait, WorkerPop, WorkerBreak, GoTo, IInv, TypeOK
    <2> QED BY <2>1, PoolStateKept
  <1>3. CASE WorkerSignal(w)
    <2>1. pc'[Owner] = pc[Owner]
      BY <1>1, <1>3, SignalMoves, MtpQueueAssumption
      DEF WorkerSignal, IInv, TypeOK, Moved, Waits, Places, OwnerPlaces, WorkerPlaces
    <2> QED BY <1>3, <2>1, PoolStateKept DEF WorkerSignal
  <1>4. CASE FinishOneThread(w)
    <2>1. Moved(w, "exited", "waitStop")
      BY <1>1, <1>4, SignalMoves DEF FinishOneThread, IInv, Waits, Places, WorkerPlaces
    <2>2. pc'[Owner] = pc[Owner] \/ (pc[Owner] = "waitStop" /\ pc'[Owner] = "lockStop")
      BY <1>1, <2>1 DEF Moved, Awake
    <2> QED BY <1>4, <2>2, PoolStateKept DEF FinishOneThread
  <1>5. CASE Process(w)
    <2> DEFINE j == job[w]
    <2>1. j \in Jobs /\ Held(j)
      BY <1>5 DEF IInv, TypeOK, JobInv, Process, Held
    <2>2. j \in accepted /\ processed[j] = 0
      BY <2>1 DEF IInv, JobInv
    <2>3. /\ accepted' = accepted /\ processed' = [processed EXCEPT ![j] = @ + 1]
          /\ pc'[Owner] = pc[Owner] /\ pc[Owner] # "stopped"
      BY <1>1, <1>5 DEF Process, GoTo, IInv, TypeOK, StopInv
    <2> HIDE DEF j
    <2>4. processed' = [processed EXCEPT ![j] = 1]
      BY <2>1, <2>2, <2>3 DEF IInv, TypeOK
    <2>5. Pool!Process(j)
      BY <2>2, <2>3, <2>4 DEF Pool!Process, IInv, TypeOK, OwnerPlaces
    <2> QED BY <2>1, <2>5 DEF Pool!Next
  <1> QED BY <1>2, <1>3, <1>4, <1>5 DEF Worker

\* The steps of Stop: it is called, and returns when nothing is left.
LEMMA StopSimulates ==
  ASSUME IInv, Stop
  PROVE  Pool!Next \/ UNCHANGED Pool!vars
  <1>1. Owner \in Threads
    BY DEF Threads
  <1>2. CASE LockStop \/ TestStop \/ WaitStop
    <2>1. {pc[Owner], pc'[Owner]} \cap {"running", "stopped"} = {} /\ UNCHANGED history
      BY <1>1, <1>2 DEF LockStop, TestStop, WaitStop, GoTo, IInv, TypeOK
    <2> QED BY <2>1, PoolStateKept
  <1>3. CASE ReleaseAdders
    <2>1. Moved(Owner, "lockStop", "waitPop")
      BY <1>1, <1>3, BroadCastMoves DEF ReleaseAdders, IInv, Waits, Places, OwnerPlaces
    <2>2. {pc[Owner], pc'[Owner]} \cap {"running", "stopped"} = {}
      BY <1>3, <2>1 DEF Moved, ReleaseAdders
    <2> QED BY <1>3, <2>2, PoolStateKept DEF ReleaseAdders
  <1>4. CASE WakeWorker
    <2>1. Moved(Owner, "beforeWait", "waitPush")
      BY <1>1, <1>4, SignalMoves DEF WakeWorker, IInv, Waits, Places, OwnerPlaces
    <2>2. {pc[Owner], pc'[Owner]} \cap {"running", "stopped"} = {}
      BY <1>4, <2>1 DEF Moved, WakeWorker
    <2> QED BY <1>4, <2>2, PoolStateKept DEF WakeWorker
  <1>5. CASE SetTerminate
    <2>1. pc[Owner] = "running" /\ pc'[Owner] = "broadcast" /\ UNCHANGED history
      BY <1>1, <1>5 DEF SetTerminate, GoTo, IInv, TypeOK
    <2>2. Pool!CallStop
      BY <2>1 DEF Pool!CallStop, history
    <2> QED BY <2>2 DEF Pool!Next
  <1>6. CASE StopReturn
    <2>1. pc[Owner] = "testStop" /\ pc'[Owner] = "stopped" /\ UNCHANGED history
      BY <1>1, <1>6 DEF StopReturn, GoTo, IInv, TypeOK
    <2>2. \A j \in accepted : processed[j] = 1
      BY <1>6, <2>1, NoneLeft, Drained DEF StopReturn, IInv, TypeOK
    <2>3. Pool!Stop
      BY <2>1, <2>2 DEF Pool!Stop, history
    <2> QED BY <2>3 DEF Pool!Next
  <1> QED BY <1>2, <1>3, <1>4, <1>5, <1>6 DEF Stop

\* A spurious wakeup changes nothing that the pool promises.
LEMMA WakeupSimulates ==
  ASSUME IInv, NEW t \in Threads, SpuriousWakeup(t)
  PROVE  UNCHANGED Pool!vars
  <1>1. pc'[Owner] = pc[Owner] \/ (pc[Owner] \in Waits /\ pc'[Owner] = "lockStop")
    BY DEF SpuriousWakeup, GoTo, Awake, Waits, Threads, IInv, TypeOK
  <1> QED BY <1>1, PoolStateKept DEF SpuriousWakeup, Waits

\* Every step of the queue is one of JobPool: an accepted job is processed at
\* most once, and the pool is stopped only when none is left.
THEOREM ImplementsJobPool == Spec => JobPoolSafety
  <1>1. Init => Pool!Init
    BY MtpQueueAssumption DEF Init, Threads, Pool!Init
  <1>2. IInv /\ [Next]_vars => [Pool!Next]_(Pool!vars)
    <2> SUFFICES ASSUME IInv, [Next]_vars PROVE Pool!Next \/ UNCHANGED Pool!vars
      OBVIOUS
    <2>1. CASE UNCHANGED vars
      BY <2>1, PoolStateKept DEF vars
    <2> QED BY <2>1, StopSimulates, AdderSimulates, WorkerSimulates, WakeupSimulates DEF Next
  <1> QED BY <1>1, <1>2, Invariance, PTL DEF Spec, JobPoolSafety

=============================================================================
