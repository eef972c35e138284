----------------------- MODULE ParallelForEach_proofs ------------------------
(***************************************************************************)
(* ParallelForEach neither uses a TThreadImpl that was deleted nor leaves  *)
(* a job behind, and its results are in the order of the items, for every  *)
(* number of items and threads.                                            *)
(***************************************************************************)
EXTENDS ParallelForEach, TLAPS

(***************************************************************************)
(* The inductive invariant.                                                *)
(***************************************************************************)
TypeOK ==
  /\ throws \in SUBSET Items /\ ownQueue \in BOOLEAN
  /\ pc \in {"run", "join", "joinAsleep", "destroy", "destroyAsleep", "returned", "thrown"}
  /\ item \in 1 .. ItemCount + 1
  /\ queue \in Seq(Items)
  /\ wpc \in [Workers -> {"idle", "ref", "execute", "signal", "broadcast", "unref"}]
  /\ job \in [Workers -> Items \cup {NoItem}]
  /\ refs \in [Items -> Nat]
  /\ freed \in SUBSET Items /\ impl \in SUBSET Items
  /\ signaled \in SUBSET Items /\ promised \in SUBSET Items
  /\ res \in Seq(Items)

Queued(i) == \E k \in DOMAIN queue : queue[k] = i

\* Thread w has item i, and has its own reference to the TThreadImpl of i.
Refers(w, i) == job[w] = i /\ wpc[w] \in {"execute", "signal", "broadcast", "unref"}

\* A job is in the queue once, or one thread has it.
JobsInv ==
  /\ \A j, k \in DOMAIN queue : queue[j] = queue[k] => j = k
  /\ \A w \in Workers : job[w] = NoItem <=> wpc[w] = "idle"
  /\ \A v, w \in Workers : job[v] = job[w] /\ job[v] # NoItem => v = w
  /\ \A w \in Workers : ~Queued(job[w])

\* The references are those of the future and of the thread that runs the job.
RefsInv ==
  \A i \in Items :
    refs[i] = (IF i \in impl THEN 1 ELSE 0) + (IF \E w \in Workers : Refers(w, i) THEN 1 ELSE 0)

\* The event of a job that is not over has not been signalled; a future is
\* joined, and its object deleted, only after that.
EventInv ==
  /\ \A i \in signaled : ~Queued(i)
  /\ \A w \in Workers : job[w] \in signaled => wpc[w] \in {"broadcast", "unref"}
  /\ \A i \in freed : i \in signaled /\ i \notin impl /\ \A w \in Workers : job[w] # i
  /\ pc # "run" => \A i \in Items : i \in impl \/ i \in signaled
  /\ pc = "run" => /\ impl = 1 .. item - 1
                   /\ signaled \subseteq impl
                   /\ \A k \in DOMAIN queue : queue[k] < item
                   /\ \A w \in Workers : job[w] < item

\* The futures before the one the caller is at have been joined.
CallerInv ==
  /\ pc \notin {"run", "returned"} => item <= ItemCount
  /\ pc \in {"join", "joinAsleep", "destroy", "destroyAsleep"} =>
       \A i \in impl : item <= i
  /\ pc \in {"returned", "thrown"} => impl = {}

\* A job that is over has kept its promise unless its kernel threw.
PromiseInv ==
  /\ \A i \in promised : i \notin throws
  /\ \A i \in signaled : i \in promised \/ i \in throws
  /\ \A w \in Workers : wpc[w] \in {"signal", "broadcast", "unref"} =>
       job[w] \in promised \/ job[w] \in throws

ResultInv ==
  /\ pc = "run" => res = <<>>
  /\ pc \in {"join", "joinAsleep"} => Len(res) = item - 1
  /\ pc = "returned" => Len(res) = ItemCount
  /\ \A k \in DOMAIN res : res[k] = k /\ k \notin throws
  /\ pc \in {"destroy", "destroyAsleep", "thrown"} => throws # {}

IInv == TypeOK /\ JobsInv /\ RefsInv /\ EventInv /\ CallerInv /\ PromiseInv /\ ResultInv

-----------------------------------------------------------------------------
(***************************************************************************)
(* Lemmas about the state.                                                 *)
(***************************************************************************)

\* What Append does to the queued items.
LEMMA AppendQueue ==
  ASSUME NEW S, NEW q \in Seq(S), NEW e \in S
  PROVE  /\ Append(q, e) \in Seq(S)
         /\ DOMAIN Append(q, e) = DOMAIN q \cup {Len(q) + 1}
         /\ Len(q) + 1 \notin DOMAIN q
         /\ \A k \in DOMAIN q : Append(q, e)[k] = q[k]
         /\ Append(q, e)[Len(q) + 1] = e
  OBVIOUS

\* What Tail does to them: the others move up by one.
LEMMA TailQueue ==
  ASSUME NEW S, NEW q \in Seq(S), q # <<>>
  PROVE  /\ Tail(q) \in Seq(S)
         /\ Head(q) = q[1] /\ 1 \in DOMAIN q
         /\ \A k \in DOMAIN Tail(q) : k + 1 \in DOMAIN q /\ k + 1 # 1 /\ Tail(q)[k] = q[k + 1]
  OBVIOUS

\* A busy thread has an item.
LEMMA BusyHasItem ==
  ASSUME IInv, NEW w \in Workers, wpc[w] # "idle"
  PROVE  job[w] \in Items
  BY DEF IInv, TypeOK, JobsInv

\* References are counted up to two.
LEMMA RefsOfHolder ==
  ASSUME IInv, NEW w \in Workers, Refers(w, job[w]), job[w] \in Items
  PROVE  refs[job[w]] = IF job[w] \in impl THEN 2 ELSE 1
  BY DEF IInv, RefsInv

(***************************************************************************)
(* The steps of the caller.                                                *)
(***************************************************************************)

\* DoRun adds an item that no other part of the state knows.
LEMMA RunInv ==
  ASSUME IInv, Run
  PROVE  IInv'
  <1>1. TypeOK'
    <2>1. item \in Items /\ item + 1 \in 1 .. ItemCount + 1
      BY ItemCountAssumption DEF IInv, TypeOK, Run, Items
    <2> QED BY <2>1, AppendQueue DEF IInv, TypeOK, Run, config
  <1>2. JobsInv'
    <2>1. item \in Items
      BY ItemCountAssumption DEF IInv, TypeOK, Run, Items
    <2>2. \A k \in DOMAIN queue : queue[k] # item
      BY <2>1 DEF IInv, TypeOK, EventInv, Run, Items
    <2>3. \A v \in Workers : job[v] # item
      BY <2>1 DEF IInv, TypeOK, EventInv, Run, Items, NoItem
    <2> QED BY <2>1, <2>2, <2>3, AppendQueue DEF IInv, TypeOK, JobsInv, Queued, Run
  <1>3. RefsInv'
    <2>1. item \in Items /\ item \notin impl
      BY ItemCountAssumption DEF IInv, TypeOK, EventInv, Run, Items
    <2>2. \A v \in Workers : job[v] # item
      BY <2>1 DEF IInv, TypeOK, EventInv, Run, Items, NoItem
    <2>3. /\ refs' = [refs EXCEPT ![item] = 1] /\ impl' = impl \cup {item}
          /\ \A v \in Workers, i \in Items : Refers(v, i)' <=> Refers(v, i)
      BY DEF Run, Refers
    <2>4. ~\E v \in Workers : Refers(v, item)
      BY <2>2 DEF Refers
    <2> SUFFICES ASSUME NEW i \in Items
                 PROVE  refs'[i] = (IF i \in impl' THEN 1 ELSE 0)
                                   + (IF \E v \in Workers : Refers(v, i)' THEN 1 ELSE 0)
      BY DEF RefsInv
    <2>5. CASE i = item
      BY <2>1, <2>3, <2>4, <2>5 DEF IInv, TypeOK
    <2>6. CASE i # item
      BY <2>3, <2>6 DEF IInv, TypeOK, RefsInv
    <2> QED BY <2>5, <2>6
  <1>4. EventInv'
    <2>1. item \in Items /\ queue' = Append(queue, item) /\ impl' = 1 .. item' - 1
      BY ItemCountAssumption DEF IInv, TypeOK, EventInv, Run, Items
    <2>2. item \notin signaled /\ item \notin freed
      BY <2>1 DEF IInv, TypeOK, EventInv, Run
    <2>3. \A k \in DOMAIN queue' : queue'[k] < item' /\ queue'[k] \notin signaled
      <3>1. \A k \in DOMAIN queue' : queue'[k] = item \/ \E j \in DOMAIN queue : queue'[k] = queue[j]
        BY <2>1, AppendQueue DEF IInv, TypeOK
      <3>2. \A j \in DOMAIN queue : queue[j] < item + 1 /\ queue[j] \notin signaled
        <4>1. \A j \in DOMAIN queue : queue[j] \in Int /\ queue[j] < item
          <5>1. \A j \in DOMAIN queue : queue[j] \in Items
            BY DEF IInv, TypeOK
          <5> QED BY <5>1 DEF IInv, EventInv, Run, Items
        <4> QED BY <2>1, <4>1 DEF IInv, EventInv, Queued, Items
      <3> QED BY <2>1, <2>2, <3>1, <3>2 DEF Run, Items
    <2>4. \A w \in Workers : job'[w] < item'
      BY <2>1 DEF IInv, TypeOK, EventInv, Run, Items, NoItem
    <2> QED BY <2>1, <2>2, <2>3, <2>4 DEF IInv, TypeOK, EventInv, Queued, Run
  <1>5. CallerInv'
    BY DEF IInv, TypeOK, EventInv, CallerInv, Run, config, Items, NoItem
  <1>6. PromiseInv'
    BY DEF IInv, TypeOK, JobsInv, PromiseInv, Run, config, Items, NoItem
  <1>7. ResultInv'
    BY DEF IInv, TypeOK, EventInv, CallerInv, PromiseInv, ResultInv, Run, config, Items, NoItem
  <1> QED BY <1>1, <1>2, <1>3, <1>4, <1>5, <1>6, <1>7 DEF IInv

\* The caller turns to the first future.
LEMMA LeaveRunInv ==
  ASSUME IInv, LeaveRun
  PROVE  IInv'
  <1>1. TypeOK'
    BY ItemCountAssumption DEF IInv, TypeOK, LeaveRun, config, pool, heap
  <1>2. JobsInv'
    BY DEF IInv, TypeOK, JobsInv, Queued, LeaveRun, config, pool, heap, Items, NoItem
  <1>3. RefsInv'
    BY DEF IInv, TypeOK, JobsInv, RefsInv, Refers, LeaveRun, config, pool, heap, Items, NoItem
  <1>4. EventInv'
    <2>1. impl = Items
      BY ItemCountAssumption DEF IInv, TypeOK, EventInv, LeaveRun, Items
    <2> QED BY <2>1 DEF IInv, TypeOK, EventInv, Queued, LeaveRun, pool, heap
  <1>5. CallerInv'
    BY ItemCountAssumption DEF IInv, TypeOK, CallerInv, LeaveRun, Items
  <1>6. PromiseInv'
    BY DEF IInv, TypeOK, JobsInv, PromiseInv, LeaveRun, config, pool, heap, Items, NoItem
  <1>7. ResultInv'
    BY DEF IInv, TypeOK, EventInv, CallerInv, PromiseInv, ResultInv, LeaveRun, config, pool,
           heap, Items, NoItem
  <1> QED BY <1>1, <1>2, <1>3, <1>4, <1>5, <1>6, <1>7 DEF IInv

\* The caller sleeps.
LEMMA SleepInv ==
  ASSUME IInv, Sleep
  PROVE  IInv'
  <1>1. TypeOK'
    BY DEF IInv, TypeOK, Sleep, config, pool, heap, Items, NoItem
  <1>2. JobsInv'
    BY DEF IInv, TypeOK, JobsInv, Queued, Sleep, config, pool, heap, Items, NoItem
  <1>3. RefsInv'
    BY DEF IInv, TypeOK, JobsInv, RefsInv, Refers, Sleep, config, pool, heap, Items, NoItem
  <1>4. EventInv'
    BY DEF IInv, TypeOK, JobsInv, EventInv, Queued, Sleep, config, pool, heap, Items, NoItem
  <1>5. CallerInv'
    BY DEF IInv, TypeOK, EventInv, CallerInv, Sleep, config, pool, heap, Items, NoItem
  <1>6. PromiseInv'
    BY DEF IInv, TypeOK, JobsInv, PromiseInv, Sleep, config, pool, heap, Items, NoItem
  <1>7. ResultInv'
    BY DEF IInv, TypeOK, EventInv, CallerInv, PromiseInv, ResultInv, Sleep, config, pool, heap,
           Items, NoItem
  <1> QED BY <1>1, <1>2, <1>3, <1>4, <1>5, <1>6, <1>7 DEF IInv

\* Impl_ is given up: the event was signalled, so that the object is deleted
\* only if the job has given up its reference.
LEMMA JoinInv ==
  ASSUME IInv, Join
  PROVE  IInv'
  <1>1. TypeOK'
    <2>1. refs[item] \in Nat /\ refs[item] > 0
      BY DEF IInv, TypeOK, RefsInv, Join
    <2> QED BY <2>1 DEF IInv, TypeOK, Join, UnRef, config, pool
  <1>2. JobsInv'
    BY DEF IInv, TypeOK, JobsInv, Queued, Join, UnRef, config, pool, Items, NoItem
  <1>3. RefsInv'
    <2>1. refs' = [refs EXCEPT ![item] = @ - 1] /\ impl' = impl \ {item} /\ item \in Items
      BY DEF IInv, TypeOK, Join, UnRef
    <2>2. \A v \in Workers, i \in Items : Refers(v, i)' <=> Refers(v, i)
      BY DEF Refers, Join, pool
    <2> QED BY <2>1, <2>2 DEF IInv, TypeOK, RefsInv, Join
  <1>4. EventInv'
    <2>1. ASSUME item \in freed' PROVE \A w \in Workers : job[w] # item
      <3>1. item \in impl /\ item \in Items /\ item \notin freed /\ refs[item] = 1
        BY <2>1 DEF IInv, TypeOK, EventInv, Join, UnRef
      <3>2. \A w \in Workers : ~Refers(w, item)
        BY <3>1 DEF IInv, TypeOK, RefsInv
      <3>3. \A w \in Workers : job[w] = item => wpc[w] \in {"broadcast", "unref"}
        BY DEF IInv, EventInv, Join
      <3> QED BY <3>2, <3>3 DEF Refers
    <2>2. item \in signaled /\ freed' \subseteq freed \cup {item}
      BY DEF IInv, TypeOK, Join, UnRef
    <2> QED BY <2>1, <2>2 DEF IInv, TypeOK, EventInv, Queued, Join, pool
  <1>5. CallerInv'
    BY DEF IInv, TypeOK, EventInv, CallerInv, Join, UnRef, config, pool, Items, NoItem
  <1>6. PromiseInv'
    BY DEF IInv, TypeOK, JobsInv, PromiseInv, Join, UnRef, config, pool, Items, NoItem
  <1>7. ResultInv'
    BY DEF IInv, TypeOK, EventInv, CallerInv, PromiseInv, ResultInv, Join, UnRef, config, pool,
           Items, NoItem
  <1> QED BY <1>1, <1>2, <1>3, <1>4, <1>5, <1>6, <1>7 DEF IInv

\* A value that is not set is that of a kernel that threw.
LEMMA GetValueInv ==
  ASSUME IInv, GetValue
  PROVE  IInv'
  <1>1. TypeOK'
    <2>1. item \in Items /\ item + 1 \in 1 .. ItemCount + 1 /\ 1 \in 1 .. ItemCount + 1
      BY ItemCountAssumption DEF IInv, TypeOK, CallerInv, GetValue, Items
    <2>2. Append(res, item) \in Seq(Items)
      BY <2>1, AppendQueue DEF IInv, TypeOK
    <2> QED BY <2>1, <2>2 DEF IInv, TypeOK, GetValue, config, pool, heap
  <1>2. JobsInv'
    BY DEF IInv, TypeOK, JobsInv, Queued, GetValue, config, pool, heap, Items, NoItem
  <1>3. RefsInv'
    BY DEF IInv, TypeOK, JobsInv, RefsInv, Refers, GetValue, config, pool, heap, Items, NoItem
  <1>4. EventInv'
    BY DEF IInv, TypeOK, JobsInv, EventInv, Queued, GetValue, config, pool, heap, Items, NoItem
  <1>5. CallerInv'
    <2>1. item \in Items /\ impl \subseteq Items
      BY DEF IInv, TypeOK, CallerInv, GetValue, Items
    <2>2. \A i \in impl : item + 1 <= i
      BY <2>1 DEF IInv, TypeOK, CallerInv, GetValue, Items
    <2> QED BY <2>1, <2>2, ItemCountAssumption DEF IInv, TypeOK, CallerInv, GetValue, Items
  <1>6. PromiseInv'
    BY DEF IInv, TypeOK, JobsInv, PromiseInv, GetValue, config, pool, heap, Items, NoItem
  <1>7. ResultInv'
    <2>1. item \in Items /\ Len(res) = item - 1
      BY DEF IInv, TypeOK, CallerInv, ResultInv, GetValue, Items
    <2>2. CASE item \in promised
      <3>1. res' = Append(res, item) /\ item \notin throws
        BY <2>2 DEF IInv, PromiseInv, GetValue
      <3>2. \A k \in DOMAIN res' : res'[k] = k /\ k \notin throws
        BY <2>1, <3>1, AppendQueue DEF IInv, TypeOK, ResultInv
      <3>3. Len(res') = item
        BY <2>1, <3>1 DEF IInv, TypeOK
      <3> QED BY <2>1, <2>2, <3>2, <3>3 DEF IInv, TypeOK, ResultInv, GetValue, Items, config
    <2>3. CASE item \notin promised
      <3>1. item \in throws
        BY <2>1, <2>3 DEF IInv, EventInv, PromiseInv, GetValue
      <3> QED BY <2>3, <3>1 DEF IInv, TypeOK, ResultInv, GetValue, config
    <2> QED BY <2>2, <2>3
  <1> QED BY <1>1, <1>2, <1>3, <1>4, <1>5, <1>6, <1>7 DEF IInv

\* A joined future is destroyed.
LEMMA DestroyInv ==
  ASSUME IInv, Destroy
  PROVE  IInv'
  <1>1. TypeOK'
    BY ItemCountAssumption DEF IInv, TypeOK, Destroy, config, pool, heap
  <1>2. JobsInv'
    BY DEF IInv, TypeOK, JobsInv, Queued, Destroy, config, pool, heap, Items, NoItem
  <1>3. RefsInv'
    BY DEF IInv, TypeOK, JobsInv, RefsInv, Refers, Destroy, config, pool, heap, Items, NoItem
  <1>4. EventInv'
    BY DEF IInv, TypeOK, JobsInv, EventInv, Queued, Destroy, config, pool, heap, Items, NoItem
  <1>5. CallerInv'
    <2>1. item \in Items /\ impl \subseteq Items
      BY DEF IInv, TypeOK, CallerInv, Destroy, Items
    <2>2. \A i \in impl : item + 1 <= i
      BY <2>1 DEF IInv, TypeOK, CallerInv, Destroy, Items
    <2> QED BY <2>1, <2>2, ItemCountAssumption DEF IInv, TypeOK, CallerInv, Destroy, Items
  <1>6. PromiseInv'
    BY DEF IInv, TypeOK, JobsInv, PromiseInv, Destroy, config, pool, heap, Items, NoItem
  <1>7. ResultInv'
    BY DEF IInv, TypeOK, EventInv, CallerInv, PromiseInv, ResultInv, Destroy, config, pool,
           heap, Items, NoItem
  <1> QED BY <1>1, <1>2, <1>3, <1>4, <1>5, <1>6, <1>7 DEF IInv

(***************************************************************************)
(* The steps of a thread.                                                  *)
(***************************************************************************)

\* A thread takes the first job.
LEMMA TakeInv ==
  ASSUME IInv, NEW w \in Workers, Take(w)
  PROVE  IInv'
  <1> DEFINE i == Head(queue)
  <1>q. /\ i = queue[1] /\ 1 \in DOMAIN queue /\ i \in Items /\ i # NoItem
        /\ job' = [job EXCEPT ![w] = i] /\ wpc' = [wpc EXCEPT ![w] = "ref"]
        /\ job[w] = NoItem
    <2>1. i = queue[1] /\ 1 \in DOMAIN queue /\ i \in Items
      BY TailQueue DEF IInv, TypeOK, Take
    <2>2. wpc[w] = "idle" /\ job' = [job EXCEPT ![w] = i] /\ wpc' = [wpc EXCEPT ![w] = "ref"]
      BY DEF Take, At
    <2> QED BY <2>1, <2>2 DEF IInv, JobsInv, Items, NoItem
  <1>r. /\ Queued(i)
        /\ \A v \in Workers : job[v] # i
        /\ \A j \in DOMAIN queue : j # 1 => queue[j] # i
    BY <1>q DEF IInv, JobsInv, Queued
  <1>s. \A k \in DOMAIN queue' : \E j \in DOMAIN queue : j # 1 /\ queue'[k] = queue[j]
    BY TailQueue DEF IInv, TypeOK, Take
  <1>1. TypeOK'
    BY TailQueue DEF IInv, TypeOK, Take, At, config, caller, heap
  <1>2. JobsInv'
    <2>1. \A j, k \in DOMAIN queue' : queue'[j] = queue'[k] => j = k
      BY TailQueue DEF IInv, TypeOK, JobsInv, Take
    <2>2. \A v \in Workers : ~Queued(job[v])'
      BY <1>q, <1>r, <1>s DEF IInv, TypeOK, JobsInv, Queued
    <2> HIDE DEF i
    <2>3. \A v \in Workers : job'[v] = NoItem <=> wpc'[v] = "idle"
      BY <1>q DEF IInv, TypeOK, JobsInv
    <2>4. \A u, v \in Workers : job'[u] = job'[v] /\ job'[u] # NoItem => u = v
      BY <1>q, <1>r DEF IInv, TypeOK, JobsInv
    <2> QED BY <2>1, <2>2, <2>3, <2>4 DEF JobsInv
  <1>3. RefsInv'
    <2>1. \A v \in Workers, j \in Items : Refers(v, j)' <=> Refers(v, j)
      BY DEF IInv, TypeOK, Refers, Take, At
    <2> QED BY <2>1 DEF IInv, TypeOK, RefsInv, Take, caller, heap
  <1>4. EventInv'
    <2>1. \A k \in signaled : ~Queued(k)'
      BY <1>q, <1>r, <1>s DEF IInv, EventInv, Queued, Take, heap
    <2>2. i \notin signaled /\ i \notin freed /\ NoItem \notin signaled /\ NoItem \notin freed
      BY <1>q, <1>r, <1>s DEF IInv, TypeOK, EventInv, Items, NoItem
    <2>3. pc = "run" => i < item /\ \A k \in DOMAIN queue' : queue'[k] < item
      BY <1>q, <1>r, <1>s DEF IInv, EventInv, Queued
    <2> HIDE DEF i
    <2> QED BY <1>q, <2>1, <2>2, <2>3 DEF IInv, TypeOK, EventInv, Take, caller, heap
  <1>5. CallerInv'
    BY DEF IInv, TypeOK, EventInv, CallerInv, Take, At, config, caller, heap, Items, NoItem
  <1>6. PromiseInv'
    BY DEF IInv, TypeOK, JobsInv, PromiseInv, Take, At, config, caller, heap, Items, NoItem
  <1>7. ResultInv'
    BY DEF IInv, TypeOK, EventInv, CallerInv, PromiseInv, ResultInv, Take, At, config, caller,
           heap, Items, NoItem
  <1> QED BY <1>1, <1>2, <1>3, <1>4, <1>5, <1>6, <1>7 DEF IInv

\* The job takes its own reference.
LEMMA RefInv ==
  ASSUME IInv, NEW w \in Workers, Ref(w)
  PROVE  IInv'
  <1>1. TypeOK'
    BY BusyHasItem DEF IInv, TypeOK, Ref, At, config, caller, heap
  <1>2. JobsInv'
    BY DEF IInv, TypeOK, JobsInv, Queued, Ref, At, config, caller, Items, NoItem
  <1>3. RefsInv'
    <2>1. /\ job[w] \in Items /\ wpc[w] = "ref" /\ wpc' = [wpc EXCEPT ![w] = "execute"]
          /\ refs' = [refs EXCEPT ![job[w]] = @ + 1] /\ job' = job /\ impl' = impl
      BY BusyHasItem DEF Ref, At, caller
    <2>2. \A v \in Workers, i \in Items : Refers(v, i)' <=> Refers(v, i) \/ (v = w /\ i = job[w])
      BY <2>1 DEF IInv, TypeOK, Refers
    <2>3. \A v \in Workers : ~Refers(v, job[w])
      BY <2>1 DEF IInv, TypeOK, JobsInv, Refers
    <2>4. \A i \in Items : (\E v \in Workers : Refers(v, i)') <=> (\E v \in Workers : Refers(v, i)) \/ i = job[w]
      BY <2>2
    <2> SUFFICES ASSUME NEW i \in Items
                 PROVE  refs'[i] = (IF i \in impl THEN 1 ELSE 0)
                                     + (IF \E v \in Workers : Refers(v, i)' THEN 1 ELSE 0)
      BY <2>1 DEF RefsInv
    <2>5. refs[i] = (IF i \in impl THEN 1 ELSE 0) + (IF \E v \in Workers : Refers(v, i) THEN 1 ELSE 0)
      BY DEF IInv, RefsInv
    <2> QED BY <2>1, <2>3, <2>4, <2>5 DEF IInv, TypeOK
  <1>4. EventInv'
    BY DEF IInv, TypeOK, JobsInv, EventInv, Queued, Ref, At, config, caller, Items, NoItem
  <1>5. CallerInv'
    BY DEF IInv, TypeOK, EventInv, CallerInv, Ref, At, config, caller, Items, NoItem
  <1>6. PromiseInv'
    BY DEF IInv, TypeOK, JobsInv, PromiseInv, Ref, At, config, caller, Items, NoItem
  <1>7. ResultInv'
    BY DEF IInv, TypeOK, EventInv, CallerInv, PromiseInv, ResultInv, Ref, At, config, caller,
           Items, NoItem
  <1> QED BY <1>1, <1>2, <1>3, <1>4, <1>5, <1>6, <1>7 DEF IInv

\* The promise is set or the exception swallowed.
LEMMA ExecuteInv ==
  ASSUME IInv, NEW w \in Workers, Execute(w)
  PROVE  IInv'
  <1>1. TypeOK'
    BY BusyHasItem DEF IInv, TypeOK, Execute, At, config, caller, heap
  <1>2. JobsInv'
    BY DEF IInv, TypeOK, JobsInv, Queued, Execute, At, config, caller, heap, Items, NoItem
  <1>3. RefsInv'
    <2>1. \A v \in Workers, i \in Items : Refers(v, i)' <=> Refers(v, i)
      BY DEF IInv, TypeOK, Refers, Execute, At
    <2> QED BY <2>1 DEF IInv, TypeOK, RefsInv, Execute, caller, heap
  <1>4. EventInv'
    BY DEF IInv, TypeOK, JobsInv, EventInv, Queued, Execute, At, config, caller, heap, Items,
           NoItem
  <1>5. CallerInv'
    BY DEF IInv, TypeOK, EventInv, CallerInv, Execute, At, config, caller, heap, Items, NoItem
  <1>6. PromiseInv'
    BY DEF IInv, TypeOK, JobsInv, PromiseInv, Execute, At, config, caller, heap, Items, NoItem
  <1>7. ResultInv'
    BY DEF IInv, TypeOK, EventInv, CallerInv, PromiseInv, ResultInv, Execute, At, config,
           caller, heap, Items, NoItem
  <1> QED BY <1>1, <1>2, <1>3, <1>4, <1>5, <1>6, <1>7 DEF IInv

\* The event of a job is signalled after its promise was set.
LEMMA SetFlagInv ==
  ASSUME IInv, NEW w \in Workers, SetFlag(w)
  PROVE  IInv'
  <1>1. TypeOK'
    BY BusyHasItem DEF IInv, TypeOK, SetFlag, At, config, caller, heap
  <1>2. JobsInv'
    BY DEF IInv, TypeOK, JobsInv, Queued, SetFlag, At, config, caller, Items, NoItem
  <1>3. RefsInv'
    <2>1. \A v \in Workers, i \in Items : Refers(v, i)' <=> Refers(v, i)
      BY DEF IInv, TypeOK, Refers, SetFlag, At
    <2> QED BY <2>1 DEF IInv, TypeOK, RefsInv, SetFlag, caller, heap
  <1>4. EventInv'
    <2>1. job[w] \in Items /\ wpc[w] = "signal" /\ wpc' = [wpc EXCEPT ![w] = "broadcast"]
      BY BusyHasItem DEF SetFlag, At
    <2>2. ~Queued(job[w]) /\ \A v \in Workers : job[v] = job[w] => v = w
      BY <2>1 DEF IInv, TypeOK, JobsInv, Items, NoItem
    <2>3. pc = "run" => job[w] \in impl
      BY <2>1 DEF IInv, TypeOK, EventInv, Items
    <2> QED BY <2>1, <2>2, <2>3 DEF IInv, TypeOK, EventInv, Queued, SetFlag, caller
  <1>5. CallerInv'
    BY DEF IInv, TypeOK, EventInv, CallerInv, SetFlag, At, config, caller, Items, NoItem
  <1>6. PromiseInv'
    BY DEF IInv, TypeOK, JobsInv, PromiseInv, SetFlag, At, config, caller, Items, NoItem
  <1>7. ResultInv'
    BY DEF IInv, TypeOK, EventInv, CallerInv, PromiseInv, ResultInv, SetFlag, At, config,
           caller, Items, NoItem
  <1> QED BY <1>1, <1>2, <1>3, <1>4, <1>5, <1>6, <1>7 DEF IInv

\* The caller is woken.
LEMMA BroadCastInv ==
  ASSUME IInv, NEW w \in Workers, BroadCast(w)
  PROVE  IInv'
  <1>1. TypeOK'
    BY DEF IInv, TypeOK, BroadCast, At, config, heap, Items, NoItem
  <1>2. JobsInv'
    BY DEF IInv, TypeOK, JobsInv, Queued, BroadCast, At, config, heap, Items, NoItem
  <1>3. RefsInv'
    BY DEF IInv, TypeOK, JobsInv, RefsInv, Refers, BroadCast, At, config, heap, Items, NoItem
  <1>4. EventInv'
    BY DEF IInv, TypeOK, JobsInv, EventInv, Queued, BroadCast, At, config, heap, Items, NoItem
  <1>5. CallerInv'
    BY DEF IInv, TypeOK, EventInv, CallerInv, BroadCast, At, config, heap, Items, NoItem
  <1>6. PromiseInv'
    BY DEF IInv, TypeOK, JobsInv, PromiseInv, BroadCast, At, config, heap, Items, NoItem
  <1>7. ResultInv'
    BY DEF IInv, TypeOK, EventInv, CallerInv, PromiseInv, ResultInv, BroadCast, At, config,
           heap, Items, NoItem
  <1> QED BY <1>1, <1>2, <1>3, <1>4, <1>5, <1>6, <1>7 DEF IInv

\* The job gives up its reference.
LEMMA DoneInv ==
  ASSUME IInv, NEW w \in Workers, Done(w)
  PROVE  IInv'
  <1> DEFINE i == job[w]
  <1>q. /\ i \in Items /\ i # NoItem /\ wpc[w] = "unref" /\ Refers(w, i)
        /\ refs[i] = IF i \in impl THEN 2 ELSE 1
        /\ \A v \in Workers : job[v] = i => v = w
    BY BusyHasItem, RefsOfHolder DEF IInv, TypeOK, JobsInv, Refers, Done, At, Items, NoItem
  <1>r. /\ job' = [job EXCEPT ![w] = NoItem] /\ wpc' = [wpc EXCEPT ![w] = "idle"]
        /\ refs' = [refs EXCEPT ![i] = @ - 1]
        /\ freed' = IF refs[i] = 1 THEN freed \cup {i} ELSE freed
    BY DEF Done, At, UnRef
  <1> HIDE DEF i
  <1>1. TypeOK'
    BY <1>q, <1>r DEF IInv, TypeOK, Done, config, caller
  <1>2. JobsInv'
    <2>1. ~Queued(NoItem)
      <3>1. \A k \in DOMAIN queue : queue[k] \in Items
        BY DEF IInv, TypeOK
      <3> QED BY <3>1 DEF Queued, Items, NoItem
    <2> QED BY <1>q, <1>r, <2>1 DEF IInv, TypeOK, JobsInv, Queued, Done
  <1>3. RefsInv'
    <2>1. \A v \in Workers, j \in Items : Refers(v, j)' <=> Refers(v, j) /\ j # i
      BY <1>q, <1>r DEF IInv, TypeOK, Refers, Items, NoItem
    <2>2. \A j \in Items : (\E v \in Workers : Refers(v, j)') <=> (\E v \in Workers : Refers(v, j)) /\ j # i
      BY <2>1
    <2> SUFFICES ASSUME NEW j \in Items
                 PROVE  refs'[j] = (IF j \in impl THEN 1 ELSE 0)
                                     + (IF \E v \in Workers : Refers(v, j)' THEN 1 ELSE 0)
      BY DEF RefsInv, Done, caller
    <2>3. refs[j] = (IF j \in impl THEN 1 ELSE 0) + (IF \E v \in Workers : Refers(v, j) THEN 1 ELSE 0)
      BY DEF IInv, RefsInv
    <2>4. CASE j = i
      BY <1>q, <1>r, <2>2, <2>4 DEF IInv, TypeOK
    <2>5. CASE j # i
      BY <1>q, <1>r, <2>2, <2>3, <2>5 DEF IInv, TypeOK
    <2> QED BY <2>4, <2>5
  <1>4. EventInv'
    <2>1. i \notin impl => i \in signaled
      BY <1>q DEF IInv, TypeOK, EventInv, i, Items
    <2> QED BY <1>q, <1>r, <2>1 DEF IInv, TypeOK, EventInv, Queued, Done, caller, Items, NoItem
  <1>5. CallerInv'
    BY DEF IInv, TypeOK, EventInv, CallerInv, Done, UnRef, At, config, caller, Items, NoItem
  <1>6. PromiseInv'
    BY DEF IInv, TypeOK, JobsInv, PromiseInv, Done, UnRef, At, config, caller, Items, NoItem
  <1>7. ResultInv'
    BY DEF IInv, TypeOK, EventInv, CallerInv, PromiseInv, ResultInv, Done, UnRef, At, config,
           caller, Items, NoItem
  <1> QED BY <1>1, <1>2, <1>3, <1>4, <1>5, <1>6, <1>7 DEF IInv

-----------------------------------------------------------------------------
(***************************************************************************)
(* The theorems.                                                           *)
(***************************************************************************)

\* The empty pool satisfies the invariant.
LEMMA Initially == Init => IInv
  BY ItemCountAssumption
  DEF Init, IInv, TypeOK, JobsInv, RefsInv, EventInv, CallerInv, PromiseInv, ResultInv,
      Queued, Refers, Items, NoItem

\* The invariant is about vars only.
LEMMA Stuttering == IInv /\ UNCHANGED vars => IInv'
  BY DEF vars, config, caller, pool, heap, IInv, TypeOK, JobsInv, RefsInv, EventInv, CallerInv,
         PromiseInv, ResultInv, Queued, Refers

\* The invariant holds in every reachable state.
THEOREM Invariance == Spec => []IInv
  <1>1. IInv /\ [Next]_vars => IInv'
    <2> SUFFICES ASSUME IInv, [Next]_vars PROVE IInv'
      OBVIOUS
    <2>1. CASE Caller
      BY <2>1, RunInv, LeaveRunInv, SleepInv, JoinInv, GetValueInv, DestroyInv DEF Caller
    <2>2. CASE \E w \in Workers : Worker(w)
      BY <2>2, TakeInv, RefInv, ExecuteInv, SetFlagInv, BroadCastInv, DoneInv DEF Worker
    <2>3. CASE UNCHANGED vars
      BY <2>3, Stuttering
    <2> QED BY <2>1, <2>2, <2>3 DEF Next
  <1> QED BY <1>1, Initially, PTL DEF Spec

\* A job never touches its TThreadImpl after the last reference has gone.
THEOREM ImplsStayAlive == Spec => []ImplAlive
  <1>1. IInv => ImplAlive
    BY DEF IInv, EventInv, ImplAlive
  <1> QED BY <1>1, Invariance, PTL

\* When the call has returned or thrown, no job is left that could still run
\* the kernel.
THEOREM NoJobOutlives == Spec => []NoJobOutlivesCall
  <1>1. IInv => NoJobOutlivesCall
    <2> SUFFICES ASSUME IInv, pc \in {"returned", "thrown"} PROVE NoJobOutlivesCall
      BY DEF NoJobOutlivesCall
    <2>1. signaled = Items
      BY DEF IInv, TypeOK, EventInv, CallerInv
    <2>2. queue = <<>>
      <3>1. \A k \in DOMAIN queue : queue[k] \in Items
        BY DEF IInv, TypeOK
      <3>2. DOMAIN queue = {}
        BY <2>1, <3>1 DEF IInv, EventInv, Queued
      <3> QED BY <3>2 DEF IInv, TypeOK
    <2>3. \A w \in Workers : wpc[w] \in {"idle", "broadcast", "unref"}
      BY <2>1 DEF IInv, TypeOK, JobsInv, EventInv
    <2> QED BY <2>2, <2>3 DEF NoJobOutlivesCall
  <1> QED BY <1>1, Invariance, PTL

\* The call returns the values of all items in the order of the items, or it
\* throws, exactly if some kernel threw.
THEOREM ResultsKeepOrder == Spec => []ResultsInOrder
  <1>1. IInv => ResultsInOrder
    <2> SUFFICES ASSUME IInv PROVE ResultsInOrder
      OBVIOUS
    <2>1. DOMAIN res = 1 .. Len(res) /\ Len(res) \in Nat
      BY DEF IInv, TypeOK
    <2>2. \A i \in throws : Len(res) < i
      <3>1. \A i \in throws : i \in Nat \ {0} /\ i \notin DOMAIN res
        BY DEF IInv, TypeOK, ResultInv, Items
      <3> QED BY <2>1, <3>1
    <2>3. pc = "returned" => throws = {}
      BY <2>2, ItemCountAssumption DEF IInv, TypeOK, ResultInv, Items
    <2> QED BY <2>2, <2>3 DEF IInv, ResultInv, ResultsInOrder
  <1> QED BY <1>1, Invariance, PTL

=============================================================================
