--------------------------- MODULE ParallelForEach ----------------------------
(***************************************************************************)
(* ParallelForEach (library/threading/algorithm/parallel_algorithm.h),     *)
(* which evaluates the bins of a round and binarizes the columns of a      *)
(* pool: a TLegacyFuture (library/threading/future/legacy_future.h) per    *)
(* item, run by a TPoolThread (util/thread/queue.cpp).                     *)
(*                                                                         *)
(* The heap object of a job is its TThreadImpl, which the owner (Impl_)    *)
(* and the running job (This) share by a reference count.  Its             *)
(* CompleteEvent_ (util/system/event.cpp) is a flag and a condition        *)
(* variable: Signal sets the flag and broadcasts afterwards, so that a     *)
(* waiting thread may have gone on before the broadcast.                   *)
(*                                                                         *)
(* The threads take jobs as MtpQueue shows: in order, each once.  The      *)
(* pool belongs to the call (maxParallel # 0, destroyed at the end of      *)
(* RunParallelForEach) or to somebody else, as TLegacyFuture allows.       *)
(* The kernel returns the item itself, or throws.                          *)
(***************************************************************************)
EXTENDS Integers, Sequences, FiniteSets

CONSTANTS
  ItemCount,
  Workers

ASSUME ItemCountAssumption == ItemCount \in Nat \ {0}

Items == 1 .. ItemCount
NoItem == 0

VARIABLES
  throws, ownQueue,       \* items whose kernel throws; is the pool the call's own
  pc, item,               \* the caller, and the item it is at
  queue, wpc, job,        \* jobs in the pool; the threads of the pool
  refs,                   \* references to a TThreadImpl
  freed,                  \* the TThreadImpls that were deleted
  impl,                   \* the futures whose Impl_ is set: Thread_ has to be joined
  signaled,               \* CompleteEvent_
  promised,               \* futures whose Result_ is set
  res

config == <<throws, ownQueue>>
caller == <<pc, item, impl, res>>
pool == <<queue, wpc, job>>
heap == <<refs, freed, signaled>>
vars == <<config, caller, pool, heap, promised>>

Init ==
  /\ throws \in SUBSET Items /\ ownQueue \in BOOLEAN
  /\ pc = "run" /\ item = 1
  /\ queue = <<>> /\ wpc = [w \in Workers |-> "idle"] /\ job = [w \in Workers |-> NoItem]
  /\ refs = [i \in Items |-> 0] /\ freed = {} /\ impl = {}
  /\ signaled = {} /\ promised = {}
  /\ res = <<>>

\* ~TIntrusivePtr: the last reference deletes the object.
UnRef(i) ==
  /\ refs' = [refs EXCEPT ![i] = @ - 1]
  /\ freed' = IF refs[i] = 1 THEN freed \cup {i} ELSE freed

-----------------------------------------------------------------------------
\* The caller

\* DoRun: a new TThreadImpl, with the reference of the local variable that is
\* swapped into Impl_, goes to the queue; the pool may run it at once.
Run ==
  /\ pc = "run" /\ item <= ItemCount
  /\ refs' = [refs EXCEPT ![item] = 1]
  /\ queue' = Append(queue, item)
  /\ impl' = impl \cup {item}
  /\ item' = item + 1
  /\ UNCHANGED <<config, pc, res, wpc, job, freed, signaled, promised>>

\* The end of RunParallelForEach: the destructor of its own queue waits.
LeaveRun ==
  /\ pc = "run" /\ item > ItemCount
  /\ ownQueue => queue = <<>> /\ \A w \in Workers : wpc[w] = "idle"
  /\ pc' = "join" /\ item' = 1
  /\ UNCHANGED <<config, impl, res, pool, heap, promised>>

\* WaitForComplete of the future the caller is at, in Get or, once it throws,
\* in a destructor: the flag is set, or the caller sleeps.
Sleep ==
  /\ pc \in {"join", "destroy"} /\ item \in impl
  /\ item \notin signaled
  /\ pc' = IF pc = "join" THEN "joinAsleep" ELSE "destroyAsleep"
  /\ UNCHANGED <<config, item, impl, res, pool, heap, promised>>

\* Mutant: the wait ends when the job has started.
JoinStarted ==
  /\ pc \in {"join", "destroy"} /\ item \in impl
  /\ \A k \in DOMAIN queue : queue[k] # item
  /\ impl' = impl \ {item}
  /\ UnRef(item)
  /\ UNCHANGED <<config, pc, item, res, pool, signaled, promised>>

Join ==
  /\ pc \in {"join", "destroy"} /\ item \in impl
  /\ item \in signaled
  /\ impl' = impl \ {item}
  /\ UnRef(item)
  /\ UNCHANGED <<config, pc, item, res, pool, signaled, promised>>

\* Mutant: a future without a value is passed over.
GetValueSkipping ==
  /\ pc = "join" /\ item \notin impl
  /\ IF item \in promised THEN res' = Append(res, item) ELSE res' = res
  /\ item' = item + 1
  /\ pc' = IF item = ItemCount THEN "returned" ELSE "join"
  /\ UNCHANGED <<config, impl, pool, heap, promised>>

\* Result_.GetValue(): "value not set" starts the destruction of the futures.
GetValue ==
  /\ pc = "join" /\ item \notin impl
  /\ IF item \in promised
     THEN /\ res' = Append(res, item)
          /\ item' = item + 1
          /\ pc' = IF item = ItemCount THEN "returned" ELSE "join"
     ELSE pc' = "destroy" /\ item' = 1 /\ UNCHANGED res
  /\ UNCHANGED <<config, impl, pool, heap, promised>>

\* ~TLegacyFuture of a future that has been joined.
Destroy ==
  /\ pc = "destroy" /\ item \notin impl
  /\ item' = IF item < ItemCount THEN item + 1 ELSE item
  /\ pc' = IF item = ItemCount THEN "thrown" ELSE "destroy"
  /\ UNCHANGED <<config, impl, res, pool, heap, promised>>

Caller == Run \/ LeaveRun \/ Sleep \/ Join \/ GetValue \/ Destroy

-----------------------------------------------------------------------------
\* A thread of the pool: TThreadImpl::Process

\* A thread at place p goes to place q.
At(w, p, q) == wpc[w] = p /\ wpc' = [wpc EXCEPT ![w] = q]

Take(w) ==
  /\ At(w, "idle", "ref")
  /\ queue # <<>>
  /\ job' = [job EXCEPT ![w] = Head(queue)]
  /\ queue' = Tail(queue)
  /\ UNCHANGED <<config, caller, heap, promised>>

\* Mutant: the job takes no reference of its own.
RefNone(w) ==
  /\ At(w, "ref", "execute")
  /\ UNCHANGED <<config, caller, queue, job, heap, promised>>

\* TThreadImplRef This(this), then StartEvent_, for which nobody waits.
Ref(w) ==
  /\ At(w, "ref", "execute")
  /\ refs' = [refs EXCEPT ![job[w]] = @ + 1]
  /\ UNCHANGED <<config, caller, queue, job, freed, signaled, promised>>

\* Func_->Execute(): the promise is set, or the exception is swallowed.
Execute(w) ==
  /\ At(w, "execute", "signal")
  /\ promised' = IF job[w] \in throws THEN promised ELSE promised \cup {job[w]}
  /\ UNCHANGED <<config, caller, queue, job, heap>>

\* CompleteEvent_.Signal(): the flag, under the mutex of the event.
SetFlag(w) ==
  /\ At(w, "signal", "broadcast")
  /\ signaled' = signaled \cup {job[w]}
  /\ UNCHANGED <<config, caller, queue, job, refs, freed, promised>>

\* Mutant: nobody is woken.
BroadCastNobody(w) ==
  /\ At(w, "broadcast", "unref")
  /\ UNCHANGED <<config, caller, queue, job, heap, promised>>

\* The broadcast wakes the caller if it waits for this event.
BroadCast(w) ==
  /\ At(w, "broadcast", "unref")
  /\ pc' = IF item # job[w] THEN pc
           ELSE CASE pc = "joinAsleep" -> "join" [] pc = "destroyAsleep" -> "destroy" [] OTHER -> pc
  /\ UNCHANGED <<config, item, impl, res, queue, job, heap, promised>>

\* The end of Process: ~This.
Done(w) ==
  /\ At(w, "unref", "idle")
  /\ UnRef(job[w])
  /\ job' = [job EXCEPT ![w] = NoItem]
  /\ UNCHANGED <<config, caller, queue, signaled, promised>>

Worker(w) == Take(w) \/ Ref(w) \/ Execute(w) \/ SetFlag(w) \/ BroadCast(w) \/ Done(w)

Next == Caller \/ \E w \in Workers : Worker(w)

Spec == Init /\ [][Next]_vars

\* Threads that can run do run.
FairSpec == Spec /\ WF_vars(Caller) /\ \A w \in Workers : WF_vars(Worker(w))

-----------------------------------------------------------------------------
(***************************************************************************)
(* Properties                                                              *)
(***************************************************************************)

\* A job never touches its TThreadImpl, in particular the event it signals,
\* after the object was deleted, however early the caller returns from Join.
ImplAlive == \A w \in Workers : wpc[w] # "idle" => job[w] \notin freed

\* Once the call has returned or thrown no job is left that could still run
\* the kernel, which refers to variables of the caller and to its future.
NoJobOutlivesCall ==
  pc \in {"returned", "thrown"} =>
    /\ queue = <<>>
    /\ \A w \in Workers : wpc[w] \in {"idle", "broadcast", "unref"}

\* The call returns the values of all items, in their order and not in that
\* of the threads, or, exactly if some kernel threw, it throws.
ResultsInOrder ==
  /\ \A k \in DOMAIN res : res[k] = k
  /\ pc = "returned" => Len(res) = ItemCount /\ throws = {}
  /\ pc = "thrown" => throws # {} /\ \A i \in throws : Len(res) < i

\* The call ends.
CallEnds == <>(pc \in {"returned", "thrown"})

=============================================================================
