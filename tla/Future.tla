-------------------------------- MODULE Future --------------------------------
(***************************************************************************)
(* TFutureState (library/threading/future/future-inl.h) and its event      *)
(* (util/system/event.cpp), used by several threads at once: setters call  *)
(* SetValue or SetException, getters call GetValue(timeout) or Wait() and  *)
(* then GetValue(), subscribers call Subscribe.                            *)
(*                                                                         *)
(* StateLock is held from SetLock to SetPublish; Wait and Subscribe do all *)
(* they do under it in one step.  State is also read without the lock.     *)
(***************************************************************************)
EXTENDS Integers, Sequences

CONSTANTS
  Setters, Getters, Subscribers,
  Impatient          \* the getters with a timeout

VARIABLES
  kind,              \* what a setter sets: "ValueSet" or "ExceptionSet"
  state,             \* State
  locked,            \* StateLock is held
  content,           \* whose Value or Exception is stored
  event,             \* ReadyEvent: "null", "quiet" or "signaled"
  callbacks,         \* Callbacks
  pc,
  readyEvent, taken, \* locals of SetValue: is there an event; the callbacks
  got,               \* what a getter returned or threw
  called             \* how often a callback was called

shared == <<state, locked, content, event, callbacks>>
locals == <<readyEvent, taken>>
vars == <<kind, shared, pc, locals, got, called>>

Nobody == "nobody"
Nothing == <<>>
TimedOut == <<"wait timeout">>

\* A thread does one of the three.
ASSUME FutureAssumption ==
  /\ Impatient \subseteq Getters
  /\ Setters \cap Getters = {} /\ Setters \cap Subscribers = {} /\ Getters \cap Subscribers = {}
  /\ Nobody \notin Setters

Init ==
  /\ kind \in [Setters -> {"ValueSet", "ExceptionSet"}]
  /\ state = "NotReady" /\ locked = FALSE /\ content = Nobody
  /\ event = "null" /\ callbacks = <<>>
  /\ pc = [t \in Setters \cup Getters \cup Subscribers |-> "start"]
  /\ readyEvent = [s \in Setters |-> FALSE] /\ taken = [s \in Setters |-> <<>>]
  /\ got = [g \in Getters |-> Nothing]
  /\ called = [c \in Subscribers |-> 0]

\* Thread t at place p goes to place q.
At(t, p, q) == pc[t] = p /\ pc' = [pc EXCEPT ![t] = q]

-----------------------------------------------------------------------------
\* SetValue and SetException

\* "value already set"
SetRejected(s) ==
  /\ At(s, "start", "rejected")
  /\ ~locked /\ state # "NotReady"
  /\ UNCHANGED <<kind, shared, locals, got, called>>

SetLock(s) ==
  /\ At(s, "start", "take")
  /\ ~locked /\ state = "NotReady"
  /\ locked' = TRUE
  /\ content' = s
  /\ UNCHANGED <<kind, state, event, callbacks, locals, got, called>>

\* Mutant: the state is published without the lock, which was released.
SetTakeUnlocked(s) ==
  /\ At(s, "take", "publish")
  /\ readyEvent' = [readyEvent EXCEPT ![s] = event # "null"]
  /\ taken' = [taken EXCEPT ![s] = callbacks]
  /\ callbacks' = <<>>
  /\ locked' = FALSE
  /\ UNCHANGED <<kind, state, content, event, got, called>>

\* Mutant: the callbacks are copied, not moved.
SetTakeCopy(s) ==
  /\ At(s, "take", "publish")
  /\ readyEvent' = [readyEvent EXCEPT ![s] = event # "null"]
  /\ taken' = [taken EXCEPT ![s] = callbacks]
  /\ UNCHANGED <<kind, shared, got, called>>

SetTake(s) ==
  /\ At(s, "take", "publish")
  /\ readyEvent' = [readyEvent EXCEPT ![s] = event # "null"]
  /\ taken' = [taken EXCEPT ![s] = callbacks]
  /\ callbacks' = <<>>
  /\ UNCHANGED <<kind, state, locked, content, event, got, called>>

SetPublish(s) ==
  /\ At(s, "publish", "signal")
  /\ state' = kind[s]
  /\ locked' = FALSE
  /\ UNCHANGED <<kind, content, event, callbacks, locals, got, called>>

\* readyEvent->Signal(), if there is an event: the flag ...
SetSignal(s) ==
  /\ At(s, "signal", "broadcast")
  /\ event' = IF readyEvent[s] THEN "signaled" ELSE event
  /\ UNCHANGED <<kind, state, locked, content, callbacks, locals, got, called>>

\* ... then the broadcast.
SetBroadCast(s) ==
  /\ pc[s] = "broadcast"
  /\ pc' = [t \in DOMAIN pc |-> IF t = s THEN "call"
                                ELSE IF readyEvent[s] /\ pc[t] = "asleep" THEN "wait" ELSE pc[t]]
  /\ UNCHANGED <<kind, shared, locals, got, called>>

SetCall(s) ==
  /\ pc[s] = "call" /\ taken[s] # <<>>
  /\ called' = [called EXCEPT ![Head(taken[s])] = @ + 1]
  /\ taken' = [taken EXCEPT ![s] = Tail(@)]
  /\ UNCHANGED <<kind, shared, pc, readyEvent, got>>

SetReturn(s) ==
  /\ At(s, "call", "done")
  /\ taken[s] = <<>>
  /\ UNCHANGED <<kind, shared, locals, got, called>>

Setter(s) ==
  SetRejected(s) \/ SetLock(s) \/ SetTake(s) \/ SetPublish(s) \/ SetSignal(s) \/ SetBroadCast(s)
    \/ SetCall(s) \/ SetReturn(s)

-----------------------------------------------------------------------------
\* GetValue, and the Wait in it

\* State is read without the lock.
GetReady(g) ==
  /\ At(g, "start", "read")
  /\ state # "NotReady"
  /\ UNCHANGED <<kind, shared, locals, got, called>>

\* "value not set": the timeout is zero.
GetNotSet(g) ==
  /\ g \in Impatient
  /\ At(g, "start", "done")
  /\ state = "NotReady"
  /\ got' = [got EXCEPT ![g] = TimedOut]
  /\ UNCHANGED <<kind, shared, locals, called>>

GetNotReady(g) ==
  /\ At(g, "start", "lock")
  /\ state = "NotReady"
  /\ UNCHANGED <<kind, shared, locals, got, called>>

\* Mutant: the state is not tested again.
WaitLockUntested(g) ==
  /\ At(g, "lock", "wait")
  /\ ~locked
  /\ event' = IF event = "null" THEN "quiet" ELSE event
  /\ UNCHANGED <<kind, state, locked, content, callbacks, locals, got, called>>

\* The locked part of Wait: the first to wait makes the event.
WaitLock(g) ==
  /\ pc[g] = "lock" /\ ~locked
  /\ IF state = "NotReady"
     THEN /\ pc' = [pc EXCEPT ![g] = "wait"]
          /\ event' = IF event = "null" THEN "quiet" ELSE event
     ELSE /\ pc' = [pc EXCEPT ![g] = "read"]
          /\ UNCHANGED event
  /\ UNCHANGED <<kind, state, locked, content, callbacks, locals, got, called>>

\* WaitD of the event
WaitSignaled(g) ==
  /\ At(g, "wait", "read")
  /\ event = "signaled"
  /\ UNCHANGED <<kind, shared, locals, got, called>>

WaitSleep(g) ==
  /\ At(g, "wait", "asleep")
  /\ event # "signaled"
  /\ UNCHANGED <<kind, shared, locals, got, called>>

\* The deadline passes; the flag may have been set all the same.
WaitTimeout(g) ==
  /\ g \in Impatient /\ pc[g] = "asleep"
  /\ IF event = "signaled"
     THEN pc' = [pc EXCEPT ![g] = "read"] /\ UNCHANGED got
     ELSE pc' = [pc EXCEPT ![g] = "done"] /\ got' = [got EXCEPT ![g] = TimedOut]
  /\ UNCHANGED <<kind, shared, locals, called>>

\* The value is returned or the exception thrown.
GetRead(g) ==
  /\ At(g, "read", "done")
  /\ got' = [got EXCEPT ![g] = <<state, content>>]
  /\ UNCHANGED <<kind, shared, locals, called>>

Getter(g) ==
  GetReady(g) \/ GetNotSet(g) \/ GetNotReady(g) \/ WaitLock(g) \/ WaitSignaled(g) \/ WaitSleep(g)
    \/ WaitTimeout(g) \/ GetRead(g)

-----------------------------------------------------------------------------
\* Subscribe: the callback is stored, or the caller calls it.

Subscribe(c) ==
  /\ pc[c] = "start" /\ ~locked
  /\ IF state = "NotReady"
     THEN pc' = [pc EXCEPT ![c] = "done"] /\ callbacks' = Append(callbacks, c)
     ELSE pc' = [pc EXCEPT ![c] = "call"] /\ UNCHANGED callbacks
  /\ UNCHANGED <<kind, state, locked, content, event, locals, got, called>>

CallNow(c) ==
  /\ At(c, "call", "done")
  /\ called' = [called EXCEPT ![c] = @ + 1]
  /\ UNCHANGED <<kind, shared, locals, got>>

Subscriber(c) == Subscribe(c) \/ CallNow(c)

Next ==
  \/ \E s \in Setters : Setter(s)
  \/ \E g \in Getters : Getter(g)
  \/ \E c \in Subscribers : Subscriber(c)

Spec == Init /\ [][Next]_vars

\* Threads that can run do run; the lock is taken a finite number of times.
FairSpec ==
  /\ Spec
  /\ \A s \in Setters : WF_vars(Setter(s))
  /\ \A g \in Getters : WF_vars(Getter(g))
  /\ \A c \in Subscribers : WF_vars(Subscriber(c))

-----------------------------------------------------------------------------
(***************************************************************************)
(* Properties                                                              *)
(***************************************************************************)

\* Y_ASSERT(state == ValueSet) and Y_ASSERT(Exception): a getter that has
\* found the state set, or was told so by the event, finds the content, which
\* is that of the setter that set the state.
ReadsComplete ==
  \A g \in Getters : pc[g] = "read" => content # Nobody /\ state = kind[content]

\* A callback that was given to Subscribe waits in the list, has been taken
\* by the setter, or was called: it is in one of these places, and once.
CallbacksConserved ==
  \A c \in Subscribers :
    LET times(q) == IF \E i \in DOMAIN q : q[i] = c THEN 1 ELSE 0
    IN  pc[c] = "done" =>
          \/ times(callbacks) + called[c] = 1 /\ \A s \in Setters : times(taken[s]) = 0
          \/ times(callbacks) + called[c] = 0 /\ \E s \in Setters : times(taken[s]) = 1

\* The future keeps what module OneShot says: one outcome, the same for all,
\* no callback lost or called twice, and nobody waits for ever once it is
\* set, wherever the setter was when the wait began.
OneShotOf == INSTANCE OneShot WITH
  Outcomes <- {"ValueSet", "ExceptionSet"} \X Setters,
  outcome <- IF state = "NotReady" THEN Nothing ELSE <<state, content>>

IsOneShot == OneShotOf!Spec

=============================================================================
