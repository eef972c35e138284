---------------------------- MODULE Future_proofs -----------------------------
(***************************************************************************)
(* A getter of a future reads a complete outcome, no callback is lost or   *)
(* called twice, and every step of the future is one of module OneShot,    *)
(* for any number of setters, getters and subscribers.                     *)
(***************************************************************************)
EXTENDS Future, TLAPS

(***************************************************************************)
(* The inductive invariant.                                                *)
(***************************************************************************)
Kinds == {"ValueSet", "ExceptionSet"}
Threads == Setters \cup Getters \cup Subscribers

TypeOK ==
  /\ kind \in [Setters -> Kinds]
  /\ state \in {"NotReady"} \cup Kinds
  /\ locked \in BOOLEAN
  /\ content \in Setters \cup {Nobody}
  /\ event \in {"null", "quiet", "signaled"}
  /\ callbacks \in Seq(Subscribers)
  /\ pc \in [Threads -> {"start", "rejected", "take", "publish", "signal", "broadcast", "call",
                         "lock", "wait", "asleep", "read", "done"}]
  /\ \A c \in Subscribers : pc[c] \in {"start", "call", "done"}
  /\ readyEvent \in [Setters -> BOOLEAN]
  /\ taken \in [Setters -> Seq(Subscribers)]
  /\ DOMAIN got = Getters
  /\ called \in [Subscribers -> {0, 1}]

Published(s) == pc[s] \in {"signal", "broadcast", "call", "done"}

\* The setter whose content is stored has come first; the others are kept out
\* by the lock or by the state.
WinnerInv ==
  /\ content = Nobody => ~locked /\ state = "NotReady"
  /\ \A s \in Setters :
       /\ s # content => pc[s] \in {"start", "rejected"}
       /\ s = content => \/ pc[s] \in {"take", "publish"} /\ locked /\ state = "NotReady"
                         \/ Published(s) /\ ~locked /\ state = kind[s]

\* Whoever has learnt that the future is ready has done so from the state, or
\* from an event that is signalled after the state was set.
ReadyInv ==
  /\ event = "signaled" => state # "NotReady"
  /\ \A t \in Getters \cup Subscribers : pc[t] \in {"read", "call"} => state # "NotReady"
  /\ \A g \in Getters : pc[g] # "done" => got[g] = Nothing

Holds(q, c) == \E i \in DOMAIN q : q[i] = c
Distinct(q) == \A i, j \in DOMAIN q : q[i] = q[j] => i = j
Taken(c) == \E s \in Setters : Holds(taken[s], c)

\* Where a callback is: nowhere until Subscribe stores it, then in the list,
\* with the setter, or called.
CallbackInv ==
  \A c \in Subscribers :
    /\ pc[c] # "done" => ~Holds(callbacks, c) /\ ~Taken(c) /\ called[c] = 0
    /\ pc[c] = "done" =>
         \/ Holds(callbacks, c) /\ ~Taken(c) /\ called[c] = 0
         \/ ~Holds(callbacks, c) /\ Taken(c) /\ called[c] = 0
         \/ ~Holds(callbacks, c) /\ ~Taken(c) /\ called[c] = 1

\* The lists hold no callback twice, and a setter has one only while it may
\* still call it.
ListInv ==
  /\ Distinct(callbacks)
  /\ \A s \in Setters :
       /\ Distinct(taken[s])
       /\ pc[s] \in {"start", "rejected", "take", "done"} => taken[s] = <<>>

IInv == TypeOK /\ WinnerInv /\ ReadyInv /\ CallbackInv /\ ListInv

-----------------------------------------------------------------------------
(***************************************************************************)
(* Lists.                                                                  *)
(***************************************************************************)

\* A new element keeps a list distinct.
LEMMA AppendList ==
  ASSUME NEW S, NEW q \in Seq(S), NEW e \in S
  PROVE  /\ Append(q, e) \in Seq(S)
         /\ \A c \in S : Holds(Append(q, e), c) <=> Holds(q, c) \/ c = e
         /\ Distinct(q) /\ ~Holds(q, e) => Distinct(Append(q, e))
  <1>1. /\ Append(q, e) \in Seq(S)
        /\ DOMAIN Append(q, e) = DOMAIN q \cup {Len(q) + 1}
        /\ \A k \in DOMAIN q : Append(q, e)[k] = q[k]
        /\ Append(q, e)[Len(q) + 1] = e
    OBVIOUS
  <1> QED BY <1>1 DEF Holds, Distinct

\* The head leaves a distinct list, the other elements stay.
LEMMA TailList ==
  ASSUME NEW S, NEW q \in Seq(S), q # <<>>, Distinct(q)
  PROVE  /\ Tail(q) \in Seq(S) /\ Head(q) \in S
         /\ Holds(q, Head(q)) /\ ~Holds(Tail(q), Head(q))
         /\ \A c \in S : c # Head(q) => (Holds(Tail(q), c) <=> Holds(q, c))
         /\ Distinct(Tail(q))
  <1>1. /\ Tail(q) \in Seq(S) /\ Head(q) = q[1] /\ 1 \in DOMAIN q /\ q[1] \in S
        /\ \A k \in DOMAIN Tail(q) : k + 1 \in DOMAIN q /\ k + 1 # 1 /\ Tail(q)[k] = q[k + 1]
        /\ \A k \in DOMAIN q : k # 1 => k - 1 \in DOMAIN Tail(q) /\ Tail(q)[k - 1] = q[k]
        /\ DOMAIN Tail(q) \subseteq Int
    OBVIOUS
  <1> QED BY <1>1 DEF Holds, Distinct

\* The empty list.
LEMMA EmptyList == Distinct(<<>>) /\ \A c : ~Holds(<<>>, c)
  BY DEF Distinct, Holds

\* Getters and subscribers leave the winner alone.
LEMMA WinnerKept ==
  ASSUME WinnerInv, UNCHANGED <<content, locked, state, kind>>,
         \A s \in Setters : pc'[s] = pc[s]
  PROVE  WinnerInv'
  BY DEF WinnerInv, Published

(***************************************************************************)
(* The steps of a setter.                                                  *)
(***************************************************************************)

\* A setter that comes too late is rejected.
LEMMA SetRejectedInv ==
  ASSUME IInv, NEW s \in Setters, SetRejected(s)
  PROVE  IInv'
  <1>1. TypeOK'
    BY FutureAssumption DEF IInv, TypeOK, Kinds, Threads, SetRejected, At, shared, locals
  <1>2. WinnerInv'
    BY FutureAssumption DEF IInv, TypeOK, WinnerInv, Published, Threads, SetRejected, At,
           shared, locals
  <1>3. ReadyInv'
    BY FutureAssumption DEF IInv, TypeOK, WinnerInv, ReadyInv, Published, Kinds, Threads,
           SetRejected, At, shared, locals
  <1>4. CallbackInv'
    BY FutureAssumption DEF IInv, TypeOK, CallbackInv, Holds, Taken, Threads, SetRejected, At,
           shared, locals
  <1>5. ListInv'
    BY FutureAssumption DEF IInv, TypeOK, ListInv, Distinct, Threads, SetRejected, At, shared,
           locals
  <1> QED BY <1>1, <1>2, <1>3, <1>4, <1>5 DEF IInv

\* The first setter keeps the others out until the state is set.
LEMMA SetLockInv ==
  ASSUME IInv, NEW s \in Setters, SetLock(s)
  PROVE  IInv'
  <1>1. TypeOK'
    BY FutureAssumption DEF IInv, TypeOK, Kinds, Threads, SetLock, At, locals
  <1>2. WinnerInv'
    <2>1. content = Nobody
      BY FutureAssumption DEF IInv, TypeOK, WinnerInv, SetLock, Kinds
    <2> QED BY <2>1, FutureAssumption DEF IInv, TypeOK, WinnerInv, Published, SetLock, At, Threads
  <1>3. ReadyInv'
    BY FutureAssumption DEF IInv, TypeOK, WinnerInv, ReadyInv, Published, Kinds, Threads,
           SetLock, At, locals
  <1>4. CallbackInv'
    BY FutureAssumption DEF IInv, TypeOK, CallbackInv, Holds, Taken, Threads, SetLock, At,
           locals
  <1>5. ListInv'
    BY FutureAssumption DEF IInv, TypeOK, ListInv, Distinct, Threads, SetLock, At, locals
  <1> QED BY <1>1, <1>2, <1>3, <1>4, <1>5 DEF IInv

\* The callbacks are moved to the setter.
LEMMA SetTakeInv ==
  ASSUME IInv, NEW s \in Setters, SetTake(s)
  PROVE  IInv'
  <1>1. TypeOK'
    BY FutureAssumption DEF IInv, TypeOK, Kinds, Threads, SetTake, At
  <1>2. WinnerInv'
    BY FutureAssumption DEF IInv, TypeOK, WinnerInv, Published, Threads, SetTake, At
  <1>3. ReadyInv'
    BY FutureAssumption DEF IInv, TypeOK, WinnerInv, ReadyInv, Published, Kinds, Threads,
           SetTake, At
  <1>4. CallbackInv'
    <2>1. callbacks' = <<>> /\ taken' = [taken EXCEPT ![s] = callbacks] /\ taken[s] = <<>>
      BY DEF IInv, ListInv, SetTake, At
    <2>2. \A c \in Subscribers : Taken(c)' <=> Taken(c) \/ Holds(callbacks, c)
      BY <2>1, EmptyList DEF IInv, TypeOK, Taken
    <2>3. \A c \in Subscribers : ~Holds(callbacks, c)' /\ pc'[c] = pc[c] /\ called'[c] = called[c]
      BY <2>1, EmptyList, FutureAssumption DEF IInv, TypeOK, SetTake, At, Threads
    <2> QED BY <2>2, <2>3 DEF IInv, CallbackInv
  <1>5. ListInv'
    BY EmptyList DEF IInv, TypeOK, ListInv, SetTake, At, Threads
  <1> QED BY <1>1, <1>2, <1>3, <1>4, <1>5 DEF IInv

\* The state is set when the content is there.
LEMMA SetPublishInv ==
  ASSUME IInv, NEW s \in Setters, SetPublish(s)
  PROVE  IInv'
  <1>1. TypeOK'
    BY FutureAssumption DEF IInv, TypeOK, Kinds, Threads, SetPublish, At, locals
  <1>2. WinnerInv'
    BY FutureAssumption DEF IInv, TypeOK, WinnerInv, Published, Threads, SetPublish, At, locals
  <1>3. ReadyInv'
    BY FutureAssumption DEF IInv, TypeOK, WinnerInv, ReadyInv, Published, Kinds, Threads,
           SetPublish, At, locals
  <1>4. CallbackInv'
    BY FutureAssumption DEF IInv, TypeOK, CallbackInv, Holds, Taken, Threads, SetPublish, At,
           locals
  <1>5. ListInv'
    BY FutureAssumption DEF IInv, TypeOK, ListInv, Distinct, Threads, SetPublish, At, locals
  <1> QED BY <1>1, <1>2, <1>3, <1>4, <1>5 DEF IInv

\* The event is signalled after the state was set.
LEMMA SetSignalInv ==
  ASSUME IInv, NEW s \in Setters, SetSignal(s)
  PROVE  IInv'
  <1>1. TypeOK'
    BY FutureAssumption DEF IInv, TypeOK, Kinds, Threads, SetSignal, At, locals
  <1>2. WinnerInv'
    BY FutureAssumption DEF IInv, TypeOK, WinnerInv, Published, Threads, SetSignal, At, locals
  <1>3. ReadyInv'
    BY FutureAssumption DEF IInv, TypeOK, WinnerInv, ReadyInv, Published, Kinds, Threads,
           SetSignal, At, locals
  <1>4. CallbackInv'
    BY FutureAssumption DEF IInv, TypeOK, CallbackInv, Holds, Taken, Threads, SetSignal, At,
           locals
  <1>5. ListInv'
    BY FutureAssumption DEF IInv, TypeOK, ListInv, Distinct, Threads, SetSignal, At, locals
  <1> QED BY <1>1, <1>2, <1>3, <1>4, <1>5 DEF IInv

\* The sleeping getters are woken.
LEMMA SetBroadCastInv ==
  ASSUME IInv, NEW s \in Setters, SetBroadCast(s)
  PROVE  IInv'
  <1>1. TypeOK'
    BY FutureAssumption DEF IInv, TypeOK, Kinds, Threads, SetBroadCast, shared, locals
  <1>2. WinnerInv'
    BY FutureAssumption DEF IInv, TypeOK, WinnerInv, Published, Threads, SetBroadCast, shared,
           locals
  <1>3. ReadyInv'
    BY FutureAssumption DEF IInv, TypeOK, WinnerInv, ReadyInv, Published, Kinds, Threads,
           SetBroadCast, shared, locals
  <1>4. CallbackInv'
    BY FutureAssumption DEF IInv, TypeOK, CallbackInv, Holds, Taken, Threads, SetBroadCast,
           shared, locals
  <1>5. ListInv'
    BY FutureAssumption DEF IInv, TypeOK, ListInv, Distinct, Threads, SetBroadCast, shared,
           locals
  <1> QED BY <1>1, <1>2, <1>3, <1>4, <1>5 DEF IInv

\* A callback leaves the list when it is called.
LEMMA SetCallInv ==
  ASSUME IInv, NEW s \in Setters, SetCall(s)
  PROVE  IInv'
  <1>1. TypeOK'
    <2>1. Head(taken[s]) \in Subscribers /\ Tail(taken[s]) \in Seq(Subscribers) /\ Taken(Head(taken[s]))
      BY TailList DEF IInv, TypeOK, ListInv, SetCall, Taken
    <2>2. called[Head(taken[s])] = 0
      BY <2>1 DEF IInv, CallbackInv
    <2> QED BY <2>1, <2>2 DEF IInv, TypeOK, SetCall, shared
  <1>2. WinnerInv'
    BY FutureAssumption DEF IInv, TypeOK, WinnerInv, Published, Threads, SetCall, shared
  <1>3. ReadyInv'
    BY FutureAssumption DEF IInv, TypeOK, WinnerInv, ReadyInv, Published, Kinds, Threads,
           SetCall, shared
  <1>4. CallbackInv'
    <2> DEFINE h == Head(taken[s])
    <2>1. /\ h \in Subscribers /\ Holds(taken[s], h) /\ ~Holds(Tail(taken[s]), h)
          /\ \A c \in Subscribers : c # h => (Holds(Tail(taken[s]), c) <=> Holds(taken[s], c))
      BY TailList DEF IInv, TypeOK, ListInv, SetCall
    <2>2. /\ taken' = [taken EXCEPT ![s] = Tail(@)]
          /\ called' = [called EXCEPT ![h] = @ + 1]
      BY DEF SetCall
    <2>3. \A t \in Setters : t # s => taken[t] = <<>>
      BY DEF IInv, ListInv, WinnerInv, SetCall
    <2> HIDE DEF h
    <2>4. \A c \in Subscribers : Taken(c)' <=> Taken(c) /\ c # h
      BY <2>1, <2>2, <2>3, EmptyList DEF IInv, TypeOK, Taken
    <2>5. Taken(h)
      BY <2>1 DEF Taken
    <2> QED BY <2>1, <2>2, <2>4, <2>5 DEF IInv, TypeOK, CallbackInv, SetCall, shared
  <1>5. ListInv'
    <2>1. Distinct(Tail(taken[s]))
      BY TailList DEF IInv, TypeOK, ListInv, SetCall
    <2> QED BY <2>1 DEF IInv, TypeOK, ListInv, SetCall, shared
  <1> QED BY <1>1, <1>2, <1>3, <1>4, <1>5 DEF IInv

\* The setter has called all its callbacks.
LEMMA SetReturnInv ==
  ASSUME IInv, NEW s \in Setters, SetReturn(s)
  PROVE  IInv'
  <1>1. TypeOK'
    BY FutureAssumption DEF IInv, TypeOK, Kinds, Threads, SetReturn, At, shared, locals
  <1>2. WinnerInv'
    BY FutureAssumption DEF IInv, TypeOK, WinnerInv, Published, Threads, SetReturn, At, shared,
           locals
  <1>3. ReadyInv'
    BY FutureAssumption DEF IInv, TypeOK, WinnerInv, ReadyInv, Published, Kinds, Threads,
           SetReturn, At, shared, locals
  <1>4. CallbackInv'
    BY FutureAssumption DEF IInv, TypeOK, CallbackInv, Holds, Taken, Threads, SetReturn, At,
           shared, locals
  <1>5. ListInv'
    BY FutureAssumption DEF IInv, TypeOK, ListInv, Distinct, Threads, SetReturn, At, shared,
           locals
  <1> QED BY <1>1, <1>2, <1>3, <1>4, <1>5 DEF IInv

(***************************************************************************)
(* The steps of a getter.                                                  *)
(***************************************************************************)

\* A getter sees that the state is set.
LEMMA GetReadyInv ==
  ASSUME IInv, NEW g \in Getters, GetReady(g)
  PROVE  IInv'
  <1>1. TypeOK'
    BY FutureAssumption DEF IInv, TypeOK, Kinds, Threads, GetReady, At, shared, locals
  <1>2. WinnerInv'
    BY FutureAssumption DEF IInv, TypeOK, WinnerInv, Published, Threads, GetReady, At, shared,
           locals
  <1>3. ReadyInv'
    BY FutureAssumption DEF IInv, TypeOK, WinnerInv, ReadyInv, Published, Kinds, Threads,
           GetReady, At, shared, locals
  <1>4. CallbackInv'
    BY FutureAssumption DEF IInv, TypeOK, CallbackInv, Holds, Taken, Threads, GetReady, At,
           shared, locals
  <1>5. ListInv'
    BY FutureAssumption DEF IInv, TypeOK, ListInv, Distinct, Threads, GetReady, At, shared,
           locals
  <1> QED BY <1>1, <1>2, <1>3, <1>4, <1>5 DEF IInv

\* A getter does not wait.
LEMMA GetNotSetInv ==
  ASSUME IInv, NEW g \in Getters, GetNotSet(g)
  PROVE  IInv'
  <1>1. TypeOK'
    BY FutureAssumption DEF IInv, TypeOK, Kinds, Threads, GetNotSet, At, shared, locals
  <1>2. WinnerInv'
    BY FutureAssumption DEF IInv, TypeOK, WinnerInv, Published, Threads, GetNotSet, At, shared,
           locals
  <1>3. ReadyInv'
    BY FutureAssumption DEF IInv, TypeOK, WinnerInv, ReadyInv, Published, Kinds, Threads,
           GetNotSet, At, shared, locals
  <1>4. CallbackInv'
    BY FutureAssumption DEF IInv, TypeOK, CallbackInv, Holds, Taken, Threads, GetNotSet, At,
           shared, locals
  <1>5. ListInv'
    BY FutureAssumption DEF IInv, TypeOK, ListInv, Distinct, Threads, GetNotSet, At, shared,
           locals
  <1> QED BY <1>1, <1>2, <1>3, <1>4, <1>5 DEF IInv

\* A getter is going to wait.
LEMMA GetNotReadyInv ==
  ASSUME IInv, NEW g \in Getters, GetNotReady(g)
  PROVE  IInv'
  <1>1. TypeOK'
    BY FutureAssumption DEF IInv, TypeOK, Kinds, Threads, GetNotReady, At, shared, locals
  <1>2. WinnerInv'
    BY FutureAssumption DEF IInv, TypeOK, WinnerInv, Published, Threads, GetNotReady, At,
           shared, locals
  <1>3. ReadyInv'
    BY FutureAssumption DEF IInv, TypeOK, WinnerInv, ReadyInv, Published, Kinds, Threads,
           GetNotReady, At, shared, locals
  <1>4. CallbackInv'
    BY FutureAssumption DEF IInv, TypeOK, CallbackInv, Holds, Taken, Threads, GetNotReady, At,
           shared, locals
  <1>5. ListInv'
    BY FutureAssumption DEF IInv, TypeOK, ListInv, Distinct, Threads, GetNotReady, At, shared,
           locals
  <1> QED BY <1>1, <1>2, <1>3, <1>4, <1>5 DEF IInv

\* Under the lock a getter finds the state set or sees to the event.
LEMMA WaitLockInv ==
  ASSUME IInv, NEW g \in Getters, WaitLock(g)
  PROVE  IInv'
  <1>1. TypeOK'
    BY FutureAssumption DEF IInv, TypeOK, Kinds, Threads, WaitLock, locals
  <1>2. WinnerInv'
    <2>1. \A s \in Setters : pc'[s] = pc[s]
      BY FutureAssumption DEF IInv, TypeOK, Threads, WaitLock
    <2> QED BY <2>1, WinnerKept DEF IInv, WaitLock
  <1>3. ReadyInv'
    BY FutureAssumption DEF IInv, TypeOK, WinnerInv, ReadyInv, Published, Kinds, Threads,
           WaitLock, locals
  <1>4. CallbackInv'
    BY FutureAssumption DEF IInv, TypeOK, CallbackInv, Holds, Taken, Threads, WaitLock, locals
  <1>5. ListInv'
    BY FutureAssumption DEF IInv, TypeOK, ListInv, Distinct, Threads, WaitLock, locals
  <1> QED BY <1>1, <1>2, <1>3, <1>4, <1>5 DEF IInv

\* A getter finds the event signalled.
LEMMA WaitSignaledInv ==
  ASSUME IInv, NEW g \in Getters, WaitSignaled(g)
  PROVE  IInv'
  <1>1. TypeOK'
    BY FutureAssumption DEF IInv, TypeOK, Kinds, Threads, WaitSignaled, At, shared, locals
  <1>2. WinnerInv'
    BY FutureAssumption DEF IInv, TypeOK, WinnerInv, Published, Threads, WaitSignaled, At,
           shared, locals
  <1>3. ReadyInv'
    BY FutureAssumption DEF IInv, TypeOK, WinnerInv, ReadyInv, Published, Kinds, Threads,
           WaitSignaled, At, shared, locals
  <1>4. CallbackInv'
    BY FutureAssumption DEF IInv, TypeOK, CallbackInv, Holds, Taken, Threads, WaitSignaled, At,
           shared, locals
  <1>5. ListInv'
    BY FutureAssumption DEF IInv, TypeOK, ListInv, Distinct, Threads, WaitSignaled, At, shared,
           locals
  <1> QED BY <1>1, <1>2, <1>3, <1>4, <1>5 DEF IInv

\* A getter sleeps.
LEMMA WaitSleepInv ==
  ASSUME IInv, NEW g \in Getters, WaitSleep(g)
  PROVE  IInv'
  <1>1. TypeOK'
    BY FutureAssumption DEF IInv, TypeOK, Kinds, Threads, WaitSleep, At, shared, locals
  <1>2. WinnerInv'
    BY FutureAssumption DEF IInv, TypeOK, WinnerInv, Published, Threads, WaitSleep, At, shared,
           locals
  <1>3. ReadyInv'
    BY FutureAssumption DEF IInv, TypeOK, WinnerInv, ReadyInv, Published, Kinds, Threads,
           WaitSleep, At, shared, locals
  <1>4. CallbackInv'
    BY FutureAssumption DEF IInv, TypeOK, CallbackInv, Holds, Taken, Threads, WaitSleep, At,
           shared, locals
  <1>5. ListInv'
    BY FutureAssumption DEF IInv, TypeOK, ListInv, Distinct, Threads, WaitSleep, At, shared,
           locals
  <1> QED BY <1>1, <1>2, <1>3, <1>4, <1>5 DEF IInv

\* A getter gives up unless the event was signalled.
LEMMA WaitTimeoutInv ==
  ASSUME IInv, NEW g \in Getters, WaitTimeout(g)
  PROVE  IInv'
  <1>1. TypeOK'
    <2>1. pc' \in [Threads -> {"start", "rejected", "take", "publish", "signal", "broadcast",
                               "call", "lock", "wait", "asleep", "read", "done"}]
      BY DEF IInv, TypeOK, WaitTimeout
    <2>2. \A c \in Subscribers : pc'[c] = pc[c]
      BY FutureAssumption DEF IInv, TypeOK, Threads, WaitTimeout
    <2>3. DOMAIN got' = Getters
      BY DEF IInv, TypeOK, WaitTimeout
    <2> QED BY <2>1, <2>2, <2>3 DEF IInv, TypeOK, WaitTimeout, shared, locals
  <1>2. WinnerInv'
    BY FutureAssumption DEF IInv, TypeOK, WinnerInv, Published, Threads, WaitTimeout, shared,
           locals
  <1>3. ReadyInv'
    BY FutureAssumption DEF IInv, TypeOK, WinnerInv, ReadyInv, Published, Kinds, Threads,
           WaitTimeout, shared, locals
  <1>4. CallbackInv'
    BY FutureAssumption DEF IInv, TypeOK, CallbackInv, Holds, Taken, Threads, WaitTimeout,
           shared, locals
  <1>5. ListInv'
    BY FutureAssumption DEF IInv, TypeOK, ListInv, Distinct, Threads, WaitTimeout, shared,
           locals
  <1> QED BY <1>1, <1>2, <1>3, <1>4, <1>5 DEF IInv

\* A getter reads the outcome.
LEMMA GetReadInv ==
  ASSUME IInv, NEW g \in Getters, GetRead(g)
  PROVE  IInv'
  <1>1. TypeOK'
    BY FutureAssumption DEF IInv, TypeOK, Kinds, Threads, GetRead, At, shared, locals
  <1>2. WinnerInv'
    BY FutureAssumption DEF IInv, TypeOK, WinnerInv, Published, Threads, GetRead, At, shared,
           locals
  <1>3. ReadyInv'
    BY FutureAssumption DEF IInv, TypeOK, WinnerInv, ReadyInv, Published, Kinds, Threads,
           GetRead, At, shared, locals
  <1>4. CallbackInv'
    BY FutureAssumption DEF IInv, TypeOK, CallbackInv, Holds, Taken, Threads, GetRead, At,
           shared, locals
  <1>5. ListInv'
    BY FutureAssumption DEF IInv, TypeOK, ListInv, Distinct, Threads, GetRead, At, shared,
           locals
  <1> QED BY <1>1, <1>2, <1>3, <1>4, <1>5 DEF IInv

(***************************************************************************)
(* The steps of a subscriber.                                              *)
(***************************************************************************)

\* A callback is stored only while nobody has set the future.
LEMMA SubscribeInv ==
  ASSUME IInv, NEW c \in Subscribers, Subscribe(c)
  PROVE  IInv'
  <1>q. /\ Append(callbacks, c) \in Seq(Subscribers)
        /\ \A d \in Subscribers : Holds(Append(callbacks, c), d) <=> Holds(callbacks, d) \/ d = c
        /\ Distinct(callbacks) /\ ~Holds(callbacks, c) => Distinct(Append(callbacks, c))
    <2>1. callbacks \in Seq(Subscribers)
      BY DEF IInv, TypeOK
    <2> QED BY <2>1, AppendList
  <1>1. TypeOK'
    BY <1>q DEF IInv, TypeOK, Subscribe, locals, Threads
  <1>2. WinnerInv'
    <2>1. \A s \in Setters : pc'[s] = pc[s]
      BY FutureAssumption DEF IInv, TypeOK, Threads, Subscribe
    <2> QED BY <2>1, WinnerKept DEF IInv, Subscribe
  <1>3. ReadyInv'
    BY FutureAssumption DEF IInv, TypeOK, WinnerInv, ReadyInv, Published, Kinds, Threads,
           Subscribe, locals
  <1>4. CallbackInv'
    <2>1. \A d \in Subscribers : called'[d] = called[d] /\ (Taken(d)' <=> Taken(d))
      BY DEF Subscribe, locals, Taken
    <2>2. pc[c] = "start" /\ ~Holds(callbacks, c) /\ ~Taken(c) /\ called[c] = 0
      BY DEF IInv, CallbackInv, Subscribe
    <2>3. CASE state = "NotReady"
      <3>1. \A d \in Subscribers : Holds(callbacks, d)' <=> Holds(callbacks, d) \/ d = c
        BY <2>3, <1>q DEF IInv, TypeOK, Subscribe
      <3>2. pc' = [pc EXCEPT ![c] = "done"]
        BY <2>3 DEF Subscribe
      <3> QED BY <2>1, <2>2, <3>1, <3>2 DEF IInv, TypeOK, CallbackInv, Threads
    <2>4. CASE state # "NotReady"
      BY <2>1, <2>2, <2>4 DEF IInv, TypeOK, CallbackInv, Subscribe, Holds, Threads
    <2> QED BY <2>3, <2>4
  <1>5. ListInv'
    <2>1. ~Holds(callbacks, c)
      BY DEF IInv, CallbackInv, Subscribe
    <2>2. Distinct(callbacks')
      BY <2>1, <1>q DEF IInv, TypeOK, ListInv, Subscribe
    <2> QED BY <2>2, FutureAssumption DEF IInv, TypeOK, ListInv, Subscribe, locals, Threads
  <1> QED BY <1>1, <1>2, <1>3, <1>4, <1>5 DEF IInv

\* A subscriber calls its callback itself.
LEMMA CallNowInv ==
  ASSUME IInv, NEW c \in Subscribers, CallNow(c)
  PROVE  IInv'
  <1>1. TypeOK'
    <2>1. called[c] = 0
      BY DEF IInv, CallbackInv, CallNow, At
    <2> QED BY <2>1 DEF IInv, TypeOK, CallNow, At, shared, locals, Threads
  <1>2. WinnerInv'
    BY FutureAssumption DEF IInv, TypeOK, WinnerInv, Published, Threads, CallNow, At, shared,
           locals
  <1>3. ReadyInv'
    BY FutureAssumption DEF IInv, TypeOK, WinnerInv, ReadyInv, Published, Kinds, Threads,
           CallNow, At, shared, locals
  <1>4. CallbackInv'
    BY FutureAssumption DEF IInv, TypeOK, CallbackInv, Holds, Taken, Threads, CallNow, At,
           shared, locals
  <1>5. ListInv'
    BY FutureAssumption DEF IInv, TypeOK, ListInv, Distinct, Threads, CallNow, At, shared,
           locals
  <1> QED BY <1>1, <1>2, <1>3, <1>4, <1>5 DEF IInv

-----------------------------------------------------------------------------
(***************************************************************************)
(* The theorems.                                                           *)
(***************************************************************************)

\* A future that nobody has used satisfies the invariant.
LEMMA Initially == Init => IInv
  <1> SUFFICES ASSUME Init PROVE IInv
    OBVIOUS
  <1>1. TypeOK
    <2>1. /\ pc = [t \in Threads |-> "start"]
          /\ \A c \in Subscribers : c \in Threads
      BY DEF Init, Threads
    <2>2. /\ taken \in [Setters -> Seq(Subscribers)] /\ callbacks \in Seq(Subscribers)
          /\ called \in [Subscribers -> {0, 1}] /\ readyEvent \in [Setters -> BOOLEAN]
      BY DEF Init
    <2>3. kind \in [Setters -> Kinds] /\ DOMAIN got = Getters
      BY DEF Init, Kinds
    <2> QED BY <2>1, <2>2, <2>3 DEF Init, TypeOK
  <1>2. WinnerInv
    BY FutureAssumption DEF Init, WinnerInv
  <1>3. ReadyInv
    BY DEF Init, ReadyInv
  <1>4. CallbackInv
    BY EmptyList DEF Init, CallbackInv, Taken
  <1>5. ListInv
    BY EmptyList DEF Init, ListInv
  <1> QED BY <1>1, <1>2, <1>3, <1>4, <1>5 DEF IInv

\* The invariant is about vars only.
LEMMA Stuttering == IInv /\ UNCHANGED vars => IInv'
  BY DEF vars, shared, locals, IInv, TypeOK, WinnerInv, ReadyInv, CallbackInv, ListInv, Published,
         Taken

\* The invariant holds in every reachable state.
THEOREM Invariance == Spec => []IInv
  <1>1. IInv /\ [Next]_vars => IInv'
    <2> SUFFICES ASSUME IInv, [Next]_vars PROVE IInv'
      OBVIOUS
    <2>1. CASE \E s \in Setters : Setter(s)
      BY <2>1, SetRejectedInv, SetLockInv, SetTakeInv, SetPublishInv, SetSignalInv, SetBroadCastInv,
         SetCallInv, SetReturnInv DEF Setter
    <2>2. CASE \E g \in Getters : Getter(g)
      BY <2>2, GetReadyInv, GetNotSetInv, GetNotReadyInv, WaitLockInv, WaitSignaledInv, WaitSleepInv,
         WaitTimeoutInv, GetReadInv DEF Getter
    <2>3. CASE \E c \in Subscribers : Subscriber(c)
      BY <2>3, SubscribeInv, CallNowInv DEF Subscriber
    <2>4. CASE UNCHANGED vars
      BY <2>4, Stuttering
    <2> QED BY <2>1, <2>2, <2>3, <2>4 DEF Next
  <1> QED BY <1>1, Initially, PTL DEF Spec

\* The state of a future that is set is that of the setter whose content is
\* stored.
LEMMA SetByContent ==
  ASSUME IInv, state # "NotReady"
  PROVE  content \in Setters /\ state = kind[content]
  BY DEF IInv, TypeOK, WinnerInv

\* A getter that goes on to read finds the content of the setter that set the
\* state.
THEOREM ReadsAreComplete == Spec => []ReadsComplete
  <1>1. IInv => ReadsComplete
    BY SetByContent, FutureAssumption DEF IInv, ReadyInv, ReadsComplete
  <1> QED BY <1>1, Invariance, PTL

\* A callback that was given to Subscribe is in one place, and once.
THEOREM CallbacksAreConserved == Spec => []CallbacksConserved
  <1>1. IInv => CallbacksConserved
    <2> SUFFICES ASSUME IInv PROVE CallbacksConserved
      OBVIOUS
    <2> DEFINE times(q, c) == IF \E i \in DOMAIN q : q[i] = c THEN 1 ELSE 0
    <2>1. \A q, c : times(q, c) = IF Holds(q, c) THEN 1 ELSE 0
      BY DEF Holds
    <2> SUFFICES ASSUME NEW c \in Subscribers, pc[c] = "done"
                 PROVE \/ times(callbacks, c) + called[c] = 1 /\ \A s \in Setters : times(taken[s], c) = 0
                       \/ times(callbacks, c) + called[c] = 0 /\ \E s \in Setters : times(taken[s], c) = 1
      BY DEF CallbacksConserved
    <2> HIDE DEF times
    <2> QED BY <2>1 DEF IInv, CallbackInv, Taken
  <1> QED BY <1>1, Invariance, PTL

(***************************************************************************)
(* The future implements OneShot, step by step.                            *)
(***************************************************************************)
OneShotSafety == OneShotOf!Init /\ [][OneShotOf!Next]_(OneShotOf!vars)

\* A setter decides when it publishes the state, and calls its callbacks after
\* that.
LEMMA SetterSimulates ==
  ASSUME IInv, NEW s \in Setters, Setter(s)
  PROVE  OneShotOf!Next \/ UNCHANGED OneShotOf!vars
  <1>1. CASE SetRejected(s) \/ SetTake(s) \/ SetSignal(s) \/ SetBroadCast(s) \/ SetReturn(s)
    BY <1>1 DEF SetRejected, SetTake, SetSignal, SetBroadCast, SetReturn, shared, OneShotOf!vars
  <1>2. CASE SetLock(s)
    BY <1>2 DEF SetLock, OneShotOf!vars
  <1>3. CASE SetPublish(s)
    <2>1. content = s /\ state = "NotReady" /\ state' = kind[s] /\ kind[s] \in Kinds
      BY <1>3 DEF IInv, TypeOK, WinnerInv, SetPublish, At, Published
    <2>2. content' = content /\ got' = got /\ called' = called
      BY <1>3 DEF SetPublish
    <2>3. OneShotOf!Set(<<kind[s], s>>)
      BY <2>1, <2>2 DEF OneShotOf!Set, OneShotOf!NoOutcome, Nothing, Kinds
    <2> QED BY <2>1, <2>3 DEF OneShotOf!Next, Kinds
  <1>4. CASE SetCall(s)
    <2> DEFINE c == Head(taken[s])
    <2>1. c \in Subscribers /\ Taken(c)
      BY <1>4, TailList DEF IInv, TypeOK, ListInv, SetCall, Taken
    <2>2. called[c] = 0 /\ state # "NotReady"
      BY <1>4, <2>1 DEF IInv, TypeOK, WinnerInv, CallbackInv, SetCall, Published, Kinds
    <2>3. /\ called' = [called EXCEPT ![c] = 1]
          /\ state' = state /\ content' = content /\ got' = got
      BY <1>4, <2>1, <2>2 DEF SetCall, shared, IInv, TypeOK
    <2> HIDE DEF c
    <2>4. OneShotOf!Call(c)
      BY <2>2, <2>3 DEF OneShotOf!Call, OneShotOf!NoOutcome
    <2> QED BY <2>1, <2>4 DEF OneShotOf!Next
  <1> QED BY <1>1, <1>2, <1>3, <1>4 DEF Setter

\* A getter returns what was decided, or gives up.
LEMMA GetterSimulates ==
  ASSUME IInv, NEW g \in Getters, Getter(g)
  PROVE  OneShotOf!Next \/ UNCHANGED OneShotOf!vars
  <1>1. CASE GetReady(g) \/ GetNotReady(g) \/ WaitLock(g) \/ WaitSignaled(g) \/ WaitSleep(g)
    BY <1>1 DEF GetReady, GetNotReady, WaitLock, WaitSignaled, WaitSleep, shared, OneShotOf!vars
  <1>2. CASE GetNotSet(g)
    <2>1. OneShotOf!GiveUp(g)
      BY <1>2 DEF IInv, ReadyInv, GetNotSet, At, shared, Nothing, TimedOut, OneShotOf!GiveUp,
                  OneShotOf!NoOutcome, OneShotOf!GaveUp
    <2> QED BY <1>2, <2>1 DEF GetNotSet, OneShotOf!Next
  <1>3. CASE WaitTimeout(g)
    <2>1. CASE event = "signaled"
      BY <1>3, <2>1 DEF WaitTimeout, shared, OneShotOf!vars
    <2>2. CASE event # "signaled"
      <3>1. OneShotOf!GiveUp(g)
        BY <1>3, <2>2 DEF IInv, ReadyInv, WaitTimeout, shared, Nothing, TimedOut, OneShotOf!GiveUp,
                          OneShotOf!NoOutcome, OneShotOf!GaveUp
      <3> QED BY <1>3, <3>1 DEF WaitTimeout, OneShotOf!Next
    <2> QED BY <2>1, <2>2
  <1>4. CASE GetRead(g)
    <2>1. state # "NotReady" /\ got[g] = Nothing
      BY <1>4 DEF IInv, ReadyInv, GetRead, At
    <2>2. OneShotOf!Get(g)
      BY <1>4, <2>1 DEF GetRead, shared, Nothing, OneShotOf!Get, OneShotOf!NoOutcome
    <2> QED BY <2>2 DEF OneShotOf!Next
  <1> QED BY <1>1, <1>2, <1>3, <1>4 DEF Getter

\* A subscriber that finds the future set calls its callback itself.
LEMMA SubscriberSimulates ==
  ASSUME IInv, NEW c \in Subscribers, Subscriber(c)
  PROVE  OneShotOf!Next \/ UNCHANGED OneShotOf!vars
  <1>1. CASE Subscribe(c)
    BY <1>1 DEF Subscribe, OneShotOf!vars
  <1>2. CASE CallNow(c)
    <2>1. called[c] = 0 /\ state # "NotReady"
      BY <1>2 DEF IInv, CallbackInv, ReadyInv, CallNow, At
    <2>2. OneShotOf!Call(c)
      BY <1>2, <2>1 DEF IInv, TypeOK, CallNow, shared, OneShotOf!Call, OneShotOf!NoOutcome
    <2> QED BY <2>2 DEF OneShotOf!Next
  <1> QED BY <1>1, <1>2 DEF Subscriber

\* The steps of the future are those of OneShot: one outcome, the same for
\* every reader, and every callback called at most once, after it.
THEOREM ImplementsOneShot == Spec => OneShotSafety
  <1>1. Init => OneShotOf!Init
    BY DEF Init, Nothing, OneShotOf!Init, OneShotOf!NoOutcome
  <1>2. IInv /\ [Next]_vars => [OneShotOf!Next]_(OneShotOf!vars)
    <2> SUFFICES ASSUME IInv, [Next]_vars PROVE OneShotOf!Next \/ UNCHANGED OneShotOf!vars
      OBVIOUS
    <2>1. CASE UNCHANGED vars
      BY <2>1 DEF vars, shared, OneShotOf!vars
    <2> QED BY <2>1, SetterSimulates, GetterSimulates, SubscriberSimulates DEF Next
  <1> QED BY <1>1, <1>2, Invariance, PTL DEF Spec, OneShotSafety

=============================================================================
