------------------------------- MODULE OneShot --------------------------------
(***************************************************************************)
(* What a future promises: its outcome is set once, every reader sees that *)
(* outcome or, if it may time out, gives up, and every callback is called  *)
(* once, after the outcome was set.                                        *)
(***************************************************************************)
EXTENDS Integers

CONSTANTS
  Outcomes,
  Getters, Impatient,    \* the readers, and those of them with a timeout
  Subscribers

NoOutcome == <<>>
GaveUp == <<"wait timeout">>

VARIABLES outcome, got, called

vars == <<outcome, got, called>>

Init ==
  /\ outcome = NoOutcome
  /\ got = [g \in Getters |-> NoOutcome]
  /\ called = [c \in Subscribers |-> 0]

Set(o) ==
  /\ outcome = NoOutcome
  /\ outcome' = o
  /\ UNCHANGED <<got, called>>

Get(g) ==
  /\ outcome # NoOutcome /\ got[g] = NoOutcome
  /\ got' = [got EXCEPT ![g] = outcome]
  /\ UNCHANGED <<outcome, called>>

GiveUp(g) ==
  /\ got[g] = NoOutcome
  /\ got' = [got EXCEPT ![g] = GaveUp]
  /\ UNCHANGED <<outcome, called>>

Call(c) ==
  /\ outcome # NoOutcome /\ called[c] = 0
  /\ called' = [called EXCEPT ![c] = 1]
  /\ UNCHANGED <<outcome, got>>

Next ==
  \/ \E o \in Outcomes : Set(o)
  \/ \E g \in Getters : Get(g)
  \/ \E g \in Impatient : GiveUp(g)
  \/ \E c \in Subscribers : Call(c)

\* Once the outcome is set every reader returns and every callback is called.
Spec ==
  /\ Init /\ [][Next]_vars
  /\ \A g \in Getters : WF_vars(Get(g))
  /\ \A c \in Subscribers : WF_vars(Call(c))

=============================================================================
