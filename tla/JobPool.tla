------------------------------- MODULE JobPool --------------------------------
(***************************************************************************)
(* What a thread pool promises: a job that was accepted is processed once, *)
(* whether or not the pool is ever stopped; a pool that is to stop does    *)
(* stop, once none is left.                                                *)
(***************************************************************************)
EXTENDS Naturals

CONSTANT Jobs

VARIABLES accepted, processed, state

vars == <<accepted, processed, state>>

Init == accepted = {} /\ processed = [j \in Jobs |-> 0] /\ state = "running"

Accept(j) ==
  /\ state # "stopped" /\ j \notin accepted
  /\ accepted' = accepted \cup {j}
  /\ UNCHANGED <<processed, state>>

Process(j) ==
  /\ state # "stopped" /\ j \in accepted /\ processed[j] = 0
  /\ processed' = [processed EXCEPT ![j] = 1]
  /\ UNCHANGED <<accepted, state>>

\* The caller does the job itself; the pool takes no part in it.
ProcessAtOnce(j) ==
  /\ j \notin accepted
  /\ accepted' = accepted \cup {j} /\ processed' = [processed EXCEPT ![j] = 1]
  /\ UNCHANGED state

CallStop ==
  /\ state = "running"
  /\ state' = "stopping"
  /\ UNCHANGED <<accepted, processed>>

Stop ==
  /\ state = "stopping" /\ \A j \in accepted : processed[j] = 1
  /\ state' = "stopped"
  /\ UNCHANGED <<accepted, processed>>

Next == CallStop \/ Stop \/ \E j \in Jobs : Accept(j) \/ Process(j) \/ ProcessAtOnce(j)

Spec == Init /\ [][Next]_vars /\ WF_vars(Stop) /\ \A j \in Jobs : WF_vars(Process(j))

=============================================================================
