-------------------------- MODULE ServiceLifecycle --------------------------
(***************************************************************************)
(* What the cloud-plane store promises a caller about one service: the     *)
(* desired state with its generation, and the phase of the service's only  *)
(* run.  Nothing is said about nodes, containers, ids or reservations.     *)
(***************************************************************************)
EXTENDS Integers

CONSTANTS Services, MaxGeneration

VARIABLES
  desired,     \* desired[s]: "absent", "active" or "deleted"
  generation,  \* generation[s]: the generation of that desired state
  phase        \* phase[s]: where the service's run is

vars == <<desired, generation, phase>>

Phases == {"none", "pending", "deploying", "running", "stopping", "removing",
           "failed", "succeeded"}

\* Phases in which a node may be working for the service.
Unsettled == {"pending", "deploying", "running", "stopping", "removing"}

Init ==
  /\ desired = [s \in Services |-> "absent"]
  /\ generation = [s \in Services |-> 0]
  /\ phase = [s \in Services |-> "none"]

\* A newer generation is accepted and restarts the run, whatever it was doing.
Accept(s, g) ==
  /\ g > generation[s]
  /\ desired' = [desired EXCEPT ![s] = "active"]
  /\ generation' = [generation EXCEPT ![s] = g]
  /\ phase' = [phase EXCEPT ![s] = "pending"]

\* A deletion keeps the row of a run only while a live container has to be stopped.
Retire(s, g) ==
  /\ desired[s] # "absent"
  /\ desired' = [desired EXCEPT ![s] = "deleted"]
  /\ generation' = [generation EXCEPT ![s] = g]
  /\ phase' = [phase EXCEPT ![s] = IF @ = "running" THEN "stopping" ELSE "none"]

Assign(s) ==
  /\ \/ phase[s] = "pending" /\ phase' = [phase EXCEPT ![s] = "deploying"]
     \/ phase[s] = "stopping" /\ phase' = [phase EXCEPT ![s] = "removing"]
  /\ UNCHANGED <<desired, generation>>

\* Only assigned work gets an outcome; a run disappears only for a deleted service.
Settle(s) ==
  /\ phase[s] \in {"deploying", "removing"}
  /\ \/ phase' = [phase EXCEPT ![s] = "running"]
     \/ phase' = [phase EXCEPT ![s] = "failed"]
     \/ desired[s] = "active" /\ phase' = [phase EXCEPT ![s] = "succeeded"]
     \/ desired[s] = "deleted" /\ phase' = [phase EXCEPT ![s] = "none"]
  /\ UNCHANGED <<desired, generation>>

\* The platform gives up on a set of runs at once (a node went offline).
GiveUp(S) ==
  /\ \A s \in S : phase[s] \in Unsettled
  /\ phase' = [s \in Services |-> IF s \in S THEN "failed" ELSE phase[s]]
  /\ UNCHANGED <<desired, generation>>

Next ==
  \/ \E s \in Services, g \in 1..MaxGeneration : Accept(s, g) \/ Retire(s, g)
  \/ \E s \in Services : Assign(s) \/ Settle(s)
  \/ \E S \in SUBSET Services : GiveUp(S)

Spec == Init /\ [][Next]_vars
=============================================================================
