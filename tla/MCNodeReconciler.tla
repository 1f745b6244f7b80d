--------------------------- MODULE MCNodeReconciler ---------------------------
(* Constants and bounds for the run that checks NodeReconciler. *)
EXTENDS NodeReconciler

CONSTANTS small, large, huge, s1, s2

\* An instance of 2 units offers 1 of them to runs.
MCRequest == [spec \in Specs |-> IF spec = small THEN 1 ELSE IF spec = large THEN 2 ELSE 3]
MCCapacity == [n \in Nodes |-> 1]

VARIABLE bounds  \* chosen once: what callers ask for, and what else there is

Bounds(first, second, generations, more) ==
  [specs |-> [s \in Services |-> IF s = s1 THEN first ELSE second],
   generations |-> generations, more |-> more]

\* A service while the loop, the provider and the agent fail; one that is deleted; one
\* that is updated while its node is on its way; two that queue for nodes, the first
\* perhaps for ever; and one that no node is created for.
MCBounds ==
  {Bounds({small}, {}, 1, {"faults", "failures"}), Bounds({small}, {}, 1, {"deletions", "failures"}),
   Bounds({small}, {}, 2, {}), Bounds({small, large}, {small}, 1, {}), Bounds({huge}, {}, 1, {})}

\* Only callers and faults are bounded, and what a report says: nothing that fairness
\* promises.
Within ==
  /\ \A s \in Services :
       /\ services'[s].desired = "active" => services'[s].spec \in bounds.specs[s]
       /\ services'[s].generation <= bounds.generations
       /\ services'[s].generation = services[s].generation => services'[s].spec = services[s].spec
  /\ services'[s2].desired # "absent" => services'[s1].desired # "absent"
  /\ \A d \in deletes' : "deletions" \in bounds.more /\ d.generation <= bounds.generations
  /\ faults' > 0 => "faults" \in bounds.more
  /\ \/ "failures" \in bounds.more \/ issued \subseteq issued'
     \/ \A s \in Services : runs'[s].status # "failed"

BoundedInit == ReconcilerInit /\ bounds \in MCBounds

BoundedSpec ==
  /\ BoundedInit
  /\ [][ReconcilerNext /\ Within /\ UNCHANGED bounds]_<<allVars, bounds>>
  /\ Fairness
=============================================================================
