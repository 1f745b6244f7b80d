------------------------- MODULE RunStoreLifecycle --------------------------
(* The store implements ServiceLifecycle: the refinement mapping. *)
EXTENDS RunStore

\* The phase of a run is its status, split by the desired state of its service.
PhaseOf(s) ==
  LET status == runs[s].status
      deleted == services[s].desired = "deleted"
  IN IF status = "absent" THEN "none"
     ELSE IF status = "pending" /\ deleted THEN "stopping"
     ELSE IF status = "deploying" /\ deleted THEN "removing"
     ELSE status

Lifecycle == INSTANCE ServiceLifecycle WITH
  desired <- [s \in Services |-> services[s].desired],
  generation <- [s \in Services |-> services[s].generation],
  phase <- [s \in Services |-> PhaseOf(s)]

\* Every transaction of the store, however it interleaves with the others, is a
\* step of the lifecycle: a run is assigned only from pending, settled only when
\* assigned, restarted only by a newer generation, and dropped only by a deletion.
StoreImplementsLifecycle == Lifecycle!Spec
=============================================================================
