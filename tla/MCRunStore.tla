----------------------------- MODULE MCRunStore -----------------------------
(* Constants, symmetry and a start with a ready fleet for the runs that check *)
(* RunStore.                                                                  *)
EXTENDS RunStoreLifecycle, TLC

CONSTANTS small, large

MCRequest == [spec \in Specs |-> IF spec = large THEN 2 ELSE 1]
MCCapacity == [n \in Nodes |-> 2]

StoreSymmetry == Permutations(Services) \cup Permutations(Nodes) \cup Permutations(Instances)

\* Every node has been provisioned or installed, registered and heard from once.
FleetInit ==
  /\ Init!1 /\ Init!2 /\ Init!4 /\ Init!5 /\ Init!6
  /\ \E f \in [Nodes -> Instances] :
       /\ \A m, n \in Nodes : f[m] = f[n] => m = n
       /\ nodes = [n \in Nodes |->
            [status |-> "ready", schedulable |-> TRUE, elastic |-> TRUE,
             instance |-> f[n], heard |-> TRUE, allocated |-> 0]]

\* The fleet neither grows nor shrinks, but its nodes may stop answering.
FleetNext ==
  \/ ServiceStep \/ RunStep \/ CloudPlaneRestart
  \/ \E Stale \in SUBSET Nodes : MarkStaleNodeHeartbeatsOffline(Stale)

FleetSpec == FleetInit /\ [][FleetNext]_vars

-----------------------------------------------------------------------------
(* Statements of the store's integration tests that only hold without concurrency. *)

\* "deleted node heartbeat revived node" is what node_integration_test.go fails
\* on: a heartbeat after the deletion leaves the row deleted.  RecordNodeHeartbeat
\* reads the status without a lock, so one that read it before does revive it.
DeletedNodeStaysDeleted ==
  [][\A n \in Nodes : nodes[n].status = "deleted" => nodes'[n].status = "deleted"]_vars

\* execution_integration_test.go wants the allocation after an update "unchanged
\* from one current run": a node never books more than one run per service.
\* upsertServiceRunTx gives back the reservation of a running run only, so an
\* update that supersedes a deploying one leaks it.
OneReservationPerService ==
  \A n \in Nodes : nodes[n].allocated <= Load({s \in Services : runs[s].status # "absent"})
=============================================================================
