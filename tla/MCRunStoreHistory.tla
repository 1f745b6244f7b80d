-------------------------- MODULE MCRunStoreHistory --------------------------
(* RunStore with a history variable, for a statement about accepted upserts. *)
EXTENDS MCRunStore

VARIABLE accepted   \* accepted[s]: the newest generation an upsert has activated

HistoryInit == Init /\ accepted = [s \in Services |-> 0]

HistoryNext ==
  /\ Next
  /\ accepted' = [s \in Services |->
       IF services'[s].desired = "active" /\ services'[s].generation > accepted[s]
         THEN services'[s].generation ELSE accepted[s]]

HistorySpec == HistoryInit /\ [][HistoryNext]_<<vars, accepted>>

\* "stale upsert resurrected deleted service" is what service_integration_test.go
\* fails on: repeating an upsert that was accepted before the deletion does not
\* bring the service back.  DeleteService computes the tombstone's generation from
\* an unlocked read, so it can write one below an upsert accepted in between.
AcceptedUpsertStaysDeleted ==
  [][\A s \in Services :
       services[s].desired = "deleted" /\ services'[s].desired = "active" =>
         services'[s].generation > accepted[s]]_<<vars, accepted>>
=============================================================================
