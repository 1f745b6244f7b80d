------------------------------ MODULE RunStore ------------------------------
(***************************************************************************)
(* The cloud-plane's Postgres store: the tables services, service_runs and *)
(* nodes, with one action per transaction of package store.  Callers (gRPC *)
(* handlers, reconcile loops, node agents) are the environment: any of     *)
(* them may run any transaction at any time.                               *)
(*                                                                         *)
(* A transaction that takes FOR UPDATE locks on the rows it reads is one   *)
(* action.  DeleteService and RecordNodeHeartbeat read the row WITHOUT a   *)
(* lock and write it in a later statement under READ COMMITTED, so each of *)
(* them is two actions with its private copy in "deletes" / "heartbeats".  *)
(*                                                                         *)
(* CPU and memory are one resource dimension, counted in units: the code   *)
(* treats the two alike in every comparison and every update.              *)
(***************************************************************************)
EXTENDS Integers, FiniteSets

CONSTANTS
  Services,         \* service ids
  Specs,            \* service specs: image, instance class, exposure, ...
  Request,          \* Request[spec]: units the instance class asks for
  Nodes,            \* ids of node rows
  Instances,        \* provider VM instances
  Capacity,         \* Capacity[n]: units the agent of node n reports allocatable
  RunIDs,           \* pool of execution ids (bounds rows created while old work is out)
  MaxGeneration,    \* bound on the generations callers send
  MaxTransactions,  \* bound on unlocked read/write transactions in flight
  NoNode, NoInstance, NoRunID, NoSpec   \* SQL NULLs

Generations == 1..MaxGeneration

ASSUME BoundsAssumption ==
  /\ MaxGeneration \in Nat
  /\ MaxTransactions \in Nat
ASSUME ServicesAssumption == IsFiniteSet(Services)
ASSUME RequestAssumption == Request \in [Specs -> Nat \ {0}]
ASSUME CapacityAssumption == Capacity \in [Nodes -> Nat]
ASSUME NullAssumption ==
  /\ NoNode \notin Nodes
  /\ NoInstance \notin Instances
  /\ NoRunID \notin RunIDs
  /\ NoSpec \notin Specs

VARIABLES
  services,    \* table services: [Services -> ServiceRow]
  runs,        \* table service_runs, UNIQUE(service_id): [Services -> RunRow]
  nodes,       \* table nodes: [Nodes -> NodeRow]
  deletes,     \* DeleteService calls between their read and their write
  heartbeats,  \* RecordNodeHeartbeat calls between their read and their write
  issued       \* work items handed to agents whose report has not arrived

vars == <<services, runs, nodes, deletes, heartbeats, issued>>

-----------------------------------------------------------------------------
(* Rows.  "absent" is a missing row. *)

DesiredStates == {"absent", "active", "deleted"}
RunStatuses == {"absent", "pending", "deploying", "running", "succeeded", "failed"}
NodeStatuses == {"absent", "provisioning", "registering", "ready", "draining",
                 "offline", "deleted"}

ServiceRow == [generation: 0..MaxGeneration, desired: DesiredStates,
               spec: Specs \cup {NoSpec}]

RunRow == [status: RunStatuses, id: RunIDs \cup {NoRunID},
           generation: 0..MaxGeneration, spec: Specs \cup {NoSpec},
           node: Nodes \cup {NoNode}, container: 0..MaxGeneration]

NodeRow == [status: NodeStatuses, schedulable: BOOLEAN, elastic: BOOLEAN,
            instance: Instances \cup {NoInstance}, heard: BOOLEAN, allocated: Nat]

\* container is 0 for an empty container_id, else the generation whose work
\* item started the container (its name is mini-cloud-<service>-g<generation>).
WorkItem == [service: Services, id: RunIDs, generation: Generations,
             node: Nodes, action: {"run", "delete"}, container: 0..MaxGeneration]

DeleteCall == [service: Services, generation: Generations]
HeartbeatCall == [node: Nodes, status: {"ready", "draining", "deleted"}]

NoService == [generation |-> 0, desired |-> "absent", spec |-> NoSpec]
NoRun == [status |-> "absent", id |-> NoRunID, generation |-> 0,
          spec |-> NoSpec, node |-> NoNode, container |-> 0]
NoNodeRow == [status |-> "absent", schedulable |-> FALSE, elastic |-> FALSE,
              instance |-> NoInstance, heard |-> FALSE, allocated |-> 0]

-----------------------------------------------------------------------------
(* Resource accounting. *)

\* Negative controls.  An operator named X_What is a plausible bug in X; no
\* action uses it, it shows that a property notices the bug.


\* GREATEST(allocated - units, 0)
Floor(units) == IF units > 0 THEN units ELSE 0

freeNodeAllocation_NoFloor(n, units) == [nodes EXCEPT ![n].allocated = @ - units]

freeNodeAllocation(n, units) == [nodes EXCEPT ![n].allocated = Floor(@ - units)]

Units(S) == UNION {{s} \X (1..Request[runs[s].spec]) : s \in S}

\* The sum of the requests of the runs of S, counted unit by unit.
Load(S) == Cardinality(Units(S))

\* Runs that own a share of their node's allocation: claimed, live, or live
\* and waiting for the agent to stop them.
HoldsReservation(s) ==
  \/ runs[s].status \in {"deploying", "running"}
  \/ runs[s].status = "pending" /\ services[s].desired = "deleted"

Reserved(n) == {s \in Services : runs[s].node = n /\ HoldsReservation(s)}

-----------------------------------------------------------------------------
(* Services. *)

UsedRunIDs == {runs[s].id : s \in Services} \cup {w.id : w \in issued}
FreshRunIDs == RunIDs \ UsedRunIDs

\* A new row takes a fresh id; the row that is there keeps its id, and a
\* running one keeps its node and container but gives its reservation back.
upsertServiceRunTx(s, g, spec) ==
  LET run == runs[s]
      live == run.status = "running" /\ run.node # NoNode
  IN \/ /\ run.status # "absent" /\ run.generation >= g
        /\ UNCHANGED <<runs, nodes>>
     \/ /\ run.status = "absent" \/ run.generation < g
        /\ run.status = "absent" => FreshRunIDs # {}
        /\ nodes' = IF live THEN freeNodeAllocation(run.node, Request[run.spec])
                            ELSE nodes
        /\ runs' = [runs EXCEPT ![s] =
             [status |-> "pending",
              id |-> IF run.status = "absent"
                       THEN CHOOSE id \in FreshRunIDs : TRUE ELSE run.id,
              generation |-> g,
              spec |-> spec,
              node |-> IF live THEN run.node ELSE NoNode,
              container |-> IF live THEN run.container ELSE 0]]

UpsertService_AnyGeneration(s, g, spec) ==
  /\ services' = [services EXCEPT ![s] =
                    [generation |-> g, desired |-> "active", spec |-> spec]]
  /\ upsertServiceRunTx(s, g, spec)
  /\ UNCHANGED <<deletes, heartbeats, issued>>

UpsertService(s, g, spec) ==
  /\ \/ services[s].generation < g
     \/ services[s].generation = g /\ services[s].desired = "active"
  /\ services' = [services EXCEPT ![s] =
                    [generation |-> g, desired |-> "active", spec |-> spec]]
  /\ upsertServiceRunTx(s, g, spec)
  /\ UNCHANGED <<deletes, heartbeats, issued>>

\* A live run waits for its agent to stop the container; any other run is dropped.
deleteServiceRunTx(s, g) ==
  LET run == runs[s]
      live == run.status = "running" /\ run.node # NoNode /\ run.container > 0
  IN \/ /\ run.status = "absent"
        /\ UNCHANGED <<runs, nodes>>
     \/ /\ live
        /\ runs' = [runs EXCEPT ![s].generation = g, ![s].status = "pending"]
        /\ UNCHANGED nodes
     \/ /\ run.status # "absent" /\ ~live
        /\ nodes' = IF run.node # NoNode /\ run.status \in {"deploying", "pending"}
                      THEN freeNodeAllocation(run.node, Request[run.spec])
                      ELSE nodes
        /\ runs' = [runs EXCEPT ![s] = NoRun]

TransactionSlotFree == Cardinality(deletes) + Cardinality(heartbeats) < MaxTransactions

DeleteServiceRead(s, g) ==
  /\ TransactionSlotFree
  /\ services[s].desired # "absent"
  /\ deletes' = deletes \cup
       {[service |-> s,
         generation |-> IF g < services[s].generation THEN services[s].generation
                                                      ELSE g]}
  /\ UNCHANGED <<services, runs, nodes, heartbeats, issued>>

DeleteServiceWrite(d) ==
  /\ deletes' = deletes \ {d}
  /\ services' = [services EXCEPT ![d.service].generation = d.generation,
                                  ![d.service].desired = "deleted"]
  /\ deleteServiceRunTx(d.service, d.generation)
  /\ UNCHANGED <<heartbeats, issued>>

-----------------------------------------------------------------------------
(* Runs. *)

MarkServiceRunFailed(s) ==
  /\ runs[s].status \in {"pending", "deploying"}
  /\ runs' = [runs EXCEPT ![s].status = "failed"]
  /\ UNCHANGED <<services, nodes, deletes, heartbeats, issued>>

\* The node name is a hash of service id and generation.
MarkPendingServiceRunFailedForProvisioningNode(s, g) ==
  /\ runs[s].status = "pending" /\ runs[s].generation = g
  /\ runs' = [runs EXCEPT ![s].status = "failed"]
  /\ UNCHANGED <<services, nodes, deletes, heartbeats, issued>>

Issue_OncePerRun(s, n, action) ==
  issued' = IF \E w \in issued : w.id = runs[s].id THEN issued
            ELSE issued \cup
    {[service |-> s, id |-> runs[s].id, generation |-> runs[s].generation,
      node |-> n, action |-> action, container |-> runs[s].container]}

Issue(s, n, action) ==
  issued' = issued \cup
    {[service |-> s, id |-> runs[s].id, generation |-> runs[s].generation,
      node |-> n, action |-> action, container |-> runs[s].container]}

markServiceRunDeploying_KeepsNode(s, n) ==
  runs' = [runs EXCEPT ![s].status = "deploying"]

markServiceRunDeploying(s, n) ==
  runs' = [runs EXCEPT ![s].status = "deploying", ![s].node = n]

ClaimPendingDeleteRun_AnyStatus(n, s) ==
  /\ nodes[n].status = "ready"
  /\ services[s].desired = "deleted"
  /\ runs[s].node = n /\ runs[s].container > 0
  /\ markServiceRunDeploying(s, n)
  /\ Issue(s, n, "delete")
  /\ UNCHANGED <<services, nodes, deletes, heartbeats>>

\* Which claimable row a poll gets is left open: rows locked by another
\* transaction are skipped, so neither the ORDER BY nor delete-before-run is strict.
ClaimPendingDeleteRun(n, s) ==
  /\ nodes[n].status = "ready"
  /\ runs[s].status = "pending" /\ services[s].desired = "deleted"
  /\ runs[s].node = n /\ runs[s].container > 0
  /\ markServiceRunDeploying(s, n)
  /\ Issue(s, n, "delete")
  /\ UNCHANGED <<services, nodes, deletes, heartbeats>>

ClaimPendingRun_IgnoresAllocated(n, s) ==
  LET units == Request[runs[s].spec] IN
  /\ nodes[n].status = "ready" /\ nodes[n].schedulable
  /\ runs[s].status = "pending" /\ services[s].desired = "active"
  /\ runs[s].node \in {NoNode, n}
  /\ units <= Capacity[n]
  /\ markServiceRunDeploying(s, n)
  /\ nodes' = [nodes EXCEPT ![n].allocated = @ + units]
  /\ Issue(s, n, "run")
  /\ UNCHANGED <<services, deletes, heartbeats>>

ClaimPendingRun_BooksNothing(n, s) ==
  /\ nodes[n].status = "ready" /\ nodes[n].schedulable
  /\ runs[s].status = "pending" /\ services[s].desired = "active"
  /\ runs[s].node \in {NoNode, n}
  /\ Request[runs[s].spec] <= Capacity[n] - nodes[n].allocated
  /\ markServiceRunDeploying(s, n)
  /\ Issue(s, n, "run")
  /\ UNCHANGED <<services, nodes, deletes, heartbeats>>

ClaimPendingRun(n, s) ==
  LET units == Request[runs[s].spec] IN
  /\ nodes[n].status = "ready" /\ nodes[n].schedulable
  /\ runs[s].status = "pending" /\ services[s].desired = "active"
  /\ runs[s].node \in {NoNode, n}
  /\ units <= Capacity[n] - nodes[n].allocated
  /\ markServiceRunDeploying(s, n)
  /\ nodes' = [nodes EXCEPT ![n].allocated = @ + units]
  /\ Issue(s, n, "run")
  /\ UNCHANGED <<services, deletes, heartbeats>>

\* What an agent may report of a work item.
Outcomes(action) == IF action = "run" THEN {"running", "failed"}
                                      ELSE {"succeeded", "failed"}

\* The report finds its row by execution id and node id only, and changes it
\* only while it is deploying; otherwise it is acknowledged or refused.
UpdateExecutionFromNodeReport(w, status) ==
  LET s == w.service
      run == runs[s]
      applies == run.id = w.id /\ run.node = w.node /\ run.status = "deploying"
      gone == status = "succeeded" /\ services[s].desired = "deleted"
  IN /\ issued' = issued \ {w}
     /\ IF ~applies THEN UNCHANGED <<runs, nodes>>
        ELSE /\ runs' = [runs EXCEPT ![s] =
                  IF gone THEN NoRun
                  ELSE [run EXCEPT !.status = status,
                                   !.container = IF w.action = "run" THEN w.generation
                                                                     ELSE w.container]]
             /\ nodes' = IF status \in {"failed", "succeeded"}
                           THEN freeNodeAllocation(w.node, Request[run.spec])
                           ELSE nodes
     /\ UNCHANGED <<services, deletes, heartbeats>>

-----------------------------------------------------------------------------
(* Nodes. *)

CreateProvisioningNode(n) ==
  /\ nodes[n].status = "absent"
  /\ nodes' = [nodes EXCEPT ![n].status = "provisioning", ![n].elastic = TRUE]
  /\ UNCHANGED <<services, runs, deletes, heartbeats, issued>>

\* UNIQUE(provider, instance_id): binding an instance another row has fails.
BindProvisionedNode(n, i) ==
  /\ nodes[n].status = "provisioning"
  /\ \A m \in Nodes \ {n} : nodes[m].instance # i
  /\ nodes' = [nodes EXCEPT ![n].instance = i]
  /\ UNCHANGED <<services, runs, deletes, heartbeats, issued>>

\* ON CONFLICT (provider, instance_id) the row with the instance is updated;
\* without one a row is inserted that no reconcile loop owns (elastic FALSE).
RegisterNode(n, i) ==
  /\ \/ /\ nodes[n].instance = i
        /\ nodes' = [nodes EXCEPT
             ![n].status = IF @ \in {"draining", "deleted"} THEN @ ELSE "registering",
             ![n].schedulable = nodes[n].status \notin {"draining", "deleted"}]
     \/ /\ nodes[n].status = "absent"
        /\ \A m \in Nodes : nodes[m].instance # i
        /\ nodes' = [nodes EXCEPT ![n].status = "registering", ![n].schedulable = TRUE,
                                  ![n].instance = i]
  /\ UNCHANGED <<services, runs, deletes, heartbeats, issued>>

\* Only an agent that has registered knows the node id it heartbeats for.
RecordNodeHeartbeatRead(n) ==
  /\ TransactionSlotFree
  /\ nodes[n].status \notin {"absent", "provisioning"}
  /\ heartbeats' = heartbeats \cup
       {[node |-> n, status |-> IF nodes[n].status \in {"draining", "deleted"}
                                  THEN nodes[n].status ELSE "ready"]}
  /\ UNCHANGED <<services, runs, nodes, deletes, issued>>

RecordNodeHeartbeatWrite(h) ==
  /\ heartbeats' = heartbeats \ {h}
  /\ nodes' = [nodes EXCEPT ![h.node].status = h.status,
                            ![h.node].schedulable = (h.status = "ready"),
                            ![h.node].heard = TRUE]
  /\ UNCHANGED <<services, runs, deletes, issued>>

ActiveOn(n) == {s \in Services : runs[s].node = n /\ runs[s].status \in {"deploying", "running"}}

PrepareNodeDeletion_KeepsSchedulable(n) ==
  /\ nodes[n].status = "ready" /\ nodes[n].elastic /\ nodes[n].instance # NoInstance
  /\ ActiveOn(n) = {}
  /\ nodes' = [nodes EXCEPT ![n].status = "draining"]
  /\ UNCHANGED <<services, runs, deletes, heartbeats, issued>>

PrepareNodeDeletion_IgnoresRuns(n) ==
  /\ nodes[n].status = "ready" /\ nodes[n].elastic /\ nodes[n].instance # NoInstance
  /\ nodes' = [nodes EXCEPT ![n].status = "draining", ![n].schedulable = FALSE]
  /\ UNCHANGED <<services, runs, deletes, heartbeats, issued>>

PrepareNodeDeletion(n) ==
  /\ nodes[n].status = "ready" /\ nodes[n].elastic /\ nodes[n].instance # NoInstance
  /\ ActiveOn(n) = {}
  /\ nodes' = [nodes EXCEPT ![n].status = "draining", ![n].schedulable = FALSE]
  /\ UNCHANGED <<services, runs, deletes, heartbeats, issued>>

\* The UPDATE has no condition on the status the caller believes the row has:
\* the node loop calls it for elastic rows it listed or created some time before.
MarkNodeDeleted(n) ==
  /\ nodes[n].elastic
  /\ nodes' = [nodes EXCEPT ![n].status = "deleted", ![n].schedulable = FALSE,
                            ![n].instance = NoInstance, ![n].allocated = 0]
  /\ UNCHANGED <<services, runs, deletes, heartbeats, issued>>

MayGoOffline_Draining(n) == nodes[n].heard /\ nodes[n].status \notin {"offline", "deleted"}

MayGoOffline(n) == nodes[n].heard /\ nodes[n].status \notin {"offline", "draining", "deleted"}

\* Runs that failServiceRunsForOfflineNode fails, each giving its request back.
Impacted(n) == {s \in Services : runs[s].node = n
                               /\ runs[s].status \in {"pending", "deploying", "running"}}

\* One transaction for every node of Stale, the nodes whose last heartbeat is too old.
MarkStaleNodeHeartbeatsOffline(Stale) ==
  /\ \A n \in Stale : MayGoOffline(n)
  /\ nodes' = [n \in Nodes |->
       IF n \in Stale
         THEN [nodes[n] EXCEPT !.status = "offline", !.schedulable = FALSE,
                               !.allocated = Floor(@ - Load(Impacted(n)))]
         ELSE nodes[n]]
  /\ runs' = [s \in Services |->
       IF \E n \in Stale : s \in Impacted(n) THEN [runs[s] EXCEPT !.status = "failed"]
                                              ELSE runs[s]]
  /\ UNCHANGED <<services, deletes, heartbeats, issued>>

-----------------------------------------------------------------------------
\* The process stops; Postgres rolls the open transactions back.
CloudPlaneRestart ==
  /\ deletes # {} \/ heartbeats # {}
  /\ deletes' = {} /\ heartbeats' = {}
  /\ UNCHANGED <<services, runs, nodes, issued>>

Init ==
  /\ services = [s \in Services |-> NoService]
  /\ runs = [s \in Services |-> NoRun]
  /\ nodes = [n \in Nodes |-> NoNodeRow]
  /\ deletes = {}
  /\ heartbeats = {}
  /\ issued = {}

ServiceStep ==
  \/ \E s \in Services, g \in Generations, spec \in Specs : UpsertService(s, g, spec)
  \/ \E s \in Services, g \in Generations : DeleteServiceRead(s, g)
  \/ \E d \in deletes : DeleteServiceWrite(d)

RunStep ==
  \/ \E s \in Services : MarkServiceRunFailed(s)
  \/ \E s \in Services, g \in Generations :
       MarkPendingServiceRunFailedForProvisioningNode(s, g)
  \/ \E n \in Nodes, s \in Services : ClaimPendingDeleteRun(n, s)
  \/ \E n \in Nodes, s \in Services : ClaimPendingRun(n, s)
  \/ \E w \in issued : \E status \in Outcomes(w.action) :
       UpdateExecutionFromNodeReport(w, status)

NodeStep ==
  \/ \E n \in Nodes : CreateProvisioningNode(n)
  \/ \E n \in Nodes, i \in Instances : BindProvisionedNode(n, i)
  \/ \E n \in Nodes, i \in Instances : RegisterNode(n, i)
  \/ \E n \in Nodes : RecordNodeHeartbeatRead(n)
  \/ \E h \in heartbeats : RecordNodeHeartbeatWrite(h)
  \/ \E n \in Nodes : PrepareNodeDeletion(n)
  \/ \E n \in Nodes : MarkNodeDeleted(n)
  \/ \E Stale \in SUBSET Nodes : MarkStaleNodeHeartbeatsOffline(Stale)

Next == ServiceStep \/ RunStep \/ NodeStep \/ CloudPlaneRestart

Spec == Init /\ [][Next]_vars

-----------------------------------------------------------------------------
(* Properties. *)

\* Every row, call and work item has its type.
TypeOK ==
  /\ services \in [Services -> ServiceRow]
  /\ runs \in [Services -> RunRow]
  /\ nodes \in [Nodes -> NodeRow]
  /\ deletes \subseteq DeleteCall
  /\ heartbeats \subseteq HeartbeatCall
  /\ issued \subseteq WorkItem

\* However upserts, deletes (with their stale reads), claims and late reports
\* interleave, the one run row of a service carries the service's generation,
\* and an active service has its row: the generation join of
\* ListIngressRouteSources and of the control-plane's snapshot never hides a run.
RunFollowsService ==
  \A s \in Services :
    /\ runs[s].status # "absent" => runs[s].generation = services[s].generation
    /\ services[s].desired = "active" => runs[s].status # "absent"

\* A run row is complete; a claimed or live run names its node; a live one, and
\* one waiting to be stopped, names its container, so the delete work item is
\* claimable and carries what the agent has to stop.
Placement ==
  \A s \in Services :
    /\ runs[s].status # "absent" =>
         runs[s].spec # NoSpec /\ runs[s].id # NoRunID /\ runs[s].generation > 0
    /\ runs[s].status \in {"deploying", "running"} => runs[s].node # NoNode
    /\ runs[s].status = "running" => runs[s].container > 0
    /\ runs[s].status = "pending" /\ services[s].desired = "deleted" =>
         runs[s].node # NoNode /\ runs[s].container > 0

\* A deploying run is always owed a report: the work item of its current
\* generation is out and its report will find the row.
DeployingIsOwedAReport ==
  \A s \in Services :
    runs[s].status = "deploying" =>
      \E w \in issued : /\ w.service = s /\ w.id = runs[s].id /\ w.node = runs[s].node
                        /\ w.generation = runs[s].generation

\* Work is only handed to nodes whose row says ready; the two columns that say a
\* node takes work never disagree, also when a stale heartbeat overwrites the row.
SchedulableByStatus ==
  \A n \in Nodes : nodes[n].schedulable <=> nodes[n].status \in {"registering", "ready"}

\* The database never books more than the node offers.
WithinCapacity == \A n \in Nodes : nodes[n].allocated <= Capacity[n]

\* The books of node n are exact: what is allocated is what its runs reserve.
Exact(n) == nodes[n].allocated = Load(Reserved(n))

\* The transactions known to break the books of n: superseding a reservation
\* that is not "running" (it is not given back), dropping a run that an update
\* re-pinned to n (its request is given back twice), failing a reservation
\* without giving it back, and deleting a node that still has reservations.
BreaksBooks(n) ==
  \/ \E s \in Reserved(n) :
       /\ runs[s].status \in {"deploying", "pending"}
       /\ \/ runs'[s].generation > runs[s].generation
          \/ runs'[s].status = "failed" /\ UNCHANGED nodes
  \/ \E s \in Services :
       /\ runs[s].node = n /\ runs[s].status = "pending" /\ services[s].desired = "active"
       /\ \/ runs'[s].status = "absent"
          \/ nodes'[n].status = "offline" /\ runs'[s].status = "failed"
  \/ nodes'[n].status = "deleted" /\ Reserved(n) # {}

\* Every other transaction keeps exact books exact.
BooksStayExact ==
  [][\A n \in Nodes : Exact(n) /\ ~BreaksBooks(n) => Exact(n)']_vars
=============================================================================
