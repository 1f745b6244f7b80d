-------------------------- MODULE RunStoreProofs ----------------------------
(* Theorems about the store, for every value of the constants. *)
EXTENDS RunStoreLifecycle, FiniteSetTheorems, FunctionTheorems, TLAPS

\* The inductive invariant: each part needs the others (a claim keeps Placement
\* because the row is complete, a report keeps DeployingIsOwedAReport because
\* Placement ties a deploying row to one node, ...).
IInv ==
  /\ TypeOK
  /\ RunFollowsService
  /\ Placement
  /\ DeployingIsOwedAReport
  /\ SchedulableByStatus
  /\ WithinCapacity

-----------------------------------------------------------------------------
(* Loads are numbers. *)

\* The units of the services S, each asking for what its row in r says.
UnitsOf(r, S) == UNION {{s} \X (1..Request[r[s].spec]) : s \in S}

LEMMA UnitsOfFinite ==
  ASSUME NEW r, NEW S \in SUBSET Services, \A s \in S : r[s].spec \in Specs
  PROVE  IsFiniteSet(UnitsOf(r, S))
<1> DEFINE unitsOf == [s \in S |-> {s} \X (1..Request[r[s].spec])]
           family == {{s} \X (1..Request[r[s].spec]) : s \in S}
<1>1. IsFiniteSet(S)
  BY ServicesAssumption, FS_Subset
<1>2. unitsOf \in Surjection(S, family)
  BY DEF Surjection
<1>3. IsFiniteSet(family)
  BY <1>1, <1>2, FS_Surjection
<1>4. ASSUME NEW T \in family PROVE IsFiniteSet(T)
  <2>1. PICK s \in S : T = {s} \X (1..Request[r[s].spec])
    BY <1>4
  <2>2. Request[r[s].spec] \in Int /\ 1 \in Int
    BY RequestAssumption
  <2>3. IsFiniteSet({s})
    BY FS_Singleton
  <2>4. IsFiniteSet(1..Request[r[s].spec])
    BY <2>2, FS_Interval
  <2> QED
    BY <2>1, <2>3, <2>4, FS_Product
<1> QED
  BY <1>3, <1>4, FS_UNION DEF UnitsOf

LEMMA UnitsFinite ==
  ASSUME NEW S \in SUBSET Services, TypeOK,
         \A s \in S : runs[s].spec \in Specs
  PROVE  IsFiniteSet(Units(S))
BY UnitsOfFinite DEF Units, UnitsOf

LEMMA LoadIsNat ==
  ASSUME NEW S \in SUBSET Services, TypeOK,
         \A s \in S : runs[s].spec \in Specs
  PROVE  Load(S) \in Nat
BY UnitsFinite, FS_CardinalityType DEF Load

-----------------------------------------------------------------------------
(* One lemma per transaction. *)

USE DEF Generations, ServiceRow, RunRow, NodeRow, WorkItem, DeleteCall, HeartbeatCall,
        DesiredStates, RunStatuses, NodeStatuses, Floor, freeNodeAllocation

\* What any transaction that only gives resources back does to the node table.
NodesOnlyShrink ==
  /\ nodes' \in [Nodes -> NodeRow]
  /\ \A n \in Nodes : /\ nodes'[n].status = nodes[n].status
                      /\ nodes'[n].schedulable = nodes[n].schedulable
                      /\ nodes'[n].allocated <= nodes[n].allocated

LEMMA FreeingShrinks ==
  ASSUME TypeOK, NEW n \in Nodes, NEW units \in Nat,
         nodes' = freeNodeAllocation(n, units)
  PROVE  NodesOnlyShrink
<1>1. nodes'[n] = [nodes[n] EXCEPT !.allocated = Floor(@ - units)]
  BY DEF TypeOK
<1>2. nodes[n] \in NodeRow
  BY DEF TypeOK
<1>3. nodes'[n] \in NodeRow
  BY <1>1, <1>2
<1>4. /\ nodes'[n].allocated <= nodes[n].allocated
      /\ nodes'[n].status = nodes[n].status
      /\ nodes'[n].schedulable = nodes[n].schedulable
  BY <1>1, <1>2
<1> QED
  BY <1>3, <1>4 DEF TypeOK, NodesOnlyShrink

LEMMA SameNodesShrink ==
  ASSUME TypeOK, UNCHANGED nodes
  PROVE  NodesOnlyShrink
BY DEF TypeOK, NodesOnlyShrink

LEMMA ShrinkingKeepsNodeInvariants ==
  ASSUME TypeOK, SchedulableByStatus, WithinCapacity, NodesOnlyShrink
  PROVE  SchedulableByStatus' /\ WithinCapacity'
BY CapacityAssumption DEF TypeOK, SchedulableByStatus, WithinCapacity, NodesOnlyShrink

LEMMA UpsertServiceInv ==
  ASSUME IInv, NEW s \in Services, NEW g \in Generations, NEW spec \in Specs,
         UpsertService(s, g, spec)
  PROVE  IInv'
<1> USE BoundsAssumption, RequestAssumption, CapacityAssumption, NullAssumption DEF IInv
<1>1. CASE runs[s].status # "absent" /\ runs[s].generation >= g /\ UNCHANGED <<runs, nodes>>
  <2>1. TypeOK'
    BY <1>1 DEF UpsertService, TypeOK
  <2>2. RunFollowsService'
    BY <1>1 DEF UpsertService, TypeOK, RunFollowsService
  <2>3. Placement'
    BY <1>1 DEF UpsertService, TypeOK, Placement
  <2>4. DeployingIsOwedAReport' /\ SchedulableByStatus' /\ WithinCapacity'
    BY <1>1 DEF UpsertService, DeployingIsOwedAReport, SchedulableByStatus, WithinCapacity
  <2> QED
    BY <2>1, <2>2, <2>3, <2>4
<1>2. CASE runs[s].status = "absent" \/ runs[s].generation < g
  <2> DEFINE run == runs[s]
             row == runs'[s]
  <2>1. /\ row.status = "pending" /\ row.generation = g /\ row.spec = spec
        /\ row \in RunRow /\ row.id # NoRunID
        /\ runs' = [runs EXCEPT ![s] = row]
    BY <1>2 DEF UpsertService, upsertServiceRunTx, TypeOK, Placement, FreshRunIDs
  <2>2. NodesOnlyShrink
    <3>1. CASE run.status = "running" /\ run.node # NoNode
      <4>1. run.node \in Nodes /\ Request[run.spec] \in Nat
        BY <3>1 DEF TypeOK, Placement
      <4>2. nodes' = freeNodeAllocation(run.node, Request[run.spec])
        BY <1>2, <3>1 DEF UpsertService, upsertServiceRunTx, TypeOK
      <4> QED
        BY <4>1, <4>2, FreeingShrinks
    <3>2. CASE ~(run.status = "running" /\ run.node # NoNode)
      BY <1>2, <3>2, SameNodesShrink DEF UpsertService, upsertServiceRunTx, TypeOK
    <3> QED
      BY <3>1, <3>2
  <2>3. TypeOK'
    <3>1. services' \in [Services -> ServiceRow]
      BY DEF UpsertService, TypeOK
    <3>2. runs' \in [Services -> RunRow]
      BY <2>1 DEF TypeOK
    <3> QED
      BY <2>2, <3>1, <3>2 DEF UpsertService, TypeOK, NodesOnlyShrink
  <2>4. RunFollowsService'
    BY <2>1 DEF UpsertService, TypeOK, RunFollowsService
  <2>5. Placement'
    BY <2>1 DEF UpsertService, TypeOK, Placement
  <2>6. DeployingIsOwedAReport'
    BY <2>1 DEF UpsertService, TypeOK, DeployingIsOwedAReport
  <2>7. SchedulableByStatus' /\ WithinCapacity'
    BY <2>2, ShrinkingKeepsNodeInvariants
  <2> QED
    BY <2>3, <2>4, <2>5, <2>6, <2>7
<1> QED
  BY <1>1, <1>2 DEF UpsertService, upsertServiceRunTx

LEMMA DeleteServiceReadInv ==
  ASSUME IInv, NEW s \in Services, NEW g \in Generations, DeleteServiceRead(s, g)
  PROVE  IInv'
<1> USE BoundsAssumption DEF IInv
<1>1. TypeOK'
  BY DEF DeleteServiceRead, TypeOK
<1>2. RunFollowsService' /\ Placement' /\ DeployingIsOwedAReport'
  BY DEF DeleteServiceRead, RunFollowsService, Placement, DeployingIsOwedAReport
<1>3. SchedulableByStatus' /\ WithinCapacity'
  BY DEF DeleteServiceRead, SchedulableByStatus, WithinCapacity
<1> QED
  BY <1>1, <1>2, <1>3

LEMMA DeleteServiceWriteInv ==
  ASSUME IInv, NEW d \in deletes, DeleteServiceWrite(d)
  PROVE  IInv'
<1> USE BoundsAssumption, RequestAssumption, NullAssumption DEF IInv
<1> DEFINE s == d.service
           run == runs[s]
           live == run.status = "running" /\ run.node # NoNode /\ run.container > 0
<1>1. s \in Services /\ d.generation \in Generations
  BY DEF TypeOK
<1>2. services' \in [Services -> ServiceRow]
  BY <1>1 DEF DeleteServiceWrite, TypeOK
<1>3. /\ services'[s].generation = d.generation
      /\ services'[s].desired = "deleted"
      /\ \A t \in Services \ {s} : services'[t] = services[t]
  BY <1>1 DEF DeleteServiceWrite, TypeOK
<1>4. CASE run.status = "absent" /\ UNCHANGED <<runs, nodes>>
  <2>1. TypeOK'
    BY <1>2, <1>4 DEF DeleteServiceWrite, TypeOK
  <2>2. RunFollowsService' /\ Placement'
    BY <1>1, <1>3, <1>4 DEF RunFollowsService, Placement
  <2>3. DeployingIsOwedAReport' /\ SchedulableByStatus' /\ WithinCapacity'
    BY <1>4 DEF DeleteServiceWrite, DeployingIsOwedAReport, SchedulableByStatus, WithinCapacity
  <2> QED
    BY <2>1, <2>2, <2>3
<1>5. CASE live /\ UNCHANGED nodes
  <2>1. runs' = [runs EXCEPT ![s].generation = d.generation, ![s].status = "pending"]
    BY <1>5 DEF DeleteServiceWrite, deleteServiceRunTx
  <2>2. runs' \in [Services -> RunRow]
    <3>1. runs[s] \in RunRow
      BY <1>1 DEF TypeOK
    <3>2. d.generation \in 0..MaxGeneration /\ "pending" \in RunStatuses
      BY <1>1
    <3>3. [runs[s] EXCEPT !.generation = d.generation, !.status = "pending"] \in RunRow
      BY <3>1, <3>2
    <3> QED
      BY <1>1, <2>1, <3>3 DEF TypeOK
  <2>3. /\ runs'[s].status = "pending" /\ runs'[s].generation = d.generation
        /\ runs'[s].node = run.node /\ runs'[s].container = run.container
        /\ runs'[s].spec = run.spec /\ runs'[s].id = run.id
        /\ \A t \in Services \ {s} : runs'[t] = runs[t]
    BY <1>1, <2>1 DEF TypeOK
  <2>4. TypeOK'
    BY <1>2, <1>5, <2>2 DEF DeleteServiceWrite, TypeOK
  <2>5. RunFollowsService'
    BY <1>1, <1>3, <2>3 DEF RunFollowsService
  <2>6. Placement'
    BY <1>1, <1>3, <1>5, <2>3 DEF Placement
  <2>7. DeployingIsOwedAReport'
    BY <2>3 DEF DeleteServiceWrite, DeployingIsOwedAReport
  <2>8. SchedulableByStatus' /\ WithinCapacity'
    BY <1>5 DEF SchedulableByStatus, WithinCapacity
  <2> QED
    BY <2>4, <2>5, <2>6, <2>7, <2>8
<1>6. CASE run.status # "absent" /\ ~live
  <2>1. runs' = [runs EXCEPT ![s] = NoRun]
    BY <1>6 DEF DeleteServiceWrite, deleteServiceRunTx
  <2>2. runs' \in [Services -> RunRow]
    BY <1>1, <2>1 DEF TypeOK, NoRun
  <2>3. /\ runs'[s].status = "absent"
        /\ \A t \in Services \ {s} : runs'[t] = runs[t]
    BY <1>1, <2>1 DEF TypeOK, NoRun
  <2>4. NodesOnlyShrink
    <3>1. CASE run.node # NoNode /\ run.status \in {"deploying", "pending"}
      <4>1. run.node \in Nodes /\ Request[run.spec] \in Nat
        BY <1>1, <3>1 DEF TypeOK, Placement
      <4>2. nodes' = freeNodeAllocation(run.node, Request[run.spec])
        BY <1>6, <3>1 DEF DeleteServiceWrite, deleteServiceRunTx
      <4> QED
        BY <4>1, <4>2, FreeingShrinks
    <3>2. CASE ~(run.node # NoNode /\ run.status \in {"deploying", "pending"})
      BY <1>6, <3>2, SameNodesShrink DEF DeleteServiceWrite, deleteServiceRunTx
    <3> QED
      BY <3>1, <3>2
  <2>5. TypeOK'
    BY <1>2, <2>2, <2>4 DEF DeleteServiceWrite, TypeOK, NodesOnlyShrink
  <2>6. RunFollowsService' /\ Placement'
    BY <1>1, <1>3, <2>3 DEF RunFollowsService, Placement
  <2>7. DeployingIsOwedAReport'
    BY <2>3 DEF DeleteServiceWrite, DeployingIsOwedAReport
  <2> QED
    BY <2>4, <2>5, <2>6, <2>7, ShrinkingKeepsNodeInvariants
<1> QED
  BY <1>4, <1>5, <1>6 DEF DeleteServiceWrite, deleteServiceRunTx

\* A pending or deploying run that fails keeps the rest of its row.
LEMMA FailingKeepsInv ==
  ASSUME IInv, NEW s \in Services, runs[s].status \in {"pending", "deploying"},
         runs' = [runs EXCEPT ![s].status = "failed"],
         UNCHANGED <<services, nodes, deletes, heartbeats, issued>>
  PROVE  IInv'
<1> USE DEF IInv
<1>1. runs' \in [Services -> RunRow]
  <2>1. runs[s] \in RunRow
    BY DEF TypeOK
  <2>2. [runs[s] EXCEPT !.status = "failed"] \in RunRow
    BY <2>1
  <2> QED
    BY <2>2 DEF TypeOK
<1>2. /\ runs'[s].status = "failed" /\ runs'[s].generation = runs[s].generation
      /\ runs'[s].spec = runs[s].spec /\ runs'[s].id = runs[s].id
      /\ \A t \in Services \ {s} : runs'[t] = runs[t]
  BY DEF TypeOK
<1>3. TypeOK'
  BY <1>1 DEF TypeOK
<1>4. RunFollowsService' /\ Placement'
  BY <1>2 DEF RunFollowsService, Placement
<1>5. DeployingIsOwedAReport' /\ SchedulableByStatus' /\ WithinCapacity'
  BY <1>2 DEF DeployingIsOwedAReport, SchedulableByStatus, WithinCapacity
<1> QED
  BY <1>3, <1>4, <1>5

\* A claim moves one complete pending row to deploying on n and issues its item.
LEMMA ClaimKeepsRunInvariants ==
  ASSUME IInv, NEW s \in Services, NEW n \in Nodes, NEW action \in {"run", "delete"},
         runs[s].status = "pending",
         markServiceRunDeploying(s, n), Issue(s, n, action), UNCHANGED services
  PROVE  /\ runs' \in [Services -> RunRow]
         /\ issued' \subseteq WorkItem
         /\ RunFollowsService' /\ Placement' /\ DeployingIsOwedAReport'
<1> USE BoundsAssumption DEF IInv
<1> DEFINE item == [service |-> s, id |-> runs[s].id, generation |-> runs[s].generation,
                    node |-> n, action |-> action, container |-> runs[s].container]
<1>1. runs[s] \in RunRow
  BY DEF TypeOK
<1>2. /\ runs[s].id \in RunIDs /\ runs[s].generation \in Generations
      /\ runs[s].container \in 0..MaxGeneration
  BY <1>1 DEF Placement
<1>3. item \in WorkItem
  BY <1>2
<1>4. issued' = issued \cup {item}
  BY DEF Issue
<1>5. [runs[s] EXCEPT !.status = "deploying", !.node = n] \in RunRow
  BY <1>1
<1>6. runs' \in [Services -> RunRow]
  BY <1>5 DEF TypeOK, markServiceRunDeploying
<1>7. /\ runs'[s].status = "deploying" /\ runs'[s].node = n
      /\ runs'[s].generation = runs[s].generation /\ runs'[s].id = runs[s].id
      /\ runs'[s].spec = runs[s].spec /\ runs'[s].container = runs[s].container
      /\ \A t \in Services \ {s} : runs'[t] = runs[t]
  BY <1>1 DEF TypeOK, markServiceRunDeploying
<1>8. RunFollowsService'
  BY <1>7 DEF RunFollowsService
<1>9. Placement'
  BY <1>7, NullAssumption DEF Placement
<1>10. DeployingIsOwedAReport'
  <2>1. item \in issued'
    BY <1>4
  <2>2. item.service = s /\ item.id = runs'[s].id /\ item.node = runs'[s].node
          /\ item.generation = runs'[s].generation
    BY <1>7
  <2>3. issued \subseteq issued'
    BY <1>4
  <2> QED
    BY <1>7, <2>1, <2>2, <2>3 DEF DeployingIsOwedAReport
<1> QED
  BY <1>3, <1>4, <1>6, <1>8, <1>9, <1>10 DEF TypeOK

LEMMA ClaimPendingDeleteRunInv ==
  ASSUME IInv, NEW n \in Nodes, NEW s \in Services, ClaimPendingDeleteRun(n, s)
  PROVE  IInv'
<1>1. /\ runs' \in [Services -> RunRow]
      /\ issued' \subseteq WorkItem
      /\ RunFollowsService' /\ Placement' /\ DeployingIsOwedAReport'
  BY ClaimKeepsRunInvariants DEF ClaimPendingDeleteRun
<1>2. TypeOK'
  BY <1>1 DEF IInv, TypeOK, ClaimPendingDeleteRun
<1>3. SchedulableByStatus' /\ WithinCapacity'
  BY DEF IInv, SchedulableByStatus, WithinCapacity, ClaimPendingDeleteRun
<1> QED
  BY <1>1, <1>2, <1>3 DEF IInv

LEMMA ClaimPendingRunInv ==
  ASSUME IInv, NEW n \in Nodes, NEW s \in Services, ClaimPendingRun(n, s)
  PROVE  IInv'
<1> DEFINE units == Request[runs[s].spec]
<1>1. /\ runs' \in [Services -> RunRow]
      /\ issued' \subseteq WorkItem
      /\ RunFollowsService' /\ Placement' /\ DeployingIsOwedAReport'
  BY ClaimKeepsRunInvariants DEF ClaimPendingRun
<1>2. units \in Nat /\ Capacity[n] \in Nat /\ nodes[n] \in NodeRow
  BY RequestAssumption, CapacityAssumption DEF IInv, TypeOK, Placement, ClaimPendingRun
<1>3. nodes' = [nodes EXCEPT ![n].allocated = @ + units]
  BY DEF ClaimPendingRun
<1>4. [nodes[n] EXCEPT !.allocated = @ + units] \in NodeRow
  BY <1>2
<1>5. nodes' \in [Nodes -> NodeRow]
  BY <1>3, <1>4 DEF IInv, TypeOK
<1>6. /\ nodes'[n].allocated = nodes[n].allocated + units
      /\ nodes'[n].status = nodes[n].status
      /\ nodes'[n].schedulable = nodes[n].schedulable
      /\ \A m \in Nodes \ {n} : nodes'[m] = nodes[m]
  BY <1>2, <1>3 DEF IInv, TypeOK
<1>7. units <= Capacity[n] - nodes[n].allocated
  BY DEF ClaimPendingRun
<1>8. SchedulableByStatus' /\ WithinCapacity'
  BY <1>2, <1>6, <1>7 DEF IInv, SchedulableByStatus, WithinCapacity
<1>9. TypeOK'
  BY <1>1, <1>5 DEF IInv, TypeOK, ClaimPendingRun
<1> QED
  BY <1>1, <1>8, <1>9 DEF IInv

\* Of any work item: the store looks at the row and not at what it has issued.
LEMMA UpdateExecutionFromNodeReportInv ==
  ASSUME IInv, NEW w \in WorkItem, NEW status \in Outcomes(w.action),
         UpdateExecutionFromNodeReport(w, status)
  PROVE  IInv'
<1> USE BoundsAssumption, NullAssumption DEF IInv
<1> DEFINE s == w.service
           run == runs[s]
           applies == run.id = w.id /\ run.node = w.node /\ run.status = "deploying"
           gone == status = "succeeded" /\ services[s].desired = "deleted"
           box == IF w.action = "run" THEN w.generation ELSE w.container
           row == IF gone THEN NoRun ELSE [run EXCEPT !.status = status, !.container = box]
<1>1. /\ w \in WorkItem /\ s \in Services /\ run \in RunRow
      /\ status \in {"running", "failed", "succeeded"}
      /\ issued' = issued \ {w} /\ UNCHANGED <<services, deletes, heartbeats>>
  BY DEF TypeOK, Outcomes, UpdateExecutionFromNodeReport
<1>2. CASE ~applies
  <2>1. UNCHANGED <<runs, nodes>>
    BY <1>2 DEF UpdateExecutionFromNodeReport
  <2>2. TypeOK' /\ RunFollowsService' /\ Placement'
    BY <1>1, <2>1 DEF TypeOK, RunFollowsService, Placement
  <2>3. SchedulableByStatus' /\ WithinCapacity'
    BY <2>1 DEF SchedulableByStatus, WithinCapacity
  <2>4. DeployingIsOwedAReport'
    BY <1>1, <1>2, <2>1 DEF DeployingIsOwedAReport
  <2> QED
    BY <2>2, <2>3, <2>4
<1>3. CASE applies
  <2>1. runs' = [runs EXCEPT ![s] = row]
    BY <1>3 DEF UpdateExecutionFromNodeReport
  <2>2. row \in RunRow
    <3>1. box \in 0..MaxGeneration /\ status \in RunStatuses
      BY <1>1
    <3>2. [run EXCEPT !.status = status, !.container = box] \in RunRow
      BY <1>1, <3>1
    <3> QED
      BY <3>2 DEF NoRun
  <2>3. runs' \in [Services -> RunRow]
    BY <1>1, <2>1, <2>2 DEF TypeOK
  <2>4. /\ runs'[s] = row
        /\ \A t \in Services \ {s} : runs'[t] = runs[t]
    BY <1>1, <2>1 DEF TypeOK
  <2>5. NodesOnlyShrink
    <3>1. w.node \in Nodes /\ Request[run.spec] \in Nat
      BY <1>1, <1>3, RequestAssumption DEF Placement
    <3>2. \/ nodes' = freeNodeAllocation(w.node, Request[run.spec])
          \/ UNCHANGED nodes
      BY <1>3 DEF UpdateExecutionFromNodeReport
    <3> QED
      BY <3>1, <3>2, FreeingShrinks, SameNodesShrink
  <2>6. TypeOK'
    BY <1>1, <2>3, <2>5 DEF TypeOK, NodesOnlyShrink
  <2>7. /\ row.status # "deploying" /\ row.status # "pending"
        /\ row.status # "absent" =>
             /\ row.generation = run.generation /\ row.id = run.id
             /\ row.spec = run.spec /\ row.node = run.node
        /\ row.status = "absent" => services[s].desired = "deleted"
    BY <1>1 DEF NoRun
  <2>8. row.status = "running" => row.container > 0 /\ row.node # NoNode
    <3>1. row.status = "running" => status = "running"
      BY <1>1 DEF NoRun
    <3>2. status = "running" => w.action = "run" /\ w.generation > 0
      BY <1>1 DEF Outcomes
    <3> QED
      BY <1>1, <1>3, <3>1, <3>2, <2>7 DEF NoRun
  <2> HIDE DEF row, gone, box
  <2>9. RunFollowsService'
    BY <1>1, <1>3, <2>4, <2>7 DEF RunFollowsService
  <2>10. Placement'
    BY <1>1, <1>3, <2>4, <2>7, <2>8 DEF Placement
  <2>11. DeployingIsOwedAReport'
    BY <1>1, <2>4, <2>7 DEF DeployingIsOwedAReport
  <2> QED
    BY <2>5, <2>6, <2>9, <2>10, <2>11, ShrinkingKeepsNodeInvariants
<1> QED
  BY <1>2, <1>3

\* A step of the node table alone touches nothing the run invariants speak of.
LEMMA NodeStepKeepsRunInvariants ==
  ASSUME IInv, UNCHANGED <<services, runs, issued>>
  PROVE  RunFollowsService' /\ Placement' /\ DeployingIsOwedAReport'
BY DEF IInv, RunFollowsService, Placement, DeployingIsOwedAReport

\* Replacing one row of the node table by a well-formed one that books no more.
LEMMA RowReplaced ==
  ASSUME IInv, NEW n \in Nodes, NEW row \in NodeRow,
         nodes' = [nodes EXCEPT ![n] = row],
         row.schedulable <=> row.status \in {"registering", "ready"},
         row.allocated <= nodes[n].allocated,
         UNCHANGED <<services, runs, deletes, issued>>,
         heartbeats' \subseteq heartbeats
  PROVE  IInv'
<1>1. nodes'[n] = row /\ \A m \in Nodes \ {n} : nodes'[m] = nodes[m]
  BY DEF IInv, TypeOK
<1>2. TypeOK'
  BY DEF IInv, TypeOK
<1>3. SchedulableByStatus'
  BY <1>1 DEF IInv, SchedulableByStatus
<1>4. WithinCapacity'
  <2>1. nodes[n].allocated \in Nat /\ Capacity[n] \in Nat
    BY CapacityAssumption DEF IInv, TypeOK
  <2> QED
    BY <1>1, <2>1 DEF IInv, WithinCapacity
<1> QED
  BY <1>2, <1>3, <1>4, NodeStepKeepsRunInvariants DEF IInv

LEMMA NodeStepInv ==
  ASSUME IInv, NodeStep,
         ~ \E Stale \in SUBSET Nodes : MarkStaleNodeHeartbeatsOffline(Stale)
  PROVE  IInv'
<1>a. \A n \in Nodes : nodes[n] \in NodeRow /\ nodes[n].allocated \in Nat /\
         (nodes[n].schedulable <=> nodes[n].status \in {"registering", "ready"})
  BY DEF IInv, TypeOK, SchedulableByStatus
<1>1. ASSUME NEW n \in Nodes, CreateProvisioningNode(n) PROVE IInv'
  <2> DEFINE new == [nodes[n] EXCEPT !.status = "provisioning", !.elastic = TRUE]
  <2>1. new \in NodeRow /\ new.allocated = nodes[n].allocated
          /\ new.status = "provisioning" /\ new.schedulable = FALSE
    BY <1>a, <1>1 DEF CreateProvisioningNode
  <2>2. nodes' = [nodes EXCEPT ![n] = new]
    BY <1>1 DEF CreateProvisioningNode
  <2>3. UNCHANGED <<services, runs, deletes, issued>> /\ heartbeats' \subseteq heartbeats
    BY <1>1 DEF CreateProvisioningNode
  <2>4. /\ new.allocated <= nodes[n].allocated
        /\ new.schedulable <=> new.status \in {"registering", "ready"}
    BY <1>a, <2>1
  <2> HIDE DEF new
  <2> QED
    BY <2>1, <2>2, <2>3, <2>4, RowReplaced
<1>2. ASSUME NEW n \in Nodes, NEW i \in Instances, BindProvisionedNode(n, i) PROVE IInv'
  <2> DEFINE new == [nodes[n] EXCEPT !.instance = i]
  <2>1. new \in NodeRow /\ new.allocated = nodes[n].allocated
          /\ new.status = nodes[n].status /\ new.schedulable = nodes[n].schedulable
    BY <1>a
  <2>2. nodes' = [nodes EXCEPT ![n] = new]
    BY <1>2 DEF BindProvisionedNode
  <2>3. UNCHANGED <<services, runs, deletes, issued>> /\ heartbeats' \subseteq heartbeats
    BY <1>2 DEF BindProvisionedNode
  <2>4. /\ new.allocated <= nodes[n].allocated
        /\ new.schedulable <=> new.status \in {"registering", "ready"}
    BY <1>a, <2>1
  <2> HIDE DEF new
  <2> QED
    BY <2>1, <2>2, <2>3, <2>4, RowReplaced
<1>3. ASSUME NEW n \in Nodes, NEW i \in Instances, RegisterNode(n, i) PROVE IInv'
  <2>1. CASE nodes[n].instance = i /\ nodes' = [nodes EXCEPT
               ![n].status = IF @ \in {"draining", "deleted"} THEN @ ELSE "registering",
               ![n].schedulable = nodes[n].status \notin {"draining", "deleted"}]
    <3> DEFINE kept == nodes[n].status \in {"draining", "deleted"}
               new == [nodes[n] EXCEPT !.status = IF kept THEN @ ELSE "registering",
                                       !.schedulable = ~kept]
    <3>1. /\ new \in NodeRow /\ new.allocated = nodes[n].allocated
          /\ kept => new.status = nodes[n].status /\ new.schedulable = FALSE
          /\ ~kept => new.status = "registering" /\ new.schedulable = TRUE
      BY <1>a
    <3>2. nodes' = [nodes EXCEPT ![n] = new]
      BY <2>1
    <3>3. UNCHANGED <<services, runs, deletes, issued>> /\ heartbeats' \subseteq heartbeats
      BY <1>3 DEF RegisterNode
    <3>4. /\ new.allocated <= nodes[n].allocated
          /\ new.schedulable <=> new.status \in {"registering", "ready"}
      BY <1>a, <3>1
    <3> HIDE DEF new
    <3> QED
      BY <3>1, <3>2, <3>3, <3>4, RowReplaced
  <2>2. CASE nodes' = [nodes EXCEPT ![n].status = "registering", ![n].schedulable = TRUE,
                                    ![n].instance = i]
    <3> DEFINE new == [nodes[n] EXCEPT !.status = "registering", !.schedulable = TRUE,
                                       !.instance = i]
    <3>1. new \in NodeRow /\ new.allocated = nodes[n].allocated
            /\ new.status = "registering" /\ new.schedulable = TRUE
      BY <1>a
    <3>2. nodes' = [nodes EXCEPT ![n] = new]
      BY <2>2
    <3>3. UNCHANGED <<services, runs, deletes, issued>> /\ heartbeats' \subseteq heartbeats
      BY <1>3 DEF RegisterNode
    <3>4. /\ new.allocated <= nodes[n].allocated
          /\ new.schedulable <=> new.status \in {"registering", "ready"}
      BY <1>a, <3>1
    <3> HIDE DEF new
    <3> QED
      BY <3>1, <3>2, <3>3, <3>4, RowReplaced
  <2> QED
    BY <1>3, <2>1, <2>2 DEF RegisterNode
<1>4. ASSUME NEW n \in Nodes, RecordNodeHeartbeatRead(n) PROVE IInv'
  <2>1. TypeOK'
    BY <1>4, <1>a DEF IInv, TypeOK, RecordNodeHeartbeatRead
  <2>2. SchedulableByStatus' /\ WithinCapacity'
    BY <1>4 DEF IInv, SchedulableByStatus, WithinCapacity, RecordNodeHeartbeatRead
  <2> QED
    BY <1>4, <2>1, <2>2, NodeStepKeepsRunInvariants DEF IInv, RecordNodeHeartbeatRead
<1>5. ASSUME NEW h \in heartbeats, RecordNodeHeartbeatWrite(h) PROVE IInv'
  <2> DEFINE new == [nodes[h.node] EXCEPT !.status = h.status,
                                          !.schedulable = (h.status = "ready"),
                                          !.heard = TRUE]
  <2>1. h.node \in Nodes /\ h.status \in {"ready", "draining", "deleted"}
    BY DEF IInv, TypeOK
  <2>2. /\ new \in NodeRow /\ new.allocated = nodes[h.node].allocated /\ new.status = h.status
        /\ h.status = "ready" => new.schedulable = TRUE
        /\ h.status # "ready" => new.schedulable = FALSE
    <3> DEFINE ready == h.status = "ready"
    <3>1. nodes[h.node] \in NodeRow /\ ready \in BOOLEAN
      BY <1>a, <2>1
    <3> HIDE DEF ready
    <3>2. [nodes[h.node] EXCEPT !.status = h.status, !.schedulable = ready, !.heard = TRUE]
            \in NodeRow
      BY <2>1, <3>1
    <3>3. new.schedulable = ready
      BY <3>1 DEF ready
    <3> QED
      BY <3>1, <3>2, <3>3 DEF ready
  <2>3. nodes' = [nodes EXCEPT ![h.node] = new]
    BY <1>5 DEF RecordNodeHeartbeatWrite
  <2>4. UNCHANGED <<services, runs, deletes, issued>> /\ heartbeats' \subseteq heartbeats
    BY <1>5 DEF RecordNodeHeartbeatWrite
  <2>5. /\ new.allocated <= nodes[h.node].allocated
        /\ new.schedulable <=> new.status \in {"registering", "ready"}
    BY <1>a, <2>1, <2>2
  <2> HIDE DEF new
  <2> QED
    BY <2>1, <2>2, <2>3, <2>4, <2>5, RowReplaced
<1>6. ASSUME NEW n \in Nodes, PrepareNodeDeletion(n) PROVE IInv'
  <2> DEFINE new == [nodes[n] EXCEPT !.status = "draining", !.schedulable = FALSE]
  <2>1. new \in NodeRow /\ new.allocated = nodes[n].allocated
          /\ new.status = "draining" /\ new.schedulable = FALSE
    BY <1>a
  <2>2. nodes' = [nodes EXCEPT ![n] = new]
    BY <1>6 DEF PrepareNodeDeletion
  <2>3. UNCHANGED <<services, runs, deletes, issued>> /\ heartbeats' \subseteq heartbeats
    BY <1>6 DEF PrepareNodeDeletion
  <2>4. /\ new.allocated <= nodes[n].allocated
        /\ new.schedulable <=> new.status \in {"registering", "ready"}
    BY <1>a, <2>1
  <2> HIDE DEF new
  <2> QED
    BY <2>1, <2>2, <2>3, <2>4, RowReplaced
<1>7. ASSUME NEW n \in Nodes, MarkNodeDeleted(n) PROVE IInv'
  <2> DEFINE new == [nodes[n] EXCEPT !.status = "deleted", !.schedulable = FALSE,
                                     !.instance = NoInstance, !.allocated = 0]
  <2>1. new \in NodeRow /\ new.allocated = 0
          /\ new.status = "deleted" /\ new.schedulable = FALSE
    BY <1>a
  <2>2. nodes' = [nodes EXCEPT ![n] = new]
    BY <1>7 DEF MarkNodeDeleted
  <2>3. UNCHANGED <<services, runs, deletes, issued>> /\ heartbeats' \subseteq heartbeats
    BY <1>7 DEF MarkNodeDeleted
  <2>4. /\ new.allocated <= nodes[n].allocated
        /\ new.schedulable <=> new.status \in {"registering", "ready"}
    BY <1>a, <2>1
  <2> HIDE DEF new
  <2> QED
    BY <2>1, <2>2, <2>3, <2>4, RowReplaced
<1> QED
  BY <1>1, <1>2, <1>3, <1>4, <1>5, <1>6, <1>7 DEF NodeStep

LEMMA MarkStaleNodeHeartbeatsOfflineInv ==
  ASSUME IInv, NEW Stale \in SUBSET Nodes, MarkStaleNodeHeartbeatsOffline(Stale)
  PROVE  IInv'
<1> DEFINE lost(s) == \E n \in Stale : s \in Impacted(n)
           down(n) == [nodes[n] EXCEPT !.status = "offline", !.schedulable = FALSE,
                                       !.allocated = Floor(@ - Load(Impacted(n)))]
<1> HIDE DEF Floor
<1>b. nodes' = [n \in Nodes |-> IF n \in Stale THEN down(n) ELSE nodes[n]]
  BY Zenon DEF MarkStaleNodeHeartbeatsOffline
<1>c. runs' = [s \in Services |-> IF lost(s) THEN [runs[s] EXCEPT !.status = "failed"]
                                           ELSE runs[s]]
  BY Zenon DEF MarkStaleNodeHeartbeatsOffline
<1> HIDE DEF down
<1>a. TypeOK /\ Placement
  BY DEF IInv
<1>1. ASSUME NEW n \in Stale
      PROVE  /\ nodes'[n] \in NodeRow
             /\ nodes'[n].status = "offline" /\ nodes'[n].schedulable = FALSE
             /\ nodes'[n].allocated <= nodes[n].allocated
  <2>1. Load(Impacted(n)) \in Nat
    <3>1. Impacted(n) \in SUBSET Services /\ \A s \in Impacted(n) : runs[s].spec \in Specs
      BY <1>a DEF Impacted, TypeOK, Placement
    <3> QED
      BY <1>a, <3>1, LoadIsNat
  <2>2. nodes[n] \in NodeRow /\ nodes[n].allocated \in Nat
    BY <1>a DEF TypeOK
  <2>3. nodes'[n] = down(n)
    BY <1>b
  <2> DEFINE left == Floor(nodes[n].allocated - Load(Impacted(n)))
  <2>4. left \in Nat /\ left <= nodes[n].allocated
    BY <2>1, <2>2 DEF Floor
  <2>5. down(n) = [nodes[n] EXCEPT !.status = "offline", !.schedulable = FALSE,
                                   !.allocated = left]
    BY DEF down
  <2> HIDE DEF left
  <2> QED
    BY <2>2, <2>3, <2>4, <2>5
<1>2. \A n \in Nodes \ Stale : nodes'[n] = nodes[n]
  BY <1>b
<1> HIDE DEF lost
<1>3. \A s \in Services : runs'[s] = IF lost(s) THEN [runs[s] EXCEPT !.status = "failed"]
                                                ELSE runs[s]
  BY <1>c
<1>4. \A s \in Services :
        /\ runs'[s] \in RunRow
        /\ runs'[s].status = runs[s].status \/ runs'[s].status = "failed"
        /\ runs[s].status = "absent" => runs'[s].status = "absent"
        /\ runs'[s].status = "absent" => runs[s].status = "absent"
        /\ runs'[s].generation = runs[s].generation /\ runs'[s].id = runs[s].id
        /\ runs'[s].spec = runs[s].spec /\ runs'[s].node = runs[s].node
        /\ runs'[s].container = runs[s].container
  <2> TAKE s \in Services
  <2>1. runs[s] \in RunRow
    BY <1>a DEF TypeOK
  <2>2. CASE lost(s)
    <3>1. runs[s].status # "absent"
      BY <2>2 DEF lost, Impacted
    <3>2. runs'[s] = [runs[s] EXCEPT !.status = "failed"]
      BY <1>3, <2>2
    <3>3. [runs[s] EXCEPT !.status = "failed"] \in RunRow
      BY <2>1
    <3> QED
      BY <2>1, <3>1, <3>2, <3>3
  <2>3. CASE ~lost(s)
    BY <1>3, <2>1, <2>3
  <2> QED
    BY <2>2, <2>3
<1>5. nodes' \in [Nodes -> NodeRow]
  <2>1. \A n \in Nodes : nodes'[n] \in NodeRow
    BY <1>a, <1>1, <1>2 DEF TypeOK
  <2>2. nodes' = [n \in Nodes |-> nodes'[n]]
    BY <1>b
  <2> QED
    BY <2>1, <2>2
<1>6. TypeOK'
  <2>1. runs' = [s \in Services |-> runs'[s]]
    BY <1>c
  <2>2. runs' \in [Services -> RunRow]
    BY <1>4, <2>1
  <2>3. UNCHANGED <<services, deletes, heartbeats, issued>>
    BY Zenon DEF MarkStaleNodeHeartbeatsOffline
  <2> QED
    BY <1>a, <1>5, <2>2, <2>3 DEF TypeOK
<1>7. UNCHANGED services /\ UNCHANGED issued
  BY Zenon DEF MarkStaleNodeHeartbeatsOffline
<1>8. RunFollowsService' /\ Placement' /\ DeployingIsOwedAReport'
  BY <1>4, <1>7 DEF IInv, RunFollowsService, Placement, DeployingIsOwedAReport
<1>9. SchedulableByStatus'
  BY <1>1, <1>2 DEF IInv, SchedulableByStatus
<1>10. WithinCapacity'
  <2>1. \A n \in Nodes : /\ nodes[n].allocated \in Nat /\ nodes'[n].allocated \in Nat
                         /\ Capacity[n] \in Nat
    BY <1>a, <1>5, CapacityAssumption DEF TypeOK
  <2>2. \A n \in Nodes : nodes'[n].allocated <= nodes[n].allocated
    <3> TAKE n \in Nodes
    <3>1. CASE n \in Stale
      BY <1>1, <3>1
    <3>2. CASE n \notin Stale
      <4>1. nodes'[n] = nodes[n]
        BY <1>2, <3>2
      <4> QED
        BY <2>1, <4>1
    <3> QED
      BY <3>1, <3>2
  <2>3. \A n \in Nodes : nodes[n].allocated <= Capacity[n]
    BY DEF IInv, WithinCapacity
  <2> QED
    BY <2>1, <2>2, <2>3 DEF WithinCapacity
<1> QED
  BY <1>6, <1>8, <1>9, <1>10 DEF IInv

LEMMA CloudPlaneRestartInv ==
  ASSUME IInv, CloudPlaneRestart
  PROVE  IInv'
<1>1. TypeOK'
  BY DEF IInv, CloudPlaneRestart, TypeOK
<1>2. SchedulableByStatus' /\ WithinCapacity'
  BY DEF IInv, CloudPlaneRestart, SchedulableByStatus, WithinCapacity
<1> QED
  BY <1>1, <1>2, NodeStepKeepsRunInvariants DEF IInv, CloudPlaneRestart

-----------------------------------------------------------------------------
(* The invariant is inductive. *)

LEMMA InitInv == Init => IInv
<1> SUFFICES ASSUME Init PROVE IInv
  OBVIOUS
<1> USE BoundsAssumption, CapacityAssumption
<1>1. TypeOK
  BY DEF Init, TypeOK, NoService, NoRun, NoNodeRow
<1>2. RunFollowsService /\ Placement /\ DeployingIsOwedAReport
  BY DEF Init, RunFollowsService, Placement, DeployingIsOwedAReport, NoService, NoRun
<1>3. SchedulableByStatus /\ WithinCapacity
  BY DEF Init, SchedulableByStatus, WithinCapacity, NoNodeRow
<1> QED
  BY <1>1, <1>2, <1>3 DEF IInv

LEMMA NextInv == IInv /\ [Next]_vars => IInv'
<1> SUFFICES ASSUME IInv, [Next]_vars PROVE IInv'
  OBVIOUS
<1>1. CASE UNCHANGED vars
  <2>1. UNCHANGED <<services, runs, nodes, deletes, heartbeats, issued>>
    BY <1>1 DEF vars
  <2>2. TypeOK' /\ SchedulableByStatus' /\ WithinCapacity'
    BY <2>1 DEF IInv, TypeOK, SchedulableByStatus, WithinCapacity
  <2> QED
    BY <2>1, <2>2, NodeStepKeepsRunInvariants DEF IInv
<1>2. CASE ServiceStep
  BY <1>2, UpsertServiceInv, DeleteServiceReadInv, DeleteServiceWriteInv DEF ServiceStep
<1>3. CASE RunStep
  <2>1. ASSUME NEW s \in Services, MarkServiceRunFailed(s) PROVE IInv'
    BY <2>1, FailingKeepsInv DEF MarkServiceRunFailed
  <2>2. ASSUME NEW s \in Services, NEW g \in Generations,
               MarkPendingServiceRunFailedForProvisioningNode(s, g) PROVE IInv'
    BY <2>2, FailingKeepsInv DEF MarkPendingServiceRunFailedForProvisioningNode
  <2>3. \A w \in issued : w \in WorkItem
    BY DEF IInv, TypeOK
  <2> QED
    BY <1>3, <2>1, <2>2, <2>3, ClaimPendingDeleteRunInv, ClaimPendingRunInv,
       UpdateExecutionFromNodeReportInv DEF RunStep
<1>4. CASE NodeStep
  BY <1>4, NodeStepInv, MarkStaleNodeHeartbeatsOfflineInv
<1>5. CASE CloudPlaneRestart
  BY <1>5, CloudPlaneRestartInv
<1> QED
  BY <1>1, <1>2, <1>3, <1>4, <1>5 DEF Next

\* A step of the store, or a report of a work item nobody remembers handing out: what
\* an agent sends may come from a time before the rows it speaks of.
Transaction ==
  \/ [Next]_vars
  \/ \E w \in WorkItem : \E status \in Outcomes(w.action) :
       UpdateExecutionFromNodeReport(w, status)

LEMMA TransactionInv == IInv /\ Transaction => IInv'
BY NextInv, UpdateExecutionFromNodeReportInv DEF Transaction

\* The invariant holds in every state of every execution of the store, whatever
\* transactions its callers run and in whatever order.
THEOREM Invariance == Spec => []IInv
BY InitInv, NextInv, PTL DEF Spec

\* The tables keep their types, and every call in flight and work item names
\* existing rows and generations.
THEOREM TypeCorrect == Spec => []TypeOK
BY Invariance, PTL DEF IInv

\* UpsertService and DeleteService write the two tables in one transaction each;
\* no interleaving of them, nor a stale delete, makes the generations part.
THEOREM RunsFollowServices == Spec => []RunFollowsService
BY Invariance, PTL DEF IInv

\* Claims, reports and deletions never leave a live run without node or container.
THEOREM PlacementHolds == Spec => []Placement
BY Invariance, PTL DEF IInv

\* No interleaving strands a deploying run whose work item was never handed out,
\* or was handed out for another node or generation.
THEOREM DeployingRunsAreOwedReports == Spec => []DeployingIsOwedAReport
BY Invariance, PTL DEF IInv

\* Registrations, late heartbeats, drains and deletions of a node row all write
\* status and schedulable together.
THEOREM SchedulableMatchesStatus == Spec => []SchedulableByStatus
BY Invariance, PTL DEF IInv

\* ClaimServiceRun's check against the allocatable units of the node, made under
\* the row locks, is enough for every fleet and every mix of requests.
THEOREM CapacityRespected == Spec => []WithinCapacity
BY Invariance, PTL DEF IInv

=============================================================================
