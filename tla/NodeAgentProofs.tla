--------------------------- MODULE NodeAgentProofs ---------------------------
(* Theorems about the node agent, for every value of the constants. *)
EXTENDS NodeAgent, RunStoreBooksProofs

USE DEF Generations, ServiceRow, RunRow, NodeRow, WorkItem, DeleteCall, HeartbeatCall,
        DesiredStates, RunStatuses, NodeStatuses, Floor, freeNodeAllocation

-----------------------------------------------------------------------------
(* The inductive invariant.  Its operators take what they speak of as         *)
(* arguments, so that they mean the same of this state and of the next.       *)

\* A container of execution id of service s, of generation g, is in the set S.
Has(S, s, id, g) == \E c \in S : c.service = s /\ c.id = id /\ c.generation = g

\* The run row says that the container of generation g is its own.
Names(row, g) == row.container = g /\ row.status \in {"pending", "deploying", "running"}

\* The worker, with item w at stage st, is about to stop the container.
WillStop(w, st, s, id, g) ==
  /\ w # NoItem /\ w.action = "delete" /\ st = "begin"
  /\ w.service = s /\ w.id = id /\ w.container = g

\* The worker has started the container and not given up on it.
WillReport(w, st, out, s, id, g) ==
  /\ w # NoItem /\ w.action = "run"
  /\ st = "started" \/ (st = "report" /\ out = "running")
  /\ w.service = s /\ w.id = id /\ w.generation = g

\* The row of an active service counts on its container: the run is live, or an
\* update has found it live.
CountsOn(row, desired) ==
  \/ row.status = "running"
  \/ row.status = "pending" /\ row.container > 0
  \/ row.status = "deploying" /\ desired = "active" /\ row.container > 0

Mine(w, r) == r[w.service].id = w.id

Report == [item : WorkItem, status : {"running", "failed", "succeeded"}]

AgentTypes ==
  /\ AgentTypeOK /\ boot <= faults
  /\ mail \subseteq Report
  /\ item # NoItem => item.node = AgentNode
  /\ \A m \in mail : m.item.node = AgentNode
  /\ \A s \in Services : runs[s].status = "deploying" => runs[s].node = AgentNode
  /\ stage = "started" => item.action = "run"

\* A loop resets only while its process has started no work; work is in progress only
\* in a process that has reset, so what it starts is newer than any later reset.
ResetOnce ==
  /\ \A l \in Loops : at[l] = "reset" =>
       resetMu = l /\ nodeID # NoNode /\ runtimeResetNode # nodeID
  /\ at["worker"] = "act" => nodeID # NoNode /\ runtimeResetNode = nodeID
  /\ stage # "idle" => at["worker"] = "act"
  /\ \A c \in containers :
       /\ c.boot <= boot
       /\ c.boot = boot => nodeID # NoNode /\ runtimeResetNode = nodeID

\* While the worker holds an item whose run is gone, its service has no live run and
\* none that is about to be.
OrphanItem ==
  item # NoItem /\ ~Mine(item, runs) =>
    /\ runs[item.service].status \notin {"deploying", "running"}
    /\ runs[item.service].status = "pending" => runs[item.service].container = 0
    /\ \A m \in mail :
         m.item.service = item.service /\ Mine(m.item, runs) => m.status # "running"

\* While the row is claimed, the worker's item is the one the claim handed out.
CurrentItem ==
  item # NoItem /\ Mine(item, runs) /\ runs[item.service].status = "deploying" =>
    /\ runs[item.service].container = item.container
    /\ runs[item.service].generation = item.generation
    /\ item.action = "run" <=> services[item.service].desired = "active"

\* A container a row counts on has died, or it is there and nobody is about to stop it.
RowsAreServed ==
  \A s \in Services :
    CountsOn(runs[s], services[s].desired) =>
      \/ Has(lost, s, runs[s].id, runs[s].container)
      \/ /\ Has(containers, s, runs[s].id, runs[s].container)
         /\ ~WillStop(item, stage, s, runs[s].id, runs[s].container)

\* What the worker is about to report running is there, and is not yet the row's.
WorkIsServed ==
  item # NoItem /\ Mine(item, runs)
    /\ WillReport(item, stage, outcome, item.service, item.id, item.generation) =>
      \/ Has(lost, item.service, item.id, item.generation)
      \/ /\ Has(containers, item.service, item.id, item.generation)
         /\ ~Names(runs[item.service], item.generation)

\* What a late report will say is running is there, and is nobody else's.
MailIsServed ==
  \A m \in mail :
    m.status = "running" /\ Mine(m.item, runs) =>
      \/ Has(lost, m.item.service, m.item.id, m.item.generation)
      \/ /\ Has(containers, m.item.service, m.item.id, m.item.generation)
         /\ ~Names(runs[m.item.service], m.item.generation)
         /\ ~WillStop(item, stage, m.item.service, m.item.id, m.item.generation)
         /\ ~WillReport(item, stage, outcome, m.item.service, m.item.id, m.item.generation)
         /\ \A o \in mail :
              /\ o.status = "running" /\ o.item.service = m.item.service
              /\ o.item.id = m.item.id /\ o.item.generation = m.item.generation
              => o = m

\* What the worker is about to report stopped is no longer there.
StoppedIsGone ==
  stage = "report" /\ item.action = "delete" /\ outcome = "succeeded" =>
    ContainerOf(item, item.container) = {}

WorkInv ==
  /\ OrphanItem /\ CurrentItem /\ RowsAreServed /\ WorkIsServed /\ MailIsServed
  /\ StoppedIsGone

AgentInv == IInv /\ AgentTypes /\ ResetOnce /\ WorkInv

-----------------------------------------------------------------------------
(* The store. *)

LEMMA AgentStepsTransact ==
  ASSUME AgentInv, [AgentNext]_allVars
  PROVE  Transaction
<1>1. CASE UNCHANGED vars
  BY <1>1 DEF Transaction
<1>2. ASSUME NEW l \in Loops, registerNode(l) PROVE Transaction
  <2>1. RegisterNode(AgentNode, AgentInstance)
    BY <1>2 DEF registerNode
  <2> QED
    BY <2>1, AgentAssumption DEF Transaction, Next, NodeStep
<1>3. CASE sendHeartbeat
  <2>1. RecordNodeHeartbeatRead(AgentNode)
    BY <1>3 DEF sendHeartbeat
  <2> QED
    BY <2>1, AgentAssumption DEF Transaction, Next, NodeStep
<1>4. ASSUME NEW h \in heartbeats, heartbeatAnswered(h) PROVE Transaction
  <2>1. RecordNodeHeartbeatWrite(h)
    BY <1>4 DEF heartbeatAnswered
  <2> QED
    BY <2>1 DEF Transaction, Next, NodeStep
<1>5. ASSUME NEW s \in Services, pollWork(s) PROVE Transaction
  <2>1. ClaimPendingRun(AgentNode, s) \/ ClaimPendingDeleteRun(AgentNode, s)
    BY <1>5 DEF pollWork
  <2> QED
    BY <2>1, AgentAssumption DEF Transaction, Next, RunStep
<1>6. CASE report
  <2>1. CASE UpdateExecutionFromNodeReport(item, outcome)
    <3>1. item \in WorkItem /\ outcome \in Outcomes(item.action)
      BY <1>6 DEF AgentInv, AgentTypes, AgentTypeOK, report
    <3> QED
      BY <2>1, <3>1 DEF Transaction
  <2> QED
    BY <1>1, <1>6, <2>1 DEF report
<1>7. ASSUME NEW m \in mail, lateReport(m) PROVE Transaction
  <2>1. m.item \in WorkItem /\ m.status \in Outcomes(m.item.action)
    BY DEF AgentInv, AgentTypes, AgentTypeOK
  <2>2. UpdateExecutionFromNodeReport(m.item, m.status)
    BY <1>7 DEF lateReport
  <2> QED
    BY <2>1, <2>2 DEF Transaction
<1>8. CASE Caller
  BY <1>8 DEF Caller, Transaction, Next
<1>9. CASE NodeHealth
  <2>1. MarkStaleNodeHeartbeatsOffline({AgentNode})
    BY <1>9 DEF NodeHealth
  <2>2. {AgentNode} \in SUBSET Nodes
    BY AgentAssumption
  <2>3. NodeStep
    BY <2>1, <2>2, Zenon DEF NodeStep
  <2> QED
    BY <2>3 DEF Transaction, Next
<1>10. ASSUME NEW l \in Loops, checkReset(l) \/ resetRuntimeOnce(l) PROVE Transaction
  BY <1>1, <1>10 DEF checkReset, resetRuntimeOnce
<1>11. CASE runWorkItem \/ waitReadiness \/ deleteWorkItem
  BY <1>1, <1>11 DEF runWorkItem, waitReadiness, deleteWorkItem, WorkerStep
<1>12. ASSUME NEW c \in containers, WorkloadExit(c) PROVE Transaction
  BY <1>1, <1>12 DEF WorkloadExit
<1>13. CASE Restart
  BY <1>1, <1>13 DEF Restart
<1>14. CASE UNCHANGED allVars
  BY <1>1, <1>14 DEF allVars
<1> QED
  BY <1>2, <1>3, <1>4, <1>5, <1>6, <1>7, <1>8, <1>9, <1>10, <1>11, <1>12, <1>13, <1>14
     DEF AgentNext, LoopStep, WorkStep

LEMMA AgentStoreInv ==
  ASSUME AgentInv, [AgentNext]_allVars
  PROVE  IInv'
BY AgentStepsTransact, TransactionInv DEF AgentInv

-----------------------------------------------------------------------------
(* Types. *)

LEMMA NoItemIsNoWork == NoItem \notin WorkItem
BY AgentAssumption

\* Steps of a loop that leave the work, the containers and the runs alone.
LEMMA LoopStepTypes ==
  ASSUME AgentTypes, UNCHANGED <<runs, item, stage, outcome, mail, boot>>,
         containers' \subseteq containers, lost' \subseteq lost \cup containers,
         nodeID' \in {AgentNode, NoNode}, runtimeResetNode' \in {AgentNode, NoNode},
         resetMu' \in Loops \cup {"free"}, at' \in [Loops -> Points],
         faults' \in 0..MaxFaults, boot <= faults'
  PROVE  AgentTypes'
<1>1. AgentTypeOK'
  BY Zenon DEF AgentTypes, AgentTypeOK
<1> QED
  BY <1>1 DEF AgentTypes

LEMMA FaultTypes ==
  ASSUME AgentTypes, Fault \/ NoFault
  PROVE  faults' \in 0..MaxFaults /\ boot <= faults' /\ faults <= faults'
BY FaultsAssumption DEF AgentTypes, AgentTypeOK, Fault, NoFault

\* A work item that was handed out is a work item of the agent's node.
LEMMA ClaimedType ==
  ASSUME IInv, NEW s \in Services, NEW action \in {"run", "delete"},
         runs[s].status = "pending"
  PROVE  /\ Claimed(s, action) \in WorkItem
         /\ Claimed(s, action).node = AgentNode
         /\ Claimed(s, action).service = s /\ Claimed(s, action).id = runs[s].id
         /\ Claimed(s, action).action = action
         /\ Claimed(s, action).generation = runs[s].generation
         /\ Claimed(s, action).container = runs[s].container
<1>1. runs[s] \in RunRow /\ runs[s].id # NoRunID /\ runs[s].generation > 0
  BY DEF IInv, TypeOK, Placement
<1>2. runs[s].id \in RunIDs /\ runs[s].generation \in Generations
      /\ runs[s].container \in 0..MaxGeneration
  BY <1>1, BoundsAssumption
<1> QED
  BY <1>2, AgentAssumption DEF Claimed

LEMMA PollWorkEffect ==
  ASSUME AgentInv, NEW s \in Services, pollWork(s)
  PROVE  \E action \in {"run", "delete"} :
           /\ runs[s].status = "pending"
           /\ services[s].desired = (IF action = "run" THEN "active" ELSE "deleted")
           /\ runs' = [runs EXCEPT ![s] = [runs[s] EXCEPT !.status = "deploying",
                                                          !.node = AgentNode]]
           /\ UNCHANGED services
           /\ \/ /\ item' = Claimed(s, action) /\ stage' = "begin" /\ UNCHANGED at
              \/ UNCHANGED <<item, stage>> /\ at' = [at EXCEPT !["worker"] = "cycle"]
           /\ UNCHANGED <<nodeID, runtimeResetNode, resetMu, outcome, containers, mail,
                          lost, boot>>
           /\ Fault \/ NoFault
<1>1. PICK action \in {"run", "delete"} :
       /\ IF action = "run" THEN ClaimPendingRun(AgentNode, s)
                            ELSE ClaimPendingDeleteRun(AgentNode, s)
       /\ \/ /\ item' = Claimed(s, action) /\ stage' = "begin" /\ NoFault
             /\ UNCHANGED at
          \/ /\ Fault /\ UNCHANGED <<item, stage>>
             /\ at' = [at EXCEPT !["worker"] = "cycle"]
  BY DEF pollWork
<1>2. runs[s] \in RunRow
  BY DEF AgentInv, IInv, TypeOK
<1>3. /\ runs[s].status = "pending" /\ markServiceRunDeploying(s, AgentNode)
      /\ services[s].desired = (IF action = "run" THEN "active" ELSE "deleted")
      /\ UNCHANGED services
  BY <1>1 DEF ClaimPendingRun, ClaimPendingDeleteRun
<1>4. runs' = [runs EXCEPT ![s] = [runs[s] EXCEPT !.status = "deploying",
                                                  !.node = AgentNode]]
  BY <1>3 DEF markServiceRunDeploying
<1> QED
  BY <1>1, <1>3, <1>4 DEF pollWork

LEMMA PollWorkTypes ==
  ASSUME AgentInv, NEW s \in Services, pollWork(s)
  PROVE  AgentTypes'
<1>a. AgentTypes /\ IInv
  BY DEF AgentInv
<1>1. PICK action \in {"run", "delete"} :
           /\ runs[s].status = "pending"
           /\ runs' = [runs EXCEPT ![s] = [runs[s] EXCEPT !.status = "deploying",
                                                          !.node = AgentNode]]
           /\ \/ /\ item' = Claimed(s, action) /\ stage' = "begin" /\ UNCHANGED at
              \/ UNCHANGED <<item, stage>> /\ at' = [at EXCEPT !["worker"] = "cycle"]
           /\ UNCHANGED <<nodeID, runtimeResetNode, resetMu, outcome, containers, mail,
                          lost, boot>>
           /\ Fault \/ NoFault
  BY PollWorkEffect
<1>2. faults' \in 0..MaxFaults /\ boot <= faults'
  BY <1>a, <1>1, FaultTypes
<1>3. runs[s] \in RunRow /\ runs \in [Services -> RunRow]
  BY <1>a DEF IInv, TypeOK
<1>4. \A t \in Services : runs'[t].status = "deploying" => runs'[t].node = AgentNode
  BY <1>a, <1>1, <1>3 DEF AgentTypes
<1>5. /\ Claimed(s, action) \in WorkItem /\ Claimed(s, action).node = AgentNode
      /\ Claimed(s, action) # NoItem
  BY <1>a, <1>1, ClaimedType, NoItemIsNoWork
<1>6. at' \in [Loops -> Points]
  BY <1>a, <1>1 DEF AgentTypes, AgentTypeOK, Points, Loops
<1>7. /\ item' \in WorkItem \cup {NoItem} /\ stage' \in Stages
      /\ stage' = "idle" <=> item' = NoItem
      /\ stage' = "report" => outcome' \in Outcomes(item'.action)
      /\ item' # NoItem => item'.node = AgentNode
      /\ stage' = "started" => item'.action = "run"
  BY <1>a, <1>1, <1>5 DEF AgentTypes, AgentTypeOK, Stages
<1>8. AgentTypeOK'
  BY <1>a, <1>1, <1>2, <1>6, <1>7, Zenon DEF AgentTypes, AgentTypeOK
<1> QED
  BY <1>a, <1>1, <1>2, <1>4, <1>7, <1>8 DEF AgentTypes

-----------------------------------------------------------------------------
(* What the steps of the store's other callers do to a row. *)

NewIDs == {runs'[s].id : s \in Services} \ {runs[s].id : s \in Services}

Kept(s) == /\ runs'[s] = runs[s]
           /\ runs[s].status = "deploying" => services'[s].desired = services[s].desired

Failed(s) == runs'[s] = [runs[s] EXCEPT !.status = "failed"]

Repinned(s) == /\ runs[s].status = "running" /\ runs'[s].status = "pending"
               /\ runs'[s].id = runs[s].id /\ runs'[s].container = runs[s].container

Renewed(s) == /\ runs[s].status # "running"
              /\ runs'[s].status = "pending" /\ runs'[s].container = 0
              /\ runs'[s].id = runs[s].id \/ runs'[s].id \in NewIDs

Dropped(s) == runs[s].status # "running" /\ runs'[s] = NoRun

RowMoves(s) == Kept(s) \/ Failed(s) \/ Repinned(s) \/ Renewed(s) \/ Dropped(s)

LEMMA UpsertMovesRows ==
  ASSUME IInv, NEW s \in Services, NEW g \in Generations, NEW spec \in Specs,
         UpsertService(s, g, spec), NEW t \in Services
  PROVE  Kept(t) \/ Repinned(t) \/ Renewed(t)
<1>1. /\ services \in [Services -> ServiceRow] /\ runs \in [Services -> RunRow]
      /\ RunFollowsService /\ Placement
  BY DEF IInv, TypeOK
<1>2. services' = [services EXCEPT ![s] =
                    [generation |-> g, desired |-> "active", spec |-> spec]]
  BY DEF UpsertService
<1>3. CASE UNCHANGED runs
  <2>1. CASE t # s
    BY <1>1, <1>2, <1>3, <2>1 DEF Kept
  <2>2. CASE t = s
    <3>1. CASE runs[s].status = "absent"
      BY <1>3, <2>2, <3>1 DEF Kept
    <3>2. CASE runs[s].status # "absent"
      <4>1. runs[s].generation = services[s].generation
        BY <1>1, <3>2 DEF RunFollowsService
      <4>2. runs[s].generation >= g \/ runs'[s].generation = g
        BY <1>1 DEF UpsertService, upsertServiceRunTx
      <4>3. services[s].generation \in 0..MaxGeneration /\ g \in Generations
        BY <1>1
      <4>4. services[s].desired = "active"
        BY <1>3, <4>1, <4>2, <4>3, BoundsAssumption DEF UpsertService
      <4>5. services'[s].desired = "active"
        BY <1>1, <1>2
      <4> QED
        BY <1>3, <2>2, <4>4, <4>5 DEF Kept
    <3> QED
      BY <3>1, <3>2
  <2> QED
    BY <2>1, <2>2
<1>4. CASE ~UNCHANGED runs
  <2> DEFINE run == runs[s]
             live == run.status = "running" /\ run.node # NoNode
             row == runs'[s]
  <2>1. /\ run.status = "absent" \/ run.generation < g
        /\ run.status = "absent" => FreshRunIDs # {}
        /\ runs' = [runs EXCEPT ![s] =
             [status |-> "pending",
              id |-> IF run.status = "absent"
                       THEN CHOOSE id \in FreshRunIDs : TRUE ELSE run.id,
              generation |-> g,
              spec |-> spec,
              node |-> IF live THEN run.node ELSE NoNode,
              container |-> IF live THEN run.container ELSE 0]]
    BY <1>4 DEF UpsertService, upsertServiceRunTx
  <2>2. /\ row.status = "pending"
        /\ row.id = IF run.status = "absent"
                      THEN CHOOSE id \in FreshRunIDs : TRUE ELSE run.id
        /\ row.container = IF live THEN run.container ELSE 0
    BY <1>1, <2>1
  <2>3. \A u \in Services \ {s} : runs'[u] = runs[u] /\ services'[u] = services[u]
    BY <1>1, <1>2, <2>1
  <2>4. CASE t # s
    BY <2>3, <2>4 DEF Kept
  <2>5. CASE t = s /\ run.status = "running"
    <3>1. live
      BY <1>1, <2>5 DEF Placement
    <3> QED
      BY <2>2, <2>5, <3>1 DEF Repinned
  <2>6. CASE t = s /\ run.status # "running"
    <3>1. run.status = "absent" => row.id \in NewIDs
      <4>1. SUFFICES ASSUME run.status = "absent" PROVE row.id \in NewIDs
        OBVIOUS
      <4>2. row.id \in FreshRunIDs
        BY <2>1, <2>2, <4>1
      <4>3. row.id \notin {runs[u].id : u \in Services}
        BY <4>2 DEF FreshRunIDs, UsedRunIDs
      <4>4. row.id \in {runs'[u].id : u \in Services}
        OBVIOUS
      <4> QED
        BY <4>3, <4>4 DEF NewIDs
    <3>2. row.id = run.id \/ row.id \in NewIDs
      BY <2>2, <3>1
    <3> QED
      BY <2>2, <2>6, <3>2 DEF Renewed
  <2> QED
    BY <2>4, <2>5, <2>6
<1> QED
  BY <1>3, <1>4

LEMMA DeleteMovesRows ==
  ASSUME IInv, NEW d \in deletes, DeleteServiceWrite(d), NEW t \in Services
  PROVE  Kept(t) \/ Repinned(t) \/ Dropped(t)
<1> DEFINE s == d.service
           run == runs[s]
           live == run.status = "running" /\ run.node # NoNode /\ run.container > 0
<1>1. /\ services \in [Services -> ServiceRow] /\ runs \in [Services -> RunRow]
      /\ Placement /\ s \in Services
  BY DEF IInv, TypeOK
<1>2. \A u \in Services \ {s} : services'[u] = services[u]
  BY <1>1 DEF DeleteServiceWrite
<1>3. CASE run.status = "absent" /\ UNCHANGED runs
  BY <1>2, <1>3 DEF Kept
<1>4. CASE live /\ runs' = [runs EXCEPT ![s].generation = d.generation,
                                        ![s].status = "pending"]
  <2>1. /\ runs'[s].status = "pending" /\ runs'[s].id = run.id
        /\ runs'[s].container = run.container
        /\ \A u \in Services \ {s} : runs'[u] = runs[u]
    BY <1>1, <1>4
  <2> QED
    BY <1>2, <1>4, <2>1 DEF Kept, Repinned
<1>5. CASE ~live /\ runs' = [runs EXCEPT ![s] = NoRun]
  <2>1. runs'[s] = NoRun /\ \A u \in Services \ {s} : runs'[u] = runs[u]
    BY <1>1, <1>5
  <2>2. run.status # "running"
    BY <1>1, <1>5 DEF Placement
  <2> QED
    BY <1>2, <2>1, <2>2 DEF Kept, Dropped
<1> QED
  BY <1>3, <1>4, <1>5 DEF DeleteServiceWrite, deleteServiceRunTx

LEMMA CallerMovesRows ==
  ASSUME IInv, ServiceStep, NEW t \in Services
  PROVE  Kept(t) \/ Repinned(t) \/ Renewed(t) \/ Dropped(t)
<1>1. CASE \E s \in Services, g \in Generations, spec \in Specs : UpsertService(s, g, spec)
  BY <1>1, UpsertMovesRows
<1>2. CASE \E s \in Services, g \in Generations : DeleteServiceRead(s, g)
  BY <1>2 DEF DeleteServiceRead, Kept
<1>3. CASE \E d \in deletes : DeleteServiceWrite(d)
  BY <1>3, DeleteMovesRows
<1> QED
  BY <1>1, <1>2, <1>3 DEF ServiceStep

LEMMA OfflineMovesRows ==
  ASSUME IInv, MarkStaleNodeHeartbeatsOffline({AgentNode}), NEW t \in Services
  PROVE  Kept(t) \/ Failed(t)
<1> DEFINE hit(s) == \E n \in {AgentNode} : s \in Impacted(n)
<1>1. runs' = [s \in Services |-> IF hit(s) THEN [runs[s] EXCEPT !.status = "failed"]
                                            ELSE runs[s]]
  BY Zenon DEF MarkStaleNodeHeartbeatsOffline
<1>2. UNCHANGED services
  BY Zenon DEF MarkStaleNodeHeartbeatsOffline
<1> HIDE DEF hit
<1> QED
  BY <1>1, <1>2 DEF Kept, Failed

\* What the report of work item w does to its row.
Settles(w, status) ==
  /\ Mine(w, runs) /\ runs[w.service].status = "deploying" /\ status # "running"
  /\ runs'[w.service].status \notin {"pending", "deploying", "running"}
  /\ runs'[w.service].id = w.id \/ runs'[w.service].id = NoRunID

StartsRunning(w, status) ==
  /\ Mine(w, runs) /\ runs[w.service].status = "deploying" /\ status = "running"
  /\ runs'[w.service].status = "running" /\ runs'[w.service].id = w.id
  /\ runs'[w.service].container = w.generation

IsRefused(w) ==
  /\ ~(Mine(w, runs) /\ runs[w.service].status = "deploying")
  /\ runs'[w.service] = runs[w.service]

LEMMA ReportMovesRow ==
  ASSUME IInv, AgentTypes, NEW w \in WorkItem, w.node = AgentNode,
         NEW status \in Outcomes(w.action), UpdateExecutionFromNodeReport(w, status)
  PROVE  /\ UNCHANGED services
         /\ \A t \in Services : t # w.service => runs'[t] = runs[t]
         /\ Settles(w, status) \/ StartsRunning(w, status) \/ IsRefused(w)
<1> DEFINE s == w.service
           run == runs[s]
           applies == run.id = w.id /\ run.node = w.node /\ run.status = "deploying"
           gone == status = "succeeded" /\ services[s].desired = "deleted"
           box == IF w.action = "run" THEN w.generation ELSE w.container
           row == IF gone THEN NoRun ELSE [run EXCEPT !.status = status, !.container = box]
<1>1. /\ s \in Services /\ run \in RunRow /\ runs \in [Services -> RunRow]
      /\ status \in {"running", "failed", "succeeded"}
      /\ status = "running" => w.action = "run"
      /\ UNCHANGED services
  BY DEF IInv, TypeOK, Outcomes, UpdateExecutionFromNodeReport
<1>2. CASE ~applies
  <2>1. runs' = runs
    BY <1>2 DEF UpdateExecutionFromNodeReport
  <2>2. ~(Mine(w, runs) /\ run.status = "deploying")
    BY <1>1, <1>2 DEF Mine, AgentTypes
  <2> QED
    BY <1>1, <2>1, <2>2 DEF IsRefused
<1>3. CASE applies
  <2>1. runs' = [runs EXCEPT ![s] = row]
    BY <1>3 DEF UpdateExecutionFromNodeReport
  <2>2. runs'[s] = row /\ \A t \in Services : t # s => runs'[t] = runs[t]
    BY <1>1, <2>1
  <2>3. CASE status = "running"
    <3>1. row.status = "running" /\ row.id = run.id /\ row.container = w.generation
      BY <1>1, <2>3
    <3> QED
      BY <1>1, <1>3, <2>2, <2>3, <3>1 DEF StartsRunning, Mine
  <2>4. CASE status # "running"
    <3>1. /\ row.status \notin {"pending", "deploying", "running"}
          /\ row.id = run.id \/ row.id = NoRunID
      BY <1>1, <2>4 DEF NoRun
    <3> QED
      BY <1>1, <1>3, <2>2, <2>4, <3>1 DEF Settles, Mine
  <2> QED
    BY <2>3, <2>4
<1> QED
  BY <1>2, <1>3

-----------------------------------------------------------------------------
(* Types, continued: one lemma per group of steps. *)

LEMMA LoopTypes ==
  ASSUME AgentInv,
         \/ \E l \in Loops : LoopStep(l)
         \/ sendHeartbeat \/ (\E h \in heartbeats : heartbeatAnswered(h))
  PROVE  AgentTypes'
<1>a. AgentTypes
  BY DEF AgentInv
<1> USE DEF workerVars, vars, Loops, Points
<1>1. ASSUME NEW l \in Loops, registerNode(l) PROVE AgentTypes'
  <2>1. UNCHANGED <<runs, item, stage, outcome, mail, boot, containers, lost, resetMu, at>>
    BY <1>1 DEF registerNode, RegisterNode
  <2>2. nodeID' = AgentNode /\ runtimeResetNode' = NoNode /\ NoFault
    BY <1>1 DEF registerNode
  <2> QED
    BY <1>a, <2>1, <2>2, FaultTypes, LoopStepTypes DEF AgentTypes, AgentTypeOK
<1>2. ASSUME NEW l \in Loops, checkReset(l) PROVE AgentTypes'
  <2>1. UNCHANGED <<runs, item, stage, outcome, mail, boot, containers, lost, nodeID,
                    runtimeResetNode>> /\ NoFault
    BY <1>2 DEF checkReset
  <2>2. at' \in [Loops -> Points] /\ resetMu' \in Loops \cup {"free"}
    BY <1>a, <1>2 DEF checkReset, AgentTypes, AgentTypeOK
  <2> QED
    BY <1>a, <2>1, <2>2, FaultTypes, LoopStepTypes DEF AgentTypes, AgentTypeOK
<1>3. ASSUME NEW l \in Loops, resetRuntimeOnce(l) PROVE AgentTypes'
  <2>1. UNCHANGED <<runs, item, stage, outcome, mail, boot, nodeID>> /\ (Fault \/ NoFault)
    BY <1>3 DEF resetRuntimeOnce
  <2>2. containers' \subseteq containers /\ lost' \subseteq lost \cup containers
    BY <1>3 DEF resetRuntimeOnce, Removed
  <2>3. at' \in [Loops -> Points] /\ resetMu' \in Loops \cup {"free"}
    BY <1>a, <1>3 DEF resetRuntimeOnce, AgentTypes, AgentTypeOK
  <2>4. runtimeResetNode' \in {AgentNode, NoNode}
    BY <1>a, <1>3 DEF resetRuntimeOnce, AgentTypes, AgentTypeOK
  <2> QED
    BY <1>a, <2>1, <2>2, <2>3, <2>4, FaultTypes, LoopStepTypes DEF AgentTypes, AgentTypeOK
<1>4. CASE sendHeartbeat
  <2>1. UNCHANGED <<runs, item, stage, outcome, mail, boot, containers, lost, nodeID,
                    runtimeResetNode, resetMu>> /\ NoFault
    BY <1>4 DEF sendHeartbeat, RecordNodeHeartbeatRead
  <2>2. at' \in [Loops -> Points]
    BY <1>a, <1>4 DEF sendHeartbeat, AgentTypes, AgentTypeOK
  <2> QED
    BY <1>a, <2>1, <2>2, FaultTypes, LoopStepTypes DEF AgentTypes, AgentTypeOK
<1>5. ASSUME NEW h \in heartbeats, heartbeatAnswered(h) PROVE AgentTypes'
  <2>1. UNCHANGED <<runs, item, stage, outcome, mail, boot, containers, lost, nodeID,
                    runtimeResetNode, resetMu>> /\ NoFault
    BY <1>5 DEF heartbeatAnswered, RecordNodeHeartbeatWrite
  <2>2. at' \in [Loops -> Points]
    BY <1>a, <1>5 DEF heartbeatAnswered, AgentTypes, AgentTypeOK
  <2> QED
    BY <1>a, <2>1, <2>2, FaultTypes, LoopStepTypes DEF AgentTypes, AgentTypeOK
<1> QED
  BY <1>1, <1>2, <1>3, <1>4, <1>5 DEF LoopStep

LEMMA WorkerTypes ==
  ASSUME AgentInv, runWorkItem \/ waitReadiness \/ deleteWorkItem
  PROVE  AgentTypes'
<1>a. AgentTypes
  BY DEF AgentInv
<1>1. UNCHANGED <<runs, nodeID, runtimeResetNode, resetMu, at, item, mail, boot, lost>>
  BY DEF runWorkItem, waitReadiness, deleteWorkItem, WorkerStep, vars
<1>2. Fault \/ NoFault
  BY DEF runWorkItem, waitReadiness, deleteWorkItem
<1>3. faults' \in 0..MaxFaults /\ boot <= faults'
  BY <1>a, <1>2, FaultTypes
<1>4. item \in WorkItem /\ stage # "idle"
  BY <1>a DEF AgentTypes, AgentTypeOK, runWorkItem, waitReadiness, deleteWorkItem
<1>5. containers' \subseteq Container
  <2>1. CASE runWorkItem /\ startContainer
    <3> DEFINE new == [service |-> item.service, id |-> item.id,
                       generation |-> item.generation, boot |-> boot]
    <3>1. new \in Container
      BY <1>a, <1>4 DEF Container, AgentTypes, AgentTypeOK
    <3>2. containers' = (containers \ OtherExecutions(item)) \cup {new}
      BY <2>1 DEF startContainer
    <3> HIDE DEF new
    <3> QED
      BY <1>a, <3>1, <3>2 DEF AgentTypes, AgentTypeOK
  <2>2. CASE ~(runWorkItem /\ startContainer)
    <3>1. containers' \subseteq containers
      BY <2>2 DEF runWorkItem, startFails, refuseWorkItem, waitReadiness, deleteWorkItem,
                  OtherExecutions, ContainerOf
    <3> QED
      BY <1>a, <3>1 DEF AgentTypes, AgentTypeOK
  <2> QED
    BY <2>1, <2>2
<1>6. /\ stage' \in Stages /\ stage' # "idle"
      /\ outcome' \in {"running", "failed", "succeeded"}
      /\ stage' = "report" => outcome' \in Outcomes(item.action)
      /\ stage' = "started" => item.action = "run"
  <2>1. CASE runWorkItem
    BY <1>a, <2>1 DEF runWorkItem, startContainer, startFails, refuseWorkItem, Reporting,
                      Stages, Outcomes, AgentTypes, AgentTypeOK
  <2>2. CASE waitReadiness
    BY <1>a, <2>2 DEF waitReadiness, Reporting, Stages, Outcomes, AgentTypes, AgentTypeOK
  <2>3. CASE deleteWorkItem
    BY <1>a, <2>3 DEF deleteWorkItem, Reporting, Stages, Outcomes, AgentTypes, AgentTypeOK
  <2> QED
    BY <2>1, <2>2, <2>3
<1>7. AgentTypeOK'
  BY <1>a, <1>1, <1>3, <1>4, <1>5, <1>6, NoItemIsNoWork DEF AgentTypes, AgentTypeOK
<1> QED
  BY <1>a, <1>1, <1>3, <1>6, <1>7 DEF AgentTypes

\* A row a report has changed is not deploying.
LEMMA ReportKeepsNodes ==
  ASSUME IInv, AgentTypes, NEW w \in WorkItem, w.node = AgentNode,
         NEW status \in Outcomes(w.action), UpdateExecutionFromNodeReport(w, status)
  PROVE  \A s \in Services : runs'[s].status = "deploying" => runs'[s].node = AgentNode
<1>1. /\ \A t \in Services : t # w.service => runs'[t] = runs[t]
      /\ Settles(w, status) \/ StartsRunning(w, status) \/ IsRefused(w)
  BY ReportMovesRow
<1> QED
  BY <1>1 DEF Settles, StartsRunning, IsRefused, AgentTypes

LEMMA ReportTypes ==
  ASSUME AgentInv, report
  PROVE  AgentTypes'
<1>a. AgentTypes /\ IInv
  BY DEF AgentInv
<1>1. /\ UNCHANGED <<nodeID, runtimeResetNode, resetMu, outcome, containers, lost, boot>>
      /\ item' = NoItem /\ stage' = "idle" /\ at' = [at EXCEPT !["worker"] = "cycle"]
      /\ Fault \/ NoFault
  BY DEF report, WorkerIdle
<1>2. faults' \in 0..MaxFaults /\ boot <= faults'
  BY <1>a, <1>1, FaultTypes
<1>3. item \in WorkItem /\ item.node = AgentNode /\ outcome \in Outcomes(item.action)
  BY <1>a DEF report, AgentTypes, AgentTypeOK
<1>4. at' \in [Loops -> Points]
  BY <1>a, <1>1 DEF AgentTypes, AgentTypeOK, Loops, Points
<1>5. /\ mail' \subseteq Report
      /\ \A m \in mail' : /\ m.item.node = AgentNode /\ m.item \in WorkItem
                          /\ m.status \in Outcomes(m.item.action)
  <2> DEFINE new == [item |-> item, status |-> outcome]
  <2>1. new \in Report /\ new.item = item /\ new.status = outcome
    BY <1>a, <1>3 DEF AgentTypes, AgentTypeOK, Report
  <2>2. mail' \subseteq mail \cup {new}
    BY DEF report
  <2> HIDE DEF new
  <2> QED
    BY <1>a, <1>3, <2>1, <2>2 DEF AgentTypes, AgentTypeOK
<1>6. \A s \in Services : runs'[s].status = "deploying" => runs'[s].node = AgentNode
  <2>1. CASE UNCHANGED vars
    BY <1>a, <2>1 DEF AgentTypes, vars
  <2>2. CASE UpdateExecutionFromNodeReport(item, outcome)
    BY <1>a, <1>3, <2>2, ReportKeepsNodes
  <2> QED
    BY <2>1, <2>2 DEF report
<1>7. AgentTypeOK'
  BY <1>a, <1>1, <1>2, <1>4, <1>5 DEF AgentTypes, AgentTypeOK, Stages
<1> QED
  BY <1>1, <1>2, <1>5, <1>6, <1>7 DEF AgentTypes

LEMMA LateReportTypes ==
  ASSUME AgentInv, NEW m \in mail, lateReport(m)
  PROVE  AgentTypes'
<1>a. AgentTypes /\ IInv
  BY DEF AgentInv
<1>1. /\ UNCHANGED <<nodeID, runtimeResetNode, resetMu, at, item, stage, outcome,
                     containers, lost, boot>>
      /\ mail' \subseteq mail /\ NoFault
  BY DEF lateReport
<1>2. faults' \in 0..MaxFaults /\ boot <= faults'
  BY <1>a, <1>1, FaultTypes
<1>3. /\ m.item \in WorkItem /\ m.item.node = AgentNode
      /\ m.status \in Outcomes(m.item.action)
      /\ UpdateExecutionFromNodeReport(m.item, m.status)
  BY <1>a DEF lateReport, AgentTypes, AgentTypeOK
<1>4. \A s \in Services : runs'[s].status = "deploying" => runs'[s].node = AgentNode
  BY <1>a, <1>3, ReportKeepsNodes
<1>5. AgentTypeOK'
  BY <1>a, <1>1, <1>2 DEF AgentTypes, AgentTypeOK
<1> QED
  BY <1>a, <1>1, <1>2, <1>4, <1>5 DEF AgentTypes

LEMMA RetiredTypes ==
  ASSUME NEW S \in SUBSET Container, NEW ids
  PROVE  Retired(S, ids) \subseteq Container
<1>1. \A c \in Container : [c EXCEPT !.id = NoRunID] \in Container
  BY DEF Container
<1> QED
  BY <1>1 DEF Retired

\* Rows that callers and the health loop change are not deploying afterwards.
LEMMA RowMovesKeepNodes ==
  ASSUME IInv, AgentTypes, NEW s \in Services, RowMoves(s), runs'[s].status = "deploying"
  PROVE  runs'[s].node = AgentNode
<1>1. runs[s] \in RunRow
  BY DEF IInv, TypeOK
<1> QED
  BY <1>1 DEF RowMoves, Kept, Failed, Repinned, Renewed, Dropped, NoRun, AgentTypes

LEMMA EnvironmentTypes ==
  ASSUME AgentInv, Caller \/ NodeHealth \/ Restart \/ (\E c \in containers : WorkloadExit(c))
  PROVE  AgentTypes'
<1>a. AgentTypes /\ IInv
  BY DEF AgentInv
<1> USE DEF AgentTypes, AgentTypeOK
<1>1. CASE Caller
  <2>1. /\ UNCHANGED <<nodeID, runtimeResetNode, resetMu, at, item, stage, outcome, mail, boot>>
        /\ NoFault /\ ServiceStep
    BY <1>1 DEF Caller
  <2>2. faults' \in 0..MaxFaults /\ boot <= faults'
    BY <1>a, <2>1, FaultTypes
  <2>3. containers' \subseteq Container /\ lost' \subseteq Container
    BY <1>a, <1>1, RetiredTypes DEF Caller
  <2>4. \A s \in Services : runs'[s].status = "deploying" => runs'[s].node = AgentNode
    BY <1>a, <2>1, CallerMovesRows, RowMovesKeepNodes DEF RowMoves
  <2> QED
    BY <1>a, <2>1, <2>2, <2>3, <2>4
<1>2. CASE NodeHealth
  <2>1. /\ UNCHANGED <<nodeID, runtimeResetNode, resetMu, at, item, stage, outcome, mail, boot,
                       containers, lost>>
        /\ Fault /\ MarkStaleNodeHeartbeatsOffline({AgentNode})
    BY <1>2 DEF NodeHealth, StoreOnly, workerVars
  <2>2. faults' \in 0..MaxFaults /\ boot <= faults'
    BY <1>a, <2>1, FaultTypes
  <2>3. \A s \in Services : runs'[s].status = "deploying" => runs'[s].node = AgentNode
    BY <1>a, <2>1, OfflineMovesRows, RowMovesKeepNodes DEF RowMoves
  <2> QED
    BY <1>a, <2>1, <2>2, <2>3
<1>3. CASE Restart
  <2>1. /\ UNCHANGED <<runs, outcome, containers, mail, lost>>
        /\ nodeID' = NoNode /\ runtimeResetNode' = NoNode /\ resetMu' = "free"
        /\ item' = NoItem /\ stage' = "idle"
    BY <1>3 DEF Restart, vars
  <2>2. boot' \in 0..MaxFaults /\ faults' \in 0..MaxFaults /\ boot' <= faults'
    BY <1>a, <1>3, FaultsAssumption DEF Restart, Fault
  <2>3. at' \in [Loops -> Points]
    BY <1>3 DEF Restart, Loops, Points
  <2> QED
    BY <1>a, <2>1, <2>2, <2>3 DEF Stages
<1>4. CASE \E c \in containers : WorkloadExit(c)
  <2>1. /\ UNCHANGED <<runs, nodeID, runtimeResetNode, resetMu, at, item, stage, outcome,
                       mail, boot>>
        /\ containers' \subseteq Container /\ lost' \subseteq Container /\ Fault
    BY <1>a, <1>4 DEF WorkloadExit, vars
  <2>2. faults' \in 0..MaxFaults /\ boot <= faults'
    BY <1>a, <2>1, FaultTypes
  <2> QED
    BY <1>a, <2>1, <2>2
<1> QED
  BY <1>1, <1>2, <1>3, <1>4

LEMMA AgentTypesInv ==
  ASSUME AgentInv, [AgentNext]_allVars
  PROVE  AgentTypes'
<1>1. CASE UNCHANGED allVars
  <2>1. UNCHANGED <<runs, nodeID, runtimeResetNode, resetMu, at, item, stage, outcome,
                    containers, mail, boot, lost, faults>>
    BY <1>1 DEF allVars, vars, agentVars
  <2> QED
    BY <2>1 DEF AgentInv, AgentTypes, AgentTypeOK
<1> QED
  BY <1>1, LoopTypes, PollWorkTypes, WorkerTypes, ReportTypes, LateReportTypes,
     EnvironmentTypes DEF AgentNext, WorkStep

-----------------------------------------------------------------------------
(* The two loops reset once, and before any work. *)

LEMMA LoopsResetOnce ==
  ASSUME AgentInv, NEW l \in Loops, LoopStep(l)
  PROVE  ResetOnce'
<1> USE DEF ResetOnce
<1>a. AgentTypes /\ AgentTypeOK /\ ResetOnce /\ "worker" \in Loops
  BY DEF AgentInv, AgentTypes, Loops
<1>1. CASE registerNode(l)
  <2>1. /\ UNCHANGED <<resetMu, at, stage, containers, boot>>
        /\ nodeID = NoNode /\ nodeID' = AgentNode /\ runtimeResetNode' = NoNode
    BY <1>1 DEF registerNode, workerVars
  <2>2. \A k \in Loops : at[k] # "reset"
    BY <1>a, <2>1
  <2>3. at["worker"] # "act" /\ \A c \in containers : c.boot # boot
    BY <1>a, <2>1
  <2> QED
    BY <1>a, <2>1, <2>2, <2>3
<1>2. CASE checkReset(l)
  <2>1. /\ UNCHANGED <<stage, containers, boot, nodeID, runtimeResetNode>>
        /\ at[l] = "cycle" /\ nodeID # NoNode /\ resetMu = "free"
        /\ IF runtimeResetNode # nodeID
             THEN at' = [at EXCEPT ![l] = "reset"] /\ resetMu' = l
             ELSE at' = [at EXCEPT ![l] = "act"] /\ UNCHANGED resetMu
    BY <1>2 DEF checkReset, workerVars, NeedsReset
  <2>2. \A k \in Loops : at[k] # "reset"
    BY <1>a, <2>1 DEF Loops
  <2> QED
    BY <1>a, <2>1, <2>2 DEF AgentTypeOK
<1>3. CASE resetRuntimeOnce(l)
  <2>1. /\ UNCHANGED <<stage, boot, nodeID>>
        /\ at[l] = "reset" /\ resetMu = l /\ resetMu' = "free"
        /\ containers' \subseteq containers
        /\ \/ runtimeResetNode' = nodeID /\ at' = [at EXCEPT ![l] = "act"]
           \/ UNCHANGED runtimeResetNode /\ at' = [at EXCEPT ![l] = "cycle"]
    BY <1>3 DEF resetRuntimeOnce, Removed
  <2>2. nodeID # NoNode /\ runtimeResetNode # nodeID /\ at["worker"] # "act" /\ stage = "idle"
    BY <1>a, <2>1
  <2>3. \A k \in Loops : at'[k] # "reset"
    BY <1>a, <2>1 DEF AgentTypeOK
  <2>4. at'["worker"] = "act" => runtimeResetNode' = nodeID
    BY <1>a, <2>1, <2>2 DEF AgentTypeOK
  <2> QED
    BY <1>a, <2>1, <2>2, <2>3, <2>4
<1> QED
  BY <1>1, <1>2, <1>3 DEF LoopStep

\* Steps that only move a loop that is not in a reset.
LEMMA CycleResetsOnce ==
  ASSUME ResetOnce, AgentTypes, UNCHANGED <<nodeID, runtimeResetNode, resetMu, boot>>,
         \A l \in Loops : at'[l] = "reset" => at[l] = "reset",
         at'["worker"] = "act" => at["worker"] = "act",
         stage' # "idle" => at'["worker"] = "act",
         \A c \in containers' :
           \/ \E d \in containers : d.boot = c.boot
           \/ c.boot = boot /\ at["worker"] = "act"
  PROVE  ResetOnce'
<1>1. \A c \in containers' :
        /\ c.boot <= boot
        /\ c.boot = boot => nodeID # NoNode /\ runtimeResetNode = nodeID
  BY DEF ResetOnce, AgentTypes, AgentTypeOK
<1> QED
  BY <1>1 DEF ResetOnce

LEMMA ResetOnceInv ==
  ASSUME AgentInv, [AgentNext]_allVars
  PROVE  ResetOnce'
<1>a. /\ AgentTypes /\ AgentTypeOK /\ ResetOnce
      /\ "worker" \in Loops /\ "heartbeat" \in Loops /\ "worker" # "heartbeat"
  BY DEF AgentInv, AgentTypes, Loops
<1>1. CASE \E l \in Loops : LoopStep(l)
  BY <1>1, LoopsResetOnce
<1>2. CASE sendHeartbeat \/ (\E h \in heartbeats : heartbeatAnswered(h))
  <2>1. /\ UNCHANGED <<nodeID, runtimeResetNode, resetMu, stage, containers, boot>>
        /\ \A l \in Loops : at'[l] = "reset" => at[l] = "reset"
        /\ at'["worker"] = at["worker"]
    BY <1>a, <1>2 DEF sendHeartbeat, heartbeatAnswered, workerVars, AgentTypeOK
  <2> QED
    BY <1>a, <2>1, CycleResetsOnce DEF ResetOnce
<1>3. ASSUME NEW s \in Services, pollWork(s) PROVE ResetOnce'
  <2>1. /\ UNCHANGED <<nodeID, runtimeResetNode, resetMu, containers, boot>>
        /\ at["worker"] = "act" /\ stage = "idle"
        /\ \/ stage' = "begin" /\ UNCHANGED at
           \/ UNCHANGED stage /\ at' = [at EXCEPT !["worker"] = "cycle"]
    BY <1>3 DEF pollWork
  <2>2. \A l \in Loops : at'[l] = "reset" => at[l] = "reset"
    BY <1>a, <2>1 DEF AgentTypeOK
  <2>3. stage' # "idle" => at'["worker"] = "act"
    BY <2>1
  <2> QED
    BY <1>a, <2>1, <2>2, <2>3, CycleResetsOnce
<1>4. CASE runWorkItem \/ waitReadiness \/ deleteWorkItem
  <2>1. /\ UNCHANGED <<nodeID, runtimeResetNode, resetMu, at, boot>>
        /\ stage # "idle"
    BY <1>4 DEF runWorkItem, waitReadiness, deleteWorkItem, WorkerStep
  <2>2. \A c \in containers' : c \in containers \/ c.boot = boot
    <3>1. CASE runWorkItem /\ startContainer
      BY <3>1 DEF startContainer
    <3>2. CASE ~(runWorkItem /\ startContainer)
      BY <1>4, <3>2 DEF runWorkItem, startFails, refuseWorkItem, waitReadiness,
                        deleteWorkItem, OtherExecutions, ContainerOf
    <3> QED
      BY <3>1, <3>2
  <2> QED
    BY <1>a, <2>1, <2>2, CycleResetsOnce DEF ResetOnce
<1>5. CASE report \/ (\E m \in mail : lateReport(m))
  <2>1. /\ UNCHANGED <<nodeID, runtimeResetNode, resetMu, containers, boot>>
        /\ \/ UNCHANGED <<at, stage>>
           \/ stage' = "idle" /\ at' = [at EXCEPT !["worker"] = "cycle"]
    BY <1>5 DEF report, WorkerIdle, lateReport
  <2>2. /\ \A l \in Loops : at'[l] = "reset" => at[l] = "reset"
        /\ at'["worker"] = "act" => at["worker"] = "act"
        /\ stage' # "idle" => at'["worker"] = "act"
    BY <1>a, <2>1 DEF AgentTypeOK, ResetOnce
  <2> QED
    BY <1>a, <2>1, <2>2, CycleResetsOnce
<1>6. CASE Caller \/ NodeHealth \/ (\E c \in containers : WorkloadExit(c))
  <2>1. UNCHANGED <<nodeID, runtimeResetNode, resetMu, at, stage, boot>>
    BY <1>6 DEF Caller, NodeHealth, StoreOnly, WorkloadExit, workerVars
  <2>2. \A c \in containers' : \E d \in containers : d.boot = c.boot
    <3>1. CASE Caller
      <4>1. PICK ids : containers' = Retired(containers, ids)
        BY <3>1 DEF Caller
      <4>2. \A d \in Container : [d EXCEPT !.id = NoRunID].boot = d.boot
        BY DEF Container
      <4>3. ASSUME NEW c \in containers' PROVE \E d \in containers : d.boot = c.boot
        <5>1. PICK d \in containers : c = IF d.id \in ids THEN [d EXCEPT !.id = NoRunID] ELSE d
          BY <4>1 DEF Retired
        <5>2. d \in Container
          BY <1>a DEF AgentTypeOK
        <5> QED
          BY <4>2, <5>1, <5>2
      <4> QED
        BY <4>3
    <3>2. CASE NodeHealth \/ (\E c \in containers : WorkloadExit(c))
      BY <3>2 DEF NodeHealth, StoreOnly, workerVars, WorkloadExit
    <3> QED
      BY <1>6, <3>1, <3>2
  <2> QED
    BY <1>a, <2>1, <2>2, CycleResetsOnce DEF ResetOnce
<1>7. CASE Restart
  <2>1. /\ boot' = boot + 1 /\ stage' = "idle" /\ UNCHANGED containers
        /\ \A l \in Loops : at'[l] = "cycle"
    BY <1>7 DEF Restart
  <2>2. boot \in Nat /\ \A c \in containers : c.boot \in Nat /\ c.boot <= boot
    BY <1>a, FaultsAssumption DEF AgentTypeOK, Container, ResetOnce
  <2>3. \A c \in containers' : c.boot <= boot' /\ c.boot # boot'
    BY <2>1, <2>2
  <2> QED
    BY <1>a, <2>1, <2>3 DEF ResetOnce
<1>8. CASE UNCHANGED allVars
  BY <1>a, <1>8 DEF allVars, agentVars, ResetOnce
<1> QED
  BY <1>1, <1>2, <1>3, <1>4, <1>5, <1>6, <1>7, <1>8 DEF AgentNext, WorkStep

-----------------------------------------------------------------------------
(* The containers behind rows, work and late reports. *)

\* Resets by a new incarnation, and workloads that end: what leaves the node is lost.
LEMMA ContainersMove ==
  ASSUME WorkInv, UNCHANGED <<services, runs, item, stage, outcome, mail>>,
         containers' \subseteq containers, lost \subseteq lost',
         \A c \in containers : c \in containers' \/ c \in lost'
  PROVE  WorkInv'
<1>1. \A s, id, g : /\ Has(lost, s, id, g) => Has(lost', s, id, g)
                    /\ Has(containers, s, id, g) =>
                         Has(containers', s, id, g) \/ Has(lost', s, id, g)
  BY DEF Has
<1>2. OrphanItem' /\ CurrentItem'
  BY DEF WorkInv, OrphanItem, CurrentItem, Mine
<1>3. RowsAreServed'
  BY <1>1 DEF WorkInv, RowsAreServed
<1>4. WorkIsServed'
  BY <1>1 DEF WorkInv, WorkIsServed
<1>5. MailIsServed'
  BY <1>1 DEF WorkInv, MailIsServed
<1>6. StoppedIsGone'
  BY DEF WorkInv, StoppedIsGone, ContainerOf
<1> QED
  BY <1>2, <1>3, <1>4, <1>5, <1>6 DEF WorkInv

LEMMA RestartWork ==
  ASSUME WorkInv, Restart
  PROVE  WorkInv'
<1>1. /\ UNCHANGED <<services, runs, outcome, containers, mail, lost>>
      /\ item' = NoItem /\ stage' = "idle"
  BY DEF Restart, vars
<1>2. \A s, id, g : /\ ~WillStop(item', stage', s, id, g)
                    /\ ~WillReport(item', stage', outcome', s, id, g)
  BY <1>1 DEF WillStop, WillReport
<1>3. OrphanItem' /\ CurrentItem' /\ StoppedIsGone' /\ WorkIsServed'
  BY <1>1 DEF OrphanItem, CurrentItem, StoppedIsGone, WorkIsServed
<1>4. RowsAreServed'
  BY <1>1, <1>2 DEF WorkInv, RowsAreServed
<1>5. MailIsServed'
  BY <1>1, <1>2 DEF WorkInv, MailIsServed
<1> QED
  BY <1>3, <1>4, <1>5 DEF WorkInv

\* What a row that has moved says of the containers it names.
LEMMA MovedRow ==
  ASSUME IInv, NEW t \in Services, RowMoves(t)
  PROVE  /\ \A g \in Generations : Names(runs'[t], g) => Names(runs[t], g)
         /\ CountsOn(runs'[t], services'[t].desired) =>
              /\ CountsOn(runs[t], services[t].desired)
              /\ runs'[t].id = runs[t].id /\ runs'[t].container = runs[t].container
         /\ runs'[t].status = "deploying" => Kept(t)
         /\ runs'[t].status = "running" => Kept(t)
         /\ runs'[t].status = "pending" =>
              Kept(t) \/ runs[t].status = "running" \/ runs'[t].container = 0
         /\ \/ runs'[t].id = runs[t].id
            \/ /\ runs'[t].id \in NewIDs
               /\ runs'[t].status = "pending" /\ runs'[t].container = 0
            \/ runs'[t].id = NoRunID /\ runs'[t].status = "absent"
         /\ runs[t].id \notin NewIDs
<1>1. runs[t] \in RunRow /\ runs[t].container \in Nat
  BY BoundsAssumption DEF IInv, TypeOK
<1>2. runs[t].id \notin NewIDs
  BY DEF NewIDs
<1>3. CASE Kept(t)
  BY <1>2, <1>3 DEF Kept, CountsOn
<1>4. CASE Failed(t)
  <2>1. runs'[t].status = "failed" /\ runs'[t].id = runs[t].id
    BY <1>1, <1>4 DEF Failed
  <2> QED
    BY <1>2, <2>1 DEF Names, CountsOn
<1>5. CASE Repinned(t)
  BY <1>2, <1>5 DEF Repinned, Names, CountsOn
<1>6. CASE Renewed(t)
  BY <1>2, <1>6 DEF Renewed, Names, CountsOn
<1>7. CASE Dropped(t)
  BY <1>2, <1>7 DEF Dropped, Names, CountsOn, NoRun
<1> QED
  BY <1>3, <1>4, <1>5, <1>6, <1>7 DEF RowMoves

LEMMA RowsMove ==
  ASSUME AgentInv, \A t \in Services : RowMoves(t),
         UNCHANGED <<item, stage, outcome, mail>>,
         \A w \in Held : w.id \notin NewIDs,
         \A s, id, g : id \notin NewIDs =>
           /\ Has(lost, s, id, g) => Has(lost', s, id, g)
           /\ Has(containers, s, id, g) => Has(containers', s, id, g),
         \A c \in containers' : \E d \in containers :
           d.service = c.service /\ d.generation = c.generation
  PROVE  WorkInv'
<1>a. /\ IInv /\ WorkInv
      /\ \A m \in mail : m.item \in WorkItem /\ m.item.id \notin NewIDs
      /\ item # NoItem => item \in WorkItem /\ item.id \notin NewIDs
  BY NoItemIsNoWork DEF AgentInv, AgentTypes, AgentTypeOK, Held
<1>1. \A w \in WorkItem :
        w.id \notin NewIDs /\ Mine(w, runs') => Mine(w, runs)
  BY <1>a, MovedRow, NullAssumption DEF Mine
<1>2. OrphanItem'
  <2>1. SUFFICES ASSUME item # NoItem, ~Mine(item, runs')
                 PROVE  /\ runs'[item.service].status \notin {"deploying", "running"}
                        /\ runs'[item.service].status = "pending" =>
                             runs'[item.service].container = 0
                        /\ \A m \in mail : m.item.service = item.service
                             /\ Mine(m.item, runs') => m.status # "running"
    BY DEF OrphanItem
  <2>2. item.service \in Services /\ item \in WorkItem
    BY <1>a, <2>1
  <2>3. CASE Mine(item, runs)
    <3>1. runs'[item.service].id # runs[item.service].id
      BY <2>1, <2>3 DEF Mine
    <3>2. \/ runs'[item.service].status = "pending" /\ runs'[item.service].container = 0
          \/ runs'[item.service].status = "absent"
      BY <1>a, <2>2, <3>1, MovedRow
    <3>3. \A m \in mail : m.item.service = item.service => ~Mine(m.item, runs')
      BY <1>1, <1>a, <2>1, <2>3 DEF Mine
    <3> QED
      BY <3>2, <3>3
  <2>4. CASE ~Mine(item, runs)
    <3>1. /\ runs[item.service].status \notin {"deploying", "running"}
          /\ runs[item.service].status = "pending" => runs[item.service].container = 0
      BY <1>a, <2>1, <2>4 DEF WorkInv, OrphanItem
    <3>2. /\ runs'[item.service].status \notin {"deploying", "running"}
          /\ runs'[item.service].status = "pending" => runs'[item.service].container = 0
      BY <1>a, <2>2, <3>1, MovedRow DEF Kept
    <3>3. \A m \in mail : m.item.service = item.service /\ Mine(m.item, runs') =>
            m.status # "running"
      BY <1>1, <1>a, <2>1, <2>4 DEF WorkInv, OrphanItem
    <3> QED
      BY <3>2, <3>3
  <2> QED
    BY <2>3, <2>4
<1>3. CurrentItem'
  BY <1>1, <1>a, MovedRow DEF WorkInv, CurrentItem, Kept
<1>4. RowsAreServed'
  <2>1. SUFFICES ASSUME NEW s \in Services, CountsOn(runs'[s], services'[s].desired)
                 PROVE  \/ Has(lost', s, runs'[s].id, runs'[s].container)
                        \/ /\ Has(containers', s, runs'[s].id, runs'[s].container)
                           /\ ~WillStop(item, stage, s, runs'[s].id, runs'[s].container)
    BY DEF RowsAreServed
  <2>2. /\ CountsOn(runs[s], services[s].desired) /\ runs[s].id \notin NewIDs
        /\ runs'[s].id = runs[s].id /\ runs'[s].container = runs[s].container
    BY <1>a, <2>1, MovedRow
  <2> QED
    BY <1>a, <2>2 DEF WorkInv, RowsAreServed
<1>5. WorkIsServed'
  <2>1. \A g \in Generations : item # NoItem =>
          (Names(runs'[item.service], g) => Names(runs[item.service], g))
    BY <1>a, MovedRow
  <2> QED
    BY <1>1, <1>a, <2>1 DEF WorkInv, WorkIsServed
<1>6. MailIsServed'
  <2>1. \A m \in mail : Names(runs'[m.item.service], m.item.generation) =>
                          Names(runs[m.item.service], m.item.generation)
    BY <1>a, MovedRow
  <2>2. SUFFICES ASSUME NEW m \in mail, m.status = "running", Mine(m.item, runs')
                 PROVE
      \/ Has(lost', m.item.service, m.item.id, m.item.generation)
      \/ /\ Has(containers', m.item.service, m.item.id, m.item.generation)
         /\ ~Names(runs'[m.item.service], m.item.generation)
         /\ ~WillStop(item, stage, m.item.service, m.item.id, m.item.generation)
         /\ ~WillReport(item, stage, outcome, m.item.service, m.item.id, m.item.generation)
         /\ \A o \in mail :
              /\ o.status = "running" /\ o.item.service = m.item.service
              /\ o.item.id = m.item.id /\ o.item.generation = m.item.generation
              => o = m
    BY DEF MailIsServed
  <2>3. Mine(m.item, runs) /\ m.item.id \notin NewIDs
    BY <1>1, <1>a, <2>2
  <2> QED
    BY <1>a, <2>1, <2>2, <2>3 DEF WorkInv, MailIsServed
<1>7. StoppedIsGone'
  BY <1>a DEF WorkInv, StoppedIsGone, ContainerOf
<1> QED
  BY <1>2, <1>3, <1>4, <1>5, <1>6, <1>7 DEF WorkInv

LEMMA CallerWork ==
  ASSUME AgentInv, Caller
  PROVE  WorkInv'
<1>1. IInv /\ containers \subseteq Container /\ lost \subseteq Container
  BY DEF AgentInv, AgentTypes, AgentTypeOK
<1>2. /\ ServiceStep /\ UNCHANGED <<item, stage, outcome, mail>>
      /\ \A w \in Held : w.id \notin NewIDs
      /\ containers' = Retired(containers, NewIDs) /\ lost' = Retired(lost, NewIDs)
  BY DEF Caller, NewIDs
<1>3. \A t \in Services : RowMoves(t)
  BY <1>1, <1>2, CallerMovesRows DEF RowMoves
<1>4. \A s, id, g : id \notin NewIDs =>
        /\ Has(lost, s, id, g) => Has(lost', s, id, g)
        /\ Has(containers, s, id, g) => Has(containers', s, id, g)
  BY <1>2 DEF Has, Retired
<1>5. ASSUME NEW c \in containers'
      PROVE  \E d \in containers : d.service = c.service /\ d.generation = c.generation
  <2>1. PICK d \in containers : c = IF d.id \in NewIDs THEN [d EXCEPT !.id = NoRunID] ELSE d
    BY <1>2 DEF Retired
  <2>2. d \in Container
    BY <1>1
  <2> QED
    BY <2>1, <2>2 DEF Container
<1> QED
  BY <1>2, <1>3, <1>4, <1>5, RowsMove

LEMMA HealthWork ==
  ASSUME AgentInv, NodeHealth
  PROVE  WorkInv'
<1>1. /\ MarkStaleNodeHeartbeatsOffline({AgentNode})
      /\ UNCHANGED <<item, stage, outcome, mail, containers, lost>>
  BY DEF NodeHealth, StoreOnly, workerVars
<1>2. \A t \in Services : Kept(t) \/ Failed(t)
  BY <1>1, OfflineMovesRows DEF AgentInv
<1>3. NewIDs = {}
  <2>1. \A t \in Services : runs'[t].id = runs[t].id
    <3> TAKE t \in Services
    <3>1. runs[t] \in RunRow
      BY DEF AgentInv, IInv, TypeOK
    <3> QED
      BY <1>2, <3>1 DEF Kept, Failed
  <2> QED
    BY <2>1 DEF NewIDs
<1>4. \A t \in Services : RowMoves(t)
  BY <1>2 DEF RowMoves
<1> QED
  BY <1>1, <1>3, <1>4, RowsMove

\* A poll hands out the row it claims: the item names the row and what the row counts on.
LEMMA PollWorkWork ==
  ASSUME AgentInv, NEW s \in Services, pollWork(s)
  PROVE  WorkInv'
<1>a. /\ IInv /\ WorkInv /\ AgentTypes /\ AgentTypeOK
      /\ item = NoItem /\ stage = "idle"
      /\ runs \in [Services -> RunRow] /\ runs[s] \in RunRow
  BY DEF AgentInv, AgentTypes, AgentTypeOK, IInv, TypeOK, pollWork
<1>1. PICK action \in {"run", "delete"} :
           /\ runs[s].status = "pending"
           /\ services[s].desired = (IF action = "run" THEN "active" ELSE "deleted")
           /\ runs' = [runs EXCEPT ![s] = [runs[s] EXCEPT !.status = "deploying",
                                                          !.node = AgentNode]]
           /\ UNCHANGED services
           /\ \/ item' = Claimed(s, action) /\ stage' = "begin"
              \/ UNCHANGED <<item, stage>>
           /\ UNCHANGED <<outcome, containers, mail, lost>>
  BY PollWorkEffect
<1>2. /\ runs'[s].status = "deploying" /\ runs'[s].id = runs[s].id
      /\ runs'[s].container = runs[s].container /\ runs'[s].generation = runs[s].generation
      /\ \A t \in Services \ {s} : runs'[t] = runs[t]
  BY <1>a, <1>1
<1>3. /\ Claimed(s, action) \in WorkItem
      /\ Claimed(s, action).service = s /\ Claimed(s, action).id = runs[s].id
      /\ Claimed(s, action).action = action
      /\ Claimed(s, action).generation = runs[s].generation
      /\ Claimed(s, action).container = runs[s].container
  BY <1>a, <1>1, ClaimedType
<1> HIDE DEF Claimed
<1>4. \A t \in Services : /\ runs'[t].id = runs[t].id
                          /\ \A g : Names(runs'[t], g) <=> Names(runs[t], g)
  BY <1>1, <1>2 DEF Names
<1>5. \A w \in WorkItem : Mine(w, runs') <=> Mine(w, runs)
  BY <1>4 DEF Mine
<1>6. \A m \in mail : m.item \in WorkItem
  BY <1>a DEF AgentTypeOK
<1>7. item' # NoItem =>
        /\ item' = Claimed(s, action) /\ stage' = "begin" /\ Mine(item', runs')
  BY <1>a, <1>1, <1>2, <1>3 DEF Mine
<1>8. \A t, id, g : ~WillReport(item', stage', outcome', t, id, g)
  BY <1>a, <1>1 DEF WillReport
<1>9. OrphanItem'
  BY <1>7 DEF OrphanItem
<1>10. CurrentItem'
  BY <1>1, <1>2, <1>3, <1>7 DEF CurrentItem
<1>11. RowsAreServed'
  <2>1. SUFFICES ASSUME NEW t \in Services, CountsOn(runs'[t], services[t].desired)
                 PROVE  \/ Has(lost, t, runs'[t].id, runs'[t].container)
                        \/ /\ Has(containers, t, runs'[t].id, runs'[t].container)
                           /\ ~WillStop(item', stage', t, runs'[t].id, runs'[t].container)
    BY <1>1 DEF RowsAreServed
  <2>2. /\ CountsOn(runs[t], services[t].desired)
        /\ runs'[t].id = runs[t].id /\ runs'[t].container = runs[t].container
    BY <1>1, <1>2, <2>1 DEF CountsOn
  <2>3. \/ Has(lost, t, runs[t].id, runs[t].container)
        \/ Has(containers, t, runs[t].id, runs[t].container)
    BY <1>a, <2>2 DEF WorkInv, RowsAreServed
  <2>4. ~WillStop(item', stage', t, runs'[t].id, runs'[t].container)
    <3>1. SUFFICES ASSUME WillStop(item', stage', t, runs'[t].id, runs'[t].container)
                   PROVE  FALSE
      OBVIOUS
    <3>2. item' # NoItem /\ item'.action = "delete" /\ item'.service = t
      BY <3>1 DEF WillStop
    <3>3. t = s /\ services[s].desired = "deleted"
      BY <1>1, <1>3, <1>7, <3>2
    <3> QED
      BY <1>2, <2>1, <3>3 DEF CountsOn
  <2> QED
    BY <2>2, <2>3, <2>4
<1>12. WorkIsServed'
  BY <1>8 DEF WorkIsServed
<1>13. MailIsServed'
  <2>1. SUFFICES ASSUME NEW m \in mail, m.status = "running", Mine(m.item, runs')
                 PROVE
      \/ Has(lost, m.item.service, m.item.id, m.item.generation)
      \/ /\ Has(containers, m.item.service, m.item.id, m.item.generation)
         /\ ~Names(runs'[m.item.service], m.item.generation)
         /\ ~WillStop(item', stage', m.item.service, m.item.id, m.item.generation)
         /\ ~WillReport(item', stage', outcome', m.item.service, m.item.id, m.item.generation)
         /\ \A o \in mail :
              /\ o.status = "running" /\ o.item.service = m.item.service
              /\ o.item.id = m.item.id /\ o.item.generation = m.item.generation
              => o = m
    BY <1>1 DEF MailIsServed
  <2>2. Mine(m.item, runs) /\ m.item.service \in Services
    BY <1>5, <1>6, <2>1
  <2>3. WillStop(item', stage', m.item.service, m.item.id, m.item.generation)
          => Names(runs[m.item.service], m.item.generation)
    BY <1>1, <1>3, <1>7 DEF WillStop, Names
  <2> QED
    BY <1>4, <1>a, <1>8, <2>1, <2>2, <2>3 DEF WorkInv, MailIsServed
<1>14. StoppedIsGone'
  BY <1>a, <1>1 DEF StoppedIsGone
<1> QED
  BY <1>9, <1>10, <1>11, <1>12, <1>13, <1>14 DEF WorkInv

\* The worker ends with the container of generation g that it was responsible for: it
\* stops it, or gives up on it.
LEMMA WorkerEnds ==
  ASSUME AgentInv, NEW g, item # NoItem,
         \/ WillReport(item, stage, outcome, item.service, item.id, g)
         \/ WillStop(item, stage, item.service, item.id, g),
         UNCHANGED <<services, runs, item, mail, lost>>,
         \A s, id, h : Has(containers, s, id, h) =>
           Has(containers', s, id, h) \/ (s = item.service /\ h = g),
         stage' = "report", outcome' # "running"
  PROVE  OrphanItem' /\ CurrentItem' /\ RowsAreServed' /\ WorkIsServed' /\ MailIsServed'
<1>a. WorkInv
  BY DEF AgentInv
<1>1. \A s, id, h : /\ ~WillStop(item, stage', s, id, h)
                    /\ ~WillReport(item, stage', outcome', s, id, h)
  BY DEF WillStop, WillReport
<1>2. OrphanItem' /\ CurrentItem'
  BY <1>a DEF WorkInv, OrphanItem, CurrentItem, Mine
<1>3. RowsAreServed'
  <2>1. SUFFICES ASSUME NEW s \in Services, CountsOn(runs[s], services[s].desired)
                 PROVE  \/ Has(lost, s, runs[s].id, runs[s].container)
                        \/ Has(containers', s, runs[s].id, runs[s].container)
    BY <1>1 DEF RowsAreServed
  <2>2. \/ Has(lost, s, runs[s].id, runs[s].container)
        \/ /\ Has(containers, s, runs[s].id, runs[s].container)
           /\ ~WillStop(item, stage, s, runs[s].id, runs[s].container)
    BY <1>a, <2>1 DEF WorkInv, RowsAreServed
  <2>3. CASE s = item.service /\ runs[s].container = g
    <3>1. Mine(item, runs)
      BY <1>a, <2>1, <2>2, <2>3 DEF WorkInv, OrphanItem, CountsOn
    <3>2. Names(runs[s], g) /\ runs[s].id = item.id
      BY <2>1, <2>3, <3>1 DEF Names, CountsOn, Mine
    <3>3. CASE WillStop(item, stage, item.service, item.id, g)
      BY <2>2, <2>3, <3>2, <3>3
    <3>4. CASE WillReport(item, stage, outcome, item.service, item.id, g)
      <4>1. g = item.generation
        BY <3>4 DEF WillReport
      <4> QED
        BY <1>a, <2>3, <3>1, <3>2, <3>4, <4>1 DEF WorkInv, WorkIsServed
    <3> QED
      BY <3>3, <3>4
  <2>4. CASE ~(s = item.service /\ runs[s].container = g)
    BY <2>2, <2>4
  <2> QED
    BY <2>3, <2>4
<1>4. WorkIsServed'
  BY <1>1 DEF WorkIsServed
<1>5. MailIsServed'
  <2>1. SUFFICES ASSUME NEW m \in mail, m.status = "running", Mine(m.item, runs)
                 PROVE
      \/ Has(lost, m.item.service, m.item.id, m.item.generation)
      \/ /\ Has(containers', m.item.service, m.item.id, m.item.generation)
         /\ ~Names(runs[m.item.service], m.item.generation)
         /\ \A o \in mail :
              /\ o.status = "running" /\ o.item.service = m.item.service
              /\ o.item.id = m.item.id /\ o.item.generation = m.item.generation
              => o = m
    BY <1>1 DEF MailIsServed
  <2>2.
      \/ Has(lost, m.item.service, m.item.id, m.item.generation)
      \/ /\ Has(containers, m.item.service, m.item.id, m.item.generation)
         /\ ~Names(runs[m.item.service], m.item.generation)
         /\ ~WillStop(item, stage, m.item.service, m.item.id, m.item.generation)
         /\ ~WillReport(item, stage, outcome, m.item.service, m.item.id, m.item.generation)
         /\ \A o \in mail :
              /\ o.status = "running" /\ o.item.service = m.item.service
              /\ o.item.id = m.item.id /\ o.item.generation = m.item.generation
              => o = m
    BY <1>a, <2>1 DEF WorkInv, MailIsServed
  <2>3. CASE m.item.service = item.service /\ m.item.generation = g
    <3>1. Mine(item, runs)
      BY <1>a, <2>1, <2>3 DEF WorkInv, OrphanItem
    <3>2. m.item.id = item.id
      BY <2>1, <2>3, <3>1 DEF Mine
    <3> QED
      BY <2>2, <2>3, <3>2
  <2>4. CASE ~(m.item.service = item.service /\ m.item.generation = g)
    BY <2>2, <2>4
  <2> QED
    BY <2>3, <2>4
<1> QED
  BY <1>2, <1>3, <1>4, <1>5

LEMMA DeleteWorkItemWork ==
  ASSUME AgentInv, deleteWorkItem
  PROVE  WorkInv'
<1>1. /\ stage = "begin" /\ item.action = "delete" /\ item # NoItem
      /\ UNCHANGED <<services, runs, item, mail, lost>>
      /\ stage' = "report" /\ outcome' \in {"succeeded", "failed"}
      /\ \/ containers' = containers \ ContainerOf(item, item.container)
         \/ outcome' = "failed" /\ UNCHANGED containers
  BY DEF deleteWorkItem, WorkerStep, vars, Reporting, AgentInv, AgentTypes, AgentTypeOK
<1>2. WillStop(item, stage, item.service, item.id, item.container)
  BY <1>1 DEF WillStop
<1>3. \A s, id, h : Has(containers, s, id, h) =>
        Has(containers', s, id, h) \/ (s = item.service /\ h = item.container)
  BY <1>1 DEF Has, ContainerOf
<1>4. StoppedIsGone'
  BY <1>1 DEF StoppedIsGone, ContainerOf
<1> QED
  BY <1>1, <1>2, <1>3, <1>4, WorkerEnds DEF WorkInv

LEMMA WaitReadinessWork ==
  ASSUME AgentInv, waitReadiness
  PROVE  WorkInv'
<1>1. /\ stage = "started" /\ item.action = "run" /\ item # NoItem
      /\ UNCHANGED <<services, runs, item, mail, lost>> /\ stage' = "report"
      /\ \/ outcome' = "running" /\ UNCHANGED containers
         \/ /\ outcome' = "failed"
            /\ \/ containers' = containers \ ContainerOf(item, item.generation)
               \/ UNCHANGED containers
  BY DEF waitReadiness, WorkerStep, vars, Reporting, AgentInv, AgentTypes, AgentTypeOK
<1>2. WillReport(item, stage, outcome, item.service, item.id, item.generation)
  BY <1>1 DEF WillReport
<1>3. StoppedIsGone'
  BY <1>1 DEF StoppedIsGone
<1>4. CASE outcome' = "failed"
  <2>1. \A s, id, h : Has(containers, s, id, h) =>
          Has(containers', s, id, h) \/ (s = item.service /\ h = item.generation)
    BY <1>1 DEF Has, ContainerOf
  <2> QED
    BY <1>1, <1>2, <1>3, <1>4, <2>1, WorkerEnds DEF WorkInv
<1>5. CASE outcome' = "running" /\ UNCHANGED containers
  <2>1. \A s, id, h :
          /\ WillStop(item, stage', s, id, h) <=> WillStop(item, stage, s, id, h)
          /\ WillReport(item, stage', outcome', s, id, h)
               <=> WillReport(item, stage, outcome, s, id, h)
    BY <1>1, <1>5 DEF WillStop, WillReport
  <2>a. WorkInv
    BY DEF AgentInv
  <2>2. OrphanItem' /\ CurrentItem'
    BY <1>1, <2>a DEF WorkInv, OrphanItem, CurrentItem, Mine
  <2>3. RowsAreServed'
    BY <1>1, <1>5, <2>1, <2>a DEF WorkInv, RowsAreServed
  <2>4. WorkIsServed'
    BY <1>1, <1>5, <2>1, <2>a DEF WorkInv, WorkIsServed
  <2>5. MailIsServed'
    BY <1>1, <1>5, <2>1, <2>a DEF WorkInv, MailIsServed
  <2> QED
    BY <1>3, <2>2, <2>3, <2>4, <2>5 DEF WorkInv
<1> QED
  BY <1>1, <1>4, <1>5

LEMMA RunWorkItemWork ==
  ASSUME AgentInv, runWorkItem
  PROVE  WorkInv'
<1>a. IInv /\ WorkInv /\ AgentTypes /\ AgentTypeOK
  BY DEF AgentInv, AgentTypes
<1>1. /\ stage = "begin" /\ item.action = "run" /\ item \in WorkItem /\ item # NoItem
      /\ UNCHANGED <<services, runs, item, mail, lost>>
      /\ startContainer \/ startFails \/ refuseWorkItem
  BY <1>a DEF runWorkItem, WorkerStep, vars, AgentTypeOK
<1>2. \/ stage' = "started"
      \/ stage' = "report" /\ outcome' = "failed"
  BY <1>1 DEF startContainer, startFails, refuseWorkItem, Reporting
<1>3. \A s, id, h : ~WillStop(item, stage', s, id, h)
  BY <1>1 DEF WillStop
\* Containers of another execution go only with a row that has none.
<1>4. \A s, id, h : Has(containers, s, id, h) =>
        Has(containers', s, id, h) \/ (s = item.service /\ id # item.id)
  BY <1>1 DEF startContainer, startFails, refuseWorkItem, OtherExecutions, Has
<1>5. stage' = "started" =>
        /\ Has(containers', item.service, item.id, item.generation)
        /\ ~Has(containers, item.service, item.id, item.generation)
  <2> DEFINE new == [service |-> item.service, id |-> item.id,
                     generation |-> item.generation, boot |-> boot]
  <2>1. stage' = "started" => startContainer
    BY <1>1 DEF startFails, refuseWorkItem, Reporting
  <2>2. startContainer => new \in containers'
    BY DEF startContainer
  <2>3. startContainer => ~Has(containers, item.service, item.id, item.generation)
    BY DEF startContainer, NameTaken, ContainerOf, OtherExecutions, Has
  <2>4. /\ new.service = item.service /\ new.id = item.id
        /\ new.generation = item.generation
    OBVIOUS
  <2> HIDE DEF new
  <2>5. startContainer => Has(containers', item.service, item.id, item.generation)
    BY <2>2, <2>4 DEF Has
  <2> QED
    BY <2>1, <2>3, <2>5
<1>6. OrphanItem' /\ CurrentItem' /\ StoppedIsGone'
  BY <1>1, <1>a DEF WorkInv, OrphanItem, CurrentItem, StoppedIsGone, Mine
<1>7. RowsAreServed'
  <2>1. SUFFICES ASSUME NEW s \in Services, CountsOn(runs[s], services[s].desired)
                 PROVE  \/ Has(lost, s, runs[s].id, runs[s].container)
                        \/ Has(containers', s, runs[s].id, runs[s].container)
    BY <1>1, <1>3 DEF RowsAreServed
  <2>2. s = item.service => runs[s].id = item.id
    BY <1>1, <1>a, <2>1, BoundsAssumption
       DEF WorkInv, OrphanItem, CountsOn, Mine
  <2> QED
    BY <1>4, <1>a, <2>1, <2>2 DEF WorkInv, RowsAreServed
<1>8. WorkIsServed'
  <2>1. SUFFICES ASSUME Mine(item, runs), stage' = "started",
                        Names(runs[item.service], item.generation)
                 PROVE  Has(lost, item.service, item.id, item.generation)
    BY <1>1, <1>2, <1>5 DEF WorkIsServed, WillReport
  <2> DEFINE s == item.service
  <2>2. /\ runs[s].id = item.id /\ runs[s].container = item.generation
        /\ item.generation > 0 /\ s \in Services
        /\ runs[s].status \in {"pending", "deploying", "running"}
    BY <1>1, <2>1 DEF Mine, Names
  <2>3. runs[s].status = "deploying" => services[s].desired = "active"
    BY <1>1, <1>a, <2>1 DEF WorkInv, CurrentItem
  <2>4. CountsOn(runs[s], services[s].desired)
    BY <2>2, <2>3 DEF CountsOn
  <2> QED
    BY <1>5, <1>a, <2>1, <2>2, <2>4 DEF WorkInv, RowsAreServed
<1>9. MailIsServed'
  <2>1. SUFFICES ASSUME NEW m \in mail, m.status = "running", Mine(m.item, runs)
                 PROVE
      \/ Has(lost, m.item.service, m.item.id, m.item.generation)
      \/ /\ Has(containers', m.item.service, m.item.id, m.item.generation)
         /\ ~Names(runs[m.item.service], m.item.generation)
         /\ ~WillReport(item, stage', outcome', m.item.service, m.item.id, m.item.generation)
         /\ \A o \in mail :
              /\ o.status = "running" /\ o.item.service = m.item.service
              /\ o.item.id = m.item.id /\ o.item.generation = m.item.generation
              => o = m
    BY <1>1, <1>3 DEF MailIsServed
  <2>2. m.item.service = item.service => m.item.id = item.id
    BY <1>1, <1>a, <2>1 DEF WorkInv, OrphanItem, Mine
  <2>3. WillReport(item, stage', outcome', m.item.service, m.item.id, m.item.generation)
          => ~Has(containers, m.item.service, m.item.id, m.item.generation)
    BY <1>2, <1>5 DEF WillReport
  <2> QED
    BY <1>4, <1>a, <2>1, <2>2, <2>3 DEF WorkInv, MailIsServed
<1> QED
  BY <1>6, <1>7, <1>8, <1>9 DEF WorkInv

\* A report changes its own row only, and lets it name no container but the reported one.
LEMMA ReportedRow ==
  ASSUME IInv, AgentTypes, NEW w \in WorkItem, w.node = AgentNode,
         NEW status \in Outcomes(w.action), UpdateExecutionFromNodeReport(w, status),
         NEW t \in Services
  PROVE  /\ UNCHANGED services
         /\ runs'[t].id = runs[t].id \/ runs'[t].id = NoRunID
         /\ runs'[t].status \in {"pending", "deploying", "running"} =>
              \/ runs'[t] = runs[t]
              \/ t = w.service /\ StartsRunning(w, status)
         /\ runs'[t] # runs[t] =>
              t = w.service /\ Mine(w, runs) /\ runs[t].status = "deploying"
<1>1. /\ UNCHANGED services /\ \A u \in Services : u # w.service => runs'[u] = runs[u]
      /\ Settles(w, status) \/ StartsRunning(w, status) \/ IsRefused(w)
  BY ReportMovesRow
<1>2. CASE t # w.service
  BY <1>1, <1>2
<1>3. CASE t = w.service
  BY <1>1, <1>3 DEF Settles, StartsRunning, IsRefused, Mine
<1> QED
  BY <1>2, <1>3

LEMMA MailedWork ==
  ASSUME AgentInv, report, UNCHANGED vars,
         mail' = mail \cup {[item |-> item, status |-> outcome]}
  PROVE  MailIsServed'
<1> DEFINE new == [item |-> item, status |-> outcome]
<1>a. WorkInv
  BY DEF AgentInv
<1>1. /\ stage = "report" /\ item \in WorkItem /\ item # NoItem /\ item' = NoItem
      /\ outcome = "running" => item.action = "run"
      /\ UNCHANGED <<runs, lost, containers>>
  BY DEF AgentInv, AgentTypes, AgentTypeOK, Outcomes, report, WorkerIdle, vars
<1>2. new.item = item /\ new.status = outcome /\ mail' = mail \cup {new}
  OBVIOUS
<1> HIDE DEF new
<1>3. \A s, id, g : ~WillStop(item', stage', s, id, g) /\ ~WillReport(item', stage', outcome', s, id, g)
  BY <1>1 DEF WillStop, WillReport
<1>4. outcome = "running" =>
        WillReport(item, stage, outcome, item.service, item.id, item.generation)
  BY <1>1 DEF WillReport
<1>5. SUFFICES ASSUME NEW m \in mail', m.status = "running", Mine(m.item, runs)
               PROVE
      \/ Has(lost, m.item.service, m.item.id, m.item.generation)
      \/ /\ Has(containers, m.item.service, m.item.id, m.item.generation)
         /\ ~Names(runs[m.item.service], m.item.generation)
         /\ \A o \in mail' :
              /\ o.status = "running" /\ o.item.service = m.item.service
              /\ o.item.id = m.item.id /\ o.item.generation = m.item.generation
              => o = m
  BY <1>1, <1>3 DEF MailIsServed
<1>6. CASE m = new
  <2>1. /\ item.service = m.item.service /\ item.id = m.item.id
        /\ item.generation = m.item.generation /\ outcome = "running" /\ Mine(item, runs)
    BY <1>2, <1>5, <1>6
  <2>2. \/ Has(lost, item.service, item.id, item.generation)
        \/ /\ Has(containers, item.service, item.id, item.generation)
           /\ ~Names(runs[item.service], item.generation)
    BY <1>1, <1>4, <1>a, <2>1 DEF WorkInv, WorkIsServed
  <2>3. ASSUME NEW o \in mail, o.status = "running", o.item.service = item.service,
               o.item.id = item.id, o.item.generation = item.generation
        PROVE  Has(lost, item.service, item.id, item.generation)
    <3>1. Mine(o.item, runs)
      BY <2>1, <2>3 DEF Mine
    <3> QED
      BY <1>4, <1>a, <2>1, <2>3, <3>1 DEF WorkInv, MailIsServed
  <2> QED
    BY <1>2, <1>6, <2>1, <2>2, <2>3
<1>7. CASE m \in mail
  <2>1. \/ Has(lost, m.item.service, m.item.id, m.item.generation)
        \/ /\ Has(containers, m.item.service, m.item.id, m.item.generation)
           /\ ~Names(runs[m.item.service], m.item.generation)
           /\ ~WillReport(item, stage, outcome, m.item.service, m.item.id, m.item.generation)
           /\ \A o \in mail :
                /\ o.status = "running" /\ o.item.service = m.item.service
                /\ o.item.id = m.item.id /\ o.item.generation = m.item.generation
                => o = m
    BY <1>5, <1>7, <1>a DEF WorkInv, MailIsServed
  <2> QED
    BY <1>2, <1>4, <2>1
<1> QED
  BY <1>2, <1>5, <1>6, <1>7

LEMMA ReportWork ==
  ASSUME AgentInv, report
  PROVE  WorkInv'
<1>a. IInv /\ WorkInv /\ AgentTypes /\ AgentTypeOK
  BY DEF AgentInv, AgentTypes
<1>1. /\ stage = "report" /\ item \in WorkItem /\ item # NoItem /\ item.node = AgentNode
      /\ outcome \in Outcomes(item.action)
      /\ outcome = "running" => item.action = "run"
      /\ item' = NoItem /\ stage' = "idle" /\ UNCHANGED <<lost, containers>>
  BY <1>a DEF AgentTypes, AgentTypeOK, Outcomes, report, WorkerIdle
<1>2. \A s, id, g : ~WillStop(item', stage', s, id, g) /\ ~WillReport(item', stage', outcome', s, id, g)
  BY <1>1 DEF WillStop, WillReport
<1>3. OrphanItem' /\ CurrentItem' /\ WorkIsServed' /\ StoppedIsGone'
  BY <1>1 DEF OrphanItem, CurrentItem, WorkIsServed, StoppedIsGone
<1>4. CASE UNCHANGED vars /\ mail' = mail \cup {[item |-> item, status |-> outcome]}
  <2>1. RowsAreServed'
    BY <1>1, <1>2, <1>4, <1>a DEF WorkInv, RowsAreServed, vars
  <2> QED
    BY <1>3, <1>4, <2>1, MailedWork DEF WorkInv
<1>5. CASE UpdateExecutionFromNodeReport(item, outcome) /\ UNCHANGED mail
  <2>1. StartsRunning(item, outcome) =>
          /\ Mine(item, runs)
          /\ WillReport(item, stage, outcome, item.service, item.id, item.generation)
          /\ runs'[item.service].id = item.id
          /\ runs'[item.service].container = item.generation
    BY <1>1 DEF StartsRunning, WillReport
  <2>2. RowsAreServed'
    <3>1. SUFFICES ASSUME NEW s \in Services, CountsOn(runs'[s], services'[s].desired)
                   PROVE  \/ Has(lost, s, runs'[s].id, runs'[s].container)
                          \/ Has(containers, s, runs'[s].id, runs'[s].container)
      BY <1>1, <1>2 DEF RowsAreServed
    <3>2. \/ runs'[s] = runs[s]
          \/ s = item.service /\ StartsRunning(item, outcome)
      BY <1>1, <1>5, <1>a, <3>1, ReportedRow DEF CountsOn
    <3>3. CASE runs'[s] = runs[s]
      <4>1. CountsOn(runs[s], services[s].desired)
        BY <1>1, <1>5, <1>a, <3>1, <3>3, ReportedRow
      <4> QED
        BY <1>a, <3>3, <4>1 DEF WorkInv, RowsAreServed
    <3>4. CASE s = item.service /\ StartsRunning(item, outcome)
      BY <1>1, <1>a, <2>1, <3>4 DEF WorkInv, WorkIsServed
    <3> QED
      BY <3>2, <3>3, <3>4
  <2>3. MailIsServed'
    <3>1. SUFFICES ASSUME NEW m \in mail, m.status = "running", Mine(m.item, runs')
                   PROVE
        \/ Has(lost, m.item.service, m.item.id, m.item.generation)
        \/ /\ Has(containers, m.item.service, m.item.id, m.item.generation)
           /\ ~Names(runs'[m.item.service], m.item.generation)
           /\ \A o \in mail :
                /\ o.status = "running" /\ o.item.service = m.item.service
                /\ o.item.id = m.item.id /\ o.item.generation = m.item.generation
                => o = m
      BY <1>1, <1>2, <1>5 DEF MailIsServed
    <3>2. m.item \in WorkItem
      BY <1>a DEF AgentTypeOK
    <3>3. Mine(m.item, runs)
      BY <1>1, <1>5, <1>a, <3>1, <3>2, ReportedRow, NullAssumption DEF Mine
    <3>4.
        \/ Has(lost, m.item.service, m.item.id, m.item.generation)
        \/ /\ Has(containers, m.item.service, m.item.id, m.item.generation)
           /\ ~Names(runs[m.item.service], m.item.generation)
           /\ ~WillReport(item, stage, outcome, m.item.service, m.item.id, m.item.generation)
           /\ \A o \in mail :
                /\ o.status = "running" /\ o.item.service = m.item.service
                /\ o.item.id = m.item.id /\ o.item.generation = m.item.generation
                => o = m
      BY <1>a, <3>1, <3>3 DEF WorkInv, MailIsServed
    <3>5. CASE ~Names(runs'[m.item.service], m.item.generation)
      BY <3>4, <3>5
    <3>6. CASE Names(runs'[m.item.service], m.item.generation)
      <4>1. \/ runs'[m.item.service] = runs[m.item.service]
            \/ m.item.service = item.service /\ StartsRunning(item, outcome)
        BY <1>1, <1>5, <1>a, <3>2, <3>6, ReportedRow DEF Names
      <4>2. CASE runs'[m.item.service] = runs[m.item.service]
        BY <3>4, <3>6, <4>2
      <4>3. CASE m.item.service = item.service /\ StartsRunning(item, outcome)
        <5>1. m.item.id = item.id /\ m.item.generation = item.generation
          BY <2>1, <3>1, <3>6, <4>3 DEF Mine, Names
        <5> QED
          BY <2>1, <3>4, <4>3, <5>1
      <4> QED
        BY <4>1, <4>2, <4>3
    <3> QED
      BY <3>5, <3>6
  <2> QED
    BY <1>3, <2>2, <2>3 DEF WorkInv
<1> QED
  BY <1>4, <1>5 DEF report

LEMMA LateReportWork ==
  ASSUME AgentInv, NEW m \in mail, lateReport(m)
  PROVE  WorkInv'
<1> DEFINE w == m.item
           s == w.service
           starts == StartsRunning(w, m.status)
<1>a. IInv /\ WorkInv /\ AgentTypes /\ AgentTypeOK
  BY DEF AgentInv, AgentTypes
<1>1. /\ UpdateExecutionFromNodeReport(w, m.status) /\ mail' = mail \ {m}
      /\ UNCHANGED <<item, stage, outcome, containers, lost>>
  BY DEF lateReport
<1>2. /\ w \in WorkItem /\ w.node = AgentNode /\ m.status \in Outcomes(w.action)
      /\ \A o \in mail : o.item \in WorkItem
      /\ item # NoItem => item \in WorkItem
  BY <1>a DEF AgentTypes, AgentTypeOK
<1>3. \A t \in Services :
        /\ runs'[t].id = runs[t].id \/ runs'[t].id = NoRunID
        /\ runs'[t].status \in {"pending", "deploying", "running"} =>
             runs'[t] = runs[t] \/ (t = s /\ starts)
        /\ runs'[t] # runs[t] => t = s /\ Mine(w, runs) /\ runs[t].status = "deploying"
  BY <1>1, <1>2, <1>a, ReportedRow
<1>b. UNCHANGED services
  BY <1>1, <1>2, <1>a, ReportedRow
<1>4. \A x \in WorkItem : Mine(x, runs') => Mine(x, runs)
  BY <1>3, NullAssumption DEF Mine
<1>5. starts => /\ m.status = "running" /\ Mine(w, runs)
                /\ runs'[s].status = "running" /\ runs'[s].id = w.id
                /\ runs'[s].container = w.generation
  BY DEF StartsRunning
<1>6. starts =>
        \/ Has(lost, s, w.id, w.generation)
        \/ /\ Has(containers, s, w.id, w.generation)
           /\ ~WillStop(item, stage, s, w.id, w.generation)
           /\ ~WillReport(item, stage, outcome, s, w.id, w.generation)
  BY <1>5, <1>a DEF WorkInv, MailIsServed
<1> HIDE DEF starts
<1>7. OrphanItem'
  <2>1. SUFFICES ASSUME item # NoItem, ~Mine(item, runs')
                 PROVE  /\ runs'[item.service].status \notin {"deploying", "running"}
                        /\ runs'[item.service].status = "pending" =>
                             runs'[item.service].container = 0
                        /\ \A o \in mail : o.item.service = item.service
                             /\ Mine(o.item, runs') => o.status # "running"
    BY <1>1 DEF OrphanItem
  <2>2. CASE Mine(item, runs)
    <3>1. runs'[item.service].id = NoRunID /\ runs'[item.service] # runs[item.service]
      BY <1>2, <1>3, <2>1, <2>2 DEF Mine
    <3>2. \A o \in mail : o.item.service = item.service => ~Mine(o.item, runs')
      BY <1>2, <3>1, NullAssumption DEF Mine
    <3>3. ~starts \/ item.service # s
      BY <1>2, <1>5, <3>1, NullAssumption
    <3> QED
      BY <1>2, <1>3, <2>1, <3>1, <3>2, <3>3
  <2>3. CASE ~Mine(item, runs)
    <3>1. /\ runs[item.service].status \notin {"deploying", "running"}
          /\ runs[item.service].status = "pending" => runs[item.service].container = 0
          /\ \A o \in mail : o.item.service = item.service
               /\ Mine(o.item, runs) => o.status # "running"
      BY <1>a, <2>1, <2>3 DEF WorkInv, OrphanItem
    <3>2. runs'[item.service] = runs[item.service]
      BY <1>2, <1>3, <2>1, <3>1
    <3> QED
      BY <1>2, <1>4, <3>1, <3>2
  <2> QED
    BY <2>2, <2>3
<1>8. CurrentItem'
  <2>1. SUFFICES ASSUME item # NoItem, Mine(item, runs'),
                        runs'[item.service].status = "deploying"
                 PROVE  /\ runs'[item.service] = runs[item.service]
                        /\ Mine(item, runs)
    BY <1>1, <1>a, <1>b DEF WorkInv, CurrentItem
  <2> QED
    BY <1>2, <1>3, <1>4, <1>5, <2>1
<1>9. RowsAreServed'
  <2>1. SUFFICES ASSUME NEW t \in Services, CountsOn(runs'[t], services[t].desired)
                 PROVE  \/ Has(lost, t, runs'[t].id, runs'[t].container)
                        \/ /\ Has(containers, t, runs'[t].id, runs'[t].container)
                           /\ ~WillStop(item, stage, t, runs'[t].id, runs'[t].container)
    BY <1>1, <1>b DEF RowsAreServed
  <2>2. runs'[t] = runs[t] \/ (t = s /\ starts)
    BY <1>3, <2>1 DEF CountsOn
  <2> QED
    BY <1>5, <1>6, <1>a, <2>1, <2>2 DEF WorkInv, RowsAreServed
<1>10. \A t \in Services, g \in Generations : Names(runs'[t], g) =>
          Names(runs[t], g) \/ (t = s /\ starts /\ g = w.generation)
  BY <1>3, <1>5 DEF Names
<1>11. WorkIsServed'
  <2>1. SUFFICES ASSUME item # NoItem, Mine(item, runs'),
                        WillReport(item, stage, outcome, item.service, item.id, item.generation)
                 PROVE  \/ Has(lost, item.service, item.id, item.generation)
                        \/ /\ Has(containers, item.service, item.id, item.generation)
                           /\ ~Names(runs'[item.service], item.generation)
    BY <1>1 DEF WorkIsServed
  <2>2. Mine(item, runs)
    BY <1>2, <1>4, <2>1
  <2>3. \/ Has(lost, item.service, item.id, item.generation)
        \/ /\ Has(containers, item.service, item.id, item.generation)
           /\ ~Names(runs[item.service], item.generation)
    BY <1>a, <2>1, <2>2 DEF WorkInv, WorkIsServed
  <2>4. CASE item.service = s /\ starts /\ item.generation = w.generation
    <3>1. item.id = w.id
      BY <1>5, <2>1, <2>4 DEF Mine
    <3> QED
      BY <1>6, <2>1, <2>4, <3>1
  <2>5. CASE ~(item.service = s /\ starts /\ item.generation = w.generation)
    BY <1>10, <1>2, <2>1, <2>3, <2>5
  <2> QED
    BY <2>4, <2>5
<1>12. MailIsServed'
  <2>1. SUFFICES ASSUME NEW o \in mail, o # m, o.status = "running", Mine(o.item, runs')
                 PROVE
      \/ Has(lost, o.item.service, o.item.id, o.item.generation)
      \/ /\ Has(containers, o.item.service, o.item.id, o.item.generation)
         /\ ~Names(runs'[o.item.service], o.item.generation)
         /\ ~WillStop(item, stage, o.item.service, o.item.id, o.item.generation)
         /\ ~WillReport(item, stage, outcome, o.item.service, o.item.id, o.item.generation)
         /\ \A x \in mail :
              /\ x.status = "running" /\ x.item.service = o.item.service
              /\ x.item.id = o.item.id /\ x.item.generation = o.item.generation
              => x = o
    BY <1>1 DEF MailIsServed
  <2>2. o.item \in WorkItem /\ Mine(o.item, runs)
    BY <1>2, <1>4, <2>1
  <2>3.
      \/ Has(lost, o.item.service, o.item.id, o.item.generation)
      \/ /\ Has(containers, o.item.service, o.item.id, o.item.generation)
         /\ ~Names(runs[o.item.service], o.item.generation)
         /\ ~WillStop(item, stage, o.item.service, o.item.id, o.item.generation)
         /\ ~WillReport(item, stage, outcome, o.item.service, o.item.id, o.item.generation)
         /\ \A x \in mail :
              /\ x.status = "running" /\ x.item.service = o.item.service
              /\ x.item.id = o.item.id /\ x.item.generation = o.item.generation
              => x = o
    BY <1>a, <2>1, <2>2 DEF WorkInv, MailIsServed
  <2>4. CASE o.item.service = s /\ starts /\ o.item.generation = w.generation
    <3>1. w.id = o.item.id /\ m.status = "running"
      BY <1>5, <2>1, <2>4 DEF Mine
    <3> QED
      BY <2>1, <2>3, <2>4, <3>1
  <2>5. CASE ~(o.item.service = s /\ starts /\ o.item.generation = w.generation)
    BY <1>10, <2>2, <2>3, <2>5
  <2> QED
    BY <2>4, <2>5
<1>13. StoppedIsGone'
  BY <1>1, <1>a DEF WorkInv, StoppedIsGone, ContainerOf
<1> QED
  BY <1>7, <1>8, <1>9, <1>11, <1>12, <1>13 DEF WorkInv

LEMMA WorkNextInv ==
  ASSUME AgentInv, [AgentNext]_allVars
  PROVE  WorkInv'
<1>a. WorkInv /\ AgentTypes /\ AgentTypeOK /\ ResetOnce
  BY DEF AgentInv, AgentTypes
<1>1. CASE (\E l \in Loops : registerNode(l) \/ checkReset(l)) \/ sendHeartbeat
           \/ (\E h \in heartbeats : heartbeatAnswered(h))
  <2>1. UNCHANGED <<services, runs, item, stage, outcome, mail, containers, lost>>
    BY <1>1 DEF registerNode, RegisterNode, checkReset, sendHeartbeat, heartbeatAnswered,
                RecordNodeHeartbeatRead, RecordNodeHeartbeatWrite, workerVars, vars
  <2> QED
    BY <1>a, <2>1, ContainersMove
<1>2. ASSUME NEW l \in Loops, resetRuntimeOnce(l) PROVE WorkInv'
  <2>1. /\ UNCHANGED <<services, runs, item, stage, outcome, mail>> /\ at[l] = "reset"
        /\ \E S \in SUBSET containers : Removed(S)
    BY <1>2 DEF resetRuntimeOnce, vars
  <2>2. \A c \in containers : c.boot < boot
    <3>1. runtimeResetNode # nodeID
      BY <1>a, <2>1 DEF ResetOnce
    <3>2. \A c \in containers : c.boot \in Nat /\ c.boot <= boot /\ c.boot # boot
      BY <1>a, <3>1, FaultsAssumption DEF ResetOnce, AgentTypeOK, Container
    <3>3. boot \in Nat
      BY <1>a, FaultsAssumption DEF AgentTypeOK
    <3> QED
      BY <3>2, <3>3
  <2>3. /\ containers' \subseteq containers /\ lost \subseteq lost'
        /\ \A c \in containers : c \in containers' \/ c \in lost'
    BY <2>1, <2>2 DEF Removed
  <2> QED
    BY <1>a, <2>1, <2>3, ContainersMove
<1>3. ASSUME NEW c \in containers, WorkloadExit(c) PROVE WorkInv'
  <2>1. /\ UNCHANGED <<services, runs, item, stage, outcome, mail>>
        /\ containers' \subseteq containers /\ lost \subseteq lost'
        /\ \A d \in containers : d \in containers' \/ d \in lost'
    BY <1>3 DEF WorkloadExit, vars
  <2> QED
    BY <1>a, <2>1, ContainersMove
<1>4. CASE UNCHANGED allVars
  <2>1. UNCHANGED <<services, runs, item, stage, outcome, mail, containers, lost>>
    BY <1>4 DEF allVars, vars, agentVars
  <2> QED
    BY <1>a, <2>1, ContainersMove
<1> QED
  BY <1>1, <1>2, <1>3, <1>4, <1>a, PollWorkWork, RunWorkItemWork, WaitReadinessWork,
     DeleteWorkItemWork, ReportWork, LateReportWork, CallerWork, HealthWork, RestartWork
     DEF AgentNext, LoopStep, WorkStep

-----------------------------------------------------------------------------
(* The invariant is inductive. *)

LEMMA AgentInitInv == AgentInit => AgentInv
<1> SUFFICES ASSUME AgentInit PROVE AgentInv
  OBVIOUS
<1>1. IInv
  BY InitInv DEF AgentInit
<1>2. /\ nodeID = NoNode /\ runtimeResetNode = NoNode /\ resetMu = "free"
      /\ at = [l \in Loops |-> "cycle"]
      /\ item = NoItem /\ stage = "idle" /\ outcome = "failed"
      /\ containers = {} /\ mail = {} /\ boot = 0 /\ lost = {} /\ faults = 0
      /\ \A s \in Services : runs[s].status = "absent"
  BY DEF AgentInit, Init, NoRun
<1>3. AgentTypes
  BY <1>2, FaultsAssumption DEF AgentTypes, AgentTypeOK, Points, Stages
<1>4. ResetOnce
  BY <1>2 DEF ResetOnce, Loops
<1>5. WorkInv
  BY <1>2 DEF WorkInv, OrphanItem, CurrentItem, RowsAreServed, WorkIsServed, MailIsServed,
              StoppedIsGone, CountsOn
<1> QED
  BY <1>1, <1>3, <1>4, <1>5 DEF AgentInv

LEMMA AgentNextInv == AgentInv /\ [AgentNext]_allVars => AgentInv'
BY AgentStoreInv, AgentTypesInv, ResetOnceInv, WorkNextInv DEF AgentInv

\* The invariant holds in every state of every execution of the agent over the store,
\* with every fault and every late report.
THEOREM AgentInvariance == AgentSpec => []AgentInv
BY AgentInitInv, AgentNextInv, PTL DEF AgentSpec

\* Rows, work and late reports keep their types, and the worker holds an item exactly
\* while it works on it.
THEOREM AgentTypeCorrect == AgentSpec => []AgentTypeOK
BY AgentInvariance, PTL DEF AgentInv, AgentTypes

\* The store keeps its invariants under an agent whose reports come late, twice for a
\* row, or for work the store has forgotten.
THEOREM AgentKeepsStore == AgentSpec => []IInv
BY AgentInvariance, PTL DEF AgentInv

\* The same agent, seen by the callers of the store: a service moves the way they were
\* promised, although what is reported of it may be late or about an earlier row.
THEOREM AgentImplementsLifecycle == AgentSpec => StoreImplementsLifecycle
<1>1. AgentInit => Init /\ ServicesKnown
  BY DEF AgentInit, Init, ServicesKnown, NoService
<1>2. AgentInv /\ ServicesKnown /\ [AgentNext]_allVars => ServicesKnown'
  BY AgentStepsTransact, ServicesKnownInductive DEF AgentInv
<1>3. AgentInv /\ ServicesKnown /\ [AgentNext]_allVars => [Lifecycle!Next]_Lifecycle!vars
  BY AgentStepsTransact, LifecycleNext DEF AgentInv
<1> QED
  BY <1>1, <1>2, <1>3, LifecycleInit, AgentInvariance, PTL
     DEF AgentSpec, StoreImplementsLifecycle, Lifecycle!Spec

\* No report, late or repeated, gives a reservation back that it does not hold.
THEOREM AgentKeepsBooks == AgentSpec => BooksStayExact
<1> DEFINE A == \A n \in Nodes : Exact(n) /\ ~BreaksBooks(n) => Exact(n)'
<1>1. AgentInit => ServicesKnown
  BY DEF AgentInit, Init, ServicesKnown, NoService
<1>2. AgentInv /\ ServicesKnown /\ [AgentNext]_allVars => ServicesKnown'
  BY AgentStepsTransact, ServicesKnownInductive DEF AgentInv
<1>3. AgentInv /\ ServicesKnown /\ [AgentNext]_allVars => A
  BY AgentStepsTransact, BooksStep DEF AgentInv
<1>4. A => [A]_vars
  OBVIOUS
<1> HIDE DEF A
<1>5. AgentSpec => [][A]_vars
  BY <1>1, <1>2, <1>3, <1>4, AgentInvariance, PTL DEF AgentSpec
<1> QED
  BY <1>5 DEF BooksStayExact, A

LEMMA ServedInv == AgentInv => RunningIsServed
<1> SUFFICES ASSUME AgentInv, NEW s \in Services, runs[s].status = "running"
             PROVE  \E c \in containers \cup lost : IsOn(c, s)
  BY DEF RunningIsServed
<1>1. CountsOn(runs[s], services[s].desired)
  BY DEF CountsOn
<1>2. \/ Has(lost, s, runs[s].id, runs[s].container)
      \/ Has(containers, s, runs[s].id, runs[s].container)
  BY <1>1 DEF AgentInv, WorkInv, RowsAreServed
<1> QED
  BY <1>2 DEF Has, IsOn

\* However late reports, updates, deletions and the two loops interleave, a run the
\* store shows as running has its container, unless a fault has taken it.
THEOREM RunningRunsAreServed == AgentSpec => []RunningIsServed
BY AgentInvariance, ServedInv, PTL

-----------------------------------------------------------------------------
(* No step but the known ones leaves a running container behind. *)

\* Steps that leave the rows and the worker alone.
LEMMA QuietTracks ==
  ASSUME UNCHANGED <<runs, item, stage, outcome>>, NEW c, Tracked(c)
  PROVE  Tracked(c)'
BY DEF Tracked

LEMMA PollWorkTracks ==
  ASSUME AgentInv, NEW s \in Services, pollWork(s), NEW c \in containers, Tracked(c)
  PROVE  Tracked(c)'
<1>1. item = NoItem /\ runs \in [Services -> RunRow] /\ runs[s] \in RunRow
  BY DEF AgentInv, AgentTypes, AgentTypeOK, IInv, TypeOK, pollWork
<1>2. runs' = [runs EXCEPT ![s] = [runs[s] EXCEPT !.status = "deploying",
                                                  !.node = AgentNode]]
  BY PollWorkEffect
<1>3. \A t \in Services :
        /\ runs'[t].id = runs[t].id /\ runs'[t].container = runs[t].container
        /\ runs'[t].status = "deploying" \/ runs'[t].status = runs[t].status
  BY <1>1, <1>2
<1>4. c.service \in Services
  BY DEF AgentInv, AgentTypes, AgentTypeOK, Container
<1> QED
  BY <1>1, <1>3, <1>4 DEF Tracked

LEMMA WorkerTracks ==
  ASSUME AgentInv, runWorkItem \/ waitReadiness \/ deleteWorkItem,
         NEW c \in containers, c \in containers', Tracked(c), ~Abandons(c)
  PROVE  Tracked(c)'
<1>1. UNCHANGED <<runs, item>>
  BY DEF runWorkItem, waitReadiness, deleteWorkItem, WorkerStep, vars
<1>2. CASE runs[c.service].id = c.id /\ runs[c.service].container = c.generation
           /\ runs[c.service].status \in {"running", "pending", "deploying"}
  BY <1>1, <1>2 DEF Tracked
<1>3. CASE /\ item # NoItem /\ item.action = "run"
           /\ item.service = c.service /\ item.id = c.id /\ item.generation = c.generation
           /\ stage = "started" \/ (stage = "report" /\ outcome = "running")
  <2>1. waitReadiness /\ stage = "started"
    BY <1>3 DEF runWorkItem, waitReadiness, deleteWorkItem
  <2>2. stage' = "report" /\ outcome' = "running"
    <3>1. SUFFICES ASSUME ~(stage' = "report" /\ outcome' = "running") PROVE FALSE
      OBVIOUS
    <3>2. ~Fault
      BY FaultsAssumption DEF Fault, Abandons, AgentInv, AgentTypes, AgentTypeOK
    <3>3. containers' = containers \ ContainerOf(item, item.generation)
      BY <2>1, <3>1, <3>2 DEF waitReadiness, Reporting
    <3> QED
      BY <1>3, <3>3 DEF ContainerOf
  <2> QED
    BY <1>1, <1>3, <2>2 DEF Tracked
<1> QED
  BY <1>2, <1>3 DEF Tracked

\* A report that is accepted puts its own container in the row, or speaks of one that
\* is stopped.
LEMMA ReportTracks ==
  ASSUME AgentInv, report, NEW c \in containers, Tracked(c), ~Abandons(c)
  PROVE  Tracked(c)'
<1>a. IInv /\ WorkInv /\ AgentTypes /\ AgentTypeOK /\ c \in Container
  BY DEF AgentInv, AgentTypes, AgentTypeOK
<1>1. /\ stage = "report" /\ item \in WorkItem /\ item # NoItem /\ item.node = AgentNode
      /\ item' = NoItem /\ outcome \in Outcomes(item.action)
  BY <1>a DEF AgentTypes, AgentTypeOK, report, WorkerIdle
<1>2. ~Fault
  BY FaultsAssumption, <1>a DEF Fault, Abandons, AgentTypeOK
<1>3. UpdateExecutionFromNodeReport(item, outcome)
  BY <1>2 DEF report
<1>4. CASE item.service # c.service
  <2>1. runs'[c.service] = runs[c.service]
    BY <1>1, <1>3, <1>4, <1>a, ReportedRow DEF Container
  <2> QED
    BY <1>4, <2>1 DEF Tracked
<1>5. CASE item.service = c.service
  <2>1. /\ item.generation = c.generation /\ Mine(item, runs) /\ outcome # "failed"
        /\ runs[c.service].status = "deploying"
    BY <1>1, <1>5 DEF Abandons, Refused, Mine
  <2>2. c.id = item.id
    BY <1>5, <2>1 DEF Tracked, Mine
  <2>3. CASE outcome = "running"
    <3>1. StartsRunning(item, outcome)
      BY <1>1, <1>3, <1>5, <1>a, <2>1, <2>3, ReportMovesRow DEF Settles, IsRefused
    <3> QED
      BY <1>5, <2>1, <2>2, <3>1 DEF Tracked, StartsRunning
  <2>4. CASE outcome = "succeeded"
    <3>1. item.action = "delete"
      BY <1>1, <2>4 DEF Outcomes
    <3>2. runs[c.service].container = c.generation
      BY <3>1 DEF Tracked
    <3>3. item.container = c.generation
      BY <1>1, <1>5, <1>a, <2>1, <3>2 DEF WorkInv, CurrentItem
    <3> QED
      BY <1>1, <1>5, <1>a, <2>4, <3>1, <3>3 DEF WorkInv, StoppedIsGone, ContainerOf
  <2> QED
    BY <1>1, <2>1, <2>3, <2>4 DEF Outcomes
<1> QED
  BY <1>4, <1>5

LEMMA LateReportTracks ==
  ASSUME AgentInv, NEW m \in mail, lateReport(m), NEW c \in containers, Tracked(c), ~Abandons(c)
  PROVE  Tracked(c)'
<1>1. /\ m.item \in WorkItem /\ m.item.node = AgentNode
      /\ m.status \in Outcomes(m.item.action) /\ c.service \in Services /\ IInv /\ AgentTypes
  BY DEF AgentInv, AgentTypes, AgentTypeOK, Container
<1>2. /\ UpdateExecutionFromNodeReport(m.item, m.status) /\ m \notin mail'
      /\ UNCHANGED <<item, stage, outcome>>
  BY DEF lateReport
<1>3. m.item.service # c.service
  BY <1>2 DEF Abandons
<1>4. runs'[c.service] = runs[c.service]
  BY <1>1, <1>2, <1>3, ReportedRow
<1> QED
  BY <1>2, <1>4 DEF Tracked

LEMMA CallerTracks ==
  ASSUME AgentInv, Caller, NEW c \in containers, Tracked(c), ~Abandons(c)
  PROVE  Tracked(c)'
<1>1. ServiceStep /\ UNCHANGED <<item, stage, outcome, mail>> /\ IInv /\ c.service \in Services
  BY DEF Caller, AgentInv, AgentTypes, AgentTypeOK, Container
<1>2. \/ Kept(c.service) \/ Repinned(c.service) \/ Renewed(c.service) \/ Dropped(c.service)
  BY <1>1, CallerMovesRows
<1>3. runs[c.service].status \in {"pending", "deploying"} => runs'[c.service] = runs[c.service]
  BY <1>1 DEF Abandons
<1> QED
  BY <1>1, <1>2, <1>3 DEF Tracked, Kept, Repinned, Renewed, Dropped

LEMMA NextTracks ==
  ASSUME AgentInv, [AgentNext]_allVars,
         NEW c \in containers, c \in containers', Tracked(c), ~Abandons(c)
  PROVE  Tracked(c)'
<1>1. CASE \/ \E l \in Loops : LoopStep(l)
           \/ sendHeartbeat \/ (\E h \in heartbeats : heartbeatAnswered(h))
           \/ UNCHANGED allVars
  <2>1. UNCHANGED <<runs, item, stage, outcome>>
    BY <1>1 DEF LoopStep, registerNode, RegisterNode, checkReset, resetRuntimeOnce,
                sendHeartbeat, heartbeatAnswered, RecordNodeHeartbeatRead,
                RecordNodeHeartbeatWrite, workerVars, vars, allVars, agentVars
  <2> QED
    BY <2>1, QuietTracks
<1>2. ~Fault
  BY FaultsAssumption DEF Fault, Abandons, AgentInv, AgentTypes, AgentTypeOK
<1>3. ~NodeHealth /\ ~Restart /\ ~ \E d \in containers : WorkloadExit(d)
  BY <1>2 DEF NodeHealth, Restart, WorkloadExit
<1> QED
  BY <1>1, <1>3, PollWorkTracks, WorkerTracks, ReportTracks, LateReportTracks, CallerTracks
     DEF AgentNext, WorkStep

\* Claims, starts, resets, updates and deletions never lose a container that runs: a row
\* or the worker still names it, or the step is one of Abandons.
THEOREM ContainersAreTracked == AgentSpec => ContainersStayTracked
<1>1. AgentInv /\ [AgentNext]_allVars =>
        [\A c \in containers :
           Tracked(c) /\ c \in containers' /\ ~Abandons(c) => Tracked(c)']_allVars
  BY NextTracks
<1> QED
  BY <1>1, AgentInvariance, PTL DEF AgentSpec, ContainersStayTracked
=============================================================================
