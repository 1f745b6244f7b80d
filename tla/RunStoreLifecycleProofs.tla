---------------------- MODULE RunStoreLifecycleProofs -----------------------
(* The store implements the service lifecycle, for every value of the constants. *)
EXTENDS RunStoreProofs

-----------------------------------------------------------------------------
(* What each part of Next does to the table services. *)

LEMMA OnlyServiceStepsWriteServices ==
  ASSUME RunStep \/ NodeStep \/ CloudPlaneRestart
  PROVE  UNCHANGED services
<1>1. CASE RunStep
  BY <1>1, Zenon DEF RunStep, MarkServiceRunFailed,
     MarkPendingServiceRunFailedForProvisioningNode, ClaimPendingDeleteRun, ClaimPendingRun,
     UpdateExecutionFromNodeReport
<1>2. CASE NodeStep
  BY <1>2, Zenon DEF NodeStep, CreateProvisioningNode, BindProvisionedNode, RegisterNode,
     RecordNodeHeartbeatRead, RecordNodeHeartbeatWrite, PrepareNodeDeletion,
     MarkNodeDeleted, MarkStaleNodeHeartbeatsOffline
<1>3. CASE CloudPlaneRestart
  BY <1>3 DEF CloudPlaneRestart
<1> QED
  BY <1>1, <1>2, <1>3

LEMMA OnlyServiceStepsOpenDeletes ==
  ASSUME RunStep \/ NodeStep \/ CloudPlaneRestart
  PROVE  deletes' \subseteq deletes
<1>1. CASE RunStep
  BY <1>1, Zenon DEF RunStep, MarkServiceRunFailed,
     MarkPendingServiceRunFailedForProvisioningNode, ClaimPendingDeleteRun, ClaimPendingRun,
     UpdateExecutionFromNodeReport
<1>2. CASE NodeStep
  BY <1>2, Zenon DEF NodeStep, CreateProvisioningNode, BindProvisionedNode, RegisterNode,
     RecordNodeHeartbeatRead, RecordNodeHeartbeatWrite, PrepareNodeDeletion,
     MarkNodeDeleted, MarkStaleNodeHeartbeatsOffline
<1>3. CASE CloudPlaneRestart
  BY <1>3 DEF CloudPlaneRestart
<1> QED
  BY <1>1, <1>2, <1>3

\* A missing service row has no generation, and a DeleteService call that has
\* read its row always finds it again.
ServicesKnown ==
  /\ \A s \in Services : services[s].desired = "absent" => services[s].generation = 0
  /\ \A d \in deletes : services[d.service].desired # "absent"

LEMMA ServicesKnownInductive ==
  ASSUME IInv, ServicesKnown, Transaction
  PROVE  ServicesKnown'
<1>a. TypeOK
  BY DEF IInv
<1>1. CASE UNCHANGED vars
  BY <1>1 DEF vars, ServicesKnown
<1>2. CASE RunStep \/ NodeStep \/ CloudPlaneRestart
  BY <1>2, OnlyServiceStepsWriteServices, OnlyServiceStepsOpenDeletes DEF ServicesKnown
<1>3. ASSUME NEW s \in Services, NEW g \in Generations, NEW spec \in Specs,
             UpsertService(s, g, spec)
      PROVE  ServicesKnown'
  BY <1>3, <1>a DEF ServicesKnown, UpsertService, TypeOK, DeleteCall
<1>4. ASSUME NEW s \in Services, NEW g \in Generations, DeleteServiceRead(s, g)
      PROVE  ServicesKnown'
  BY <1>4, <1>a DEF ServicesKnown, DeleteServiceRead
<1>5. ASSUME NEW d \in deletes, DeleteServiceWrite(d) PROVE ServicesKnown'
  BY <1>5, <1>a DEF ServicesKnown, DeleteServiceWrite, TypeOK, DeleteCall
<1>6. ASSUME NEW w \in WorkItem, NEW status \in Outcomes(w.action),
             UpdateExecutionFromNodeReport(w, status)
      PROVE  ServicesKnown'
  <2>1. UNCHANGED <<services, deletes>>
    BY <1>6 DEF UpdateExecutionFromNodeReport
  <2> QED
    BY <2>1 DEF ServicesKnown
<1> QED
  BY <1>1, <1>2, <1>3, <1>4, <1>5, <1>6 DEF Transaction, Next, ServiceStep

-----------------------------------------------------------------------------
(* Every transaction is a step of the lifecycle or a stutter. *)

\* The abstract state the mapping computes.
Desired == [s \in Services |-> services[s].desired]
Generation == [s \in Services |-> services[s].generation]
Phase == [s \in Services |-> PhaseOf(s)]

LEMMA PhaseFrame ==
  ASSUME NEW s \in Services, runs'[s].status = runs[s].status,
         services'[s].desired = services[s].desired
  PROVE  PhaseOf(s)' = PhaseOf(s)
BY DEF PhaseOf

\* A step that changes the phase of s alone.
LEMMA PhaseExcept ==
  ASSUME NEW s \in Services, NEW p, PhaseOf(s)' = p,
         \A t \in Services \ {s} : PhaseOf(t)' = PhaseOf(t)
  PROVE  Phase' = [Phase EXCEPT ![s] = p]
BY DEF Phase

LEMMA ServicesFrame ==
  ASSUME UNCHANGED services
  PROVE  Desired' = Desired /\ Generation' = Generation
BY DEF Desired, Generation

LEMMA UpsertServiceRefines ==
  ASSUME IInv, NEW s \in Services, NEW g \in Generations, NEW spec \in Specs,
         UpsertService(s, g, spec)
  PROVE  Lifecycle!Accept(s, g) \/ UNCHANGED <<Desired, Generation, Phase>>
<1>a. TypeOK /\ RunFollowsService
  BY DEF IInv
<1>b. /\ services[s].generation \in Nat /\ g \in Nat /\ runs[s].generation \in Nat
      /\ services'[s].desired = "active" /\ services'[s].generation = g
      /\ \A t \in Services \ {s} : services'[t] = services[t]
  BY <1>a DEF TypeOK, ServiceRow, RunRow, Generations, UpsertService
<1>1. CASE runs[s].status # "absent" /\ runs[s].generation >= g /\ UNCHANGED runs
  <2>1. services[s].generation = g /\ services[s].desired = "active"
    BY <1>1, <1>a, <1>b DEF RunFollowsService, UpsertService
  <2>2. \A t \in Services : PhaseOf(t)' = PhaseOf(t)
    BY <1>1, <1>b, <2>1, PhaseFrame
  <2> QED
    BY <1>b, <2>1, <2>2 DEF Desired, Generation, Phase
<1>2. CASE runs[s].status = "absent" \/ runs[s].generation < g
  <2>1. services[s].generation < g
    BY <1>2, <1>a, <1>b DEF RunFollowsService, UpsertService
  <2>2. /\ runs'[s].status = "pending"
        /\ \A t \in Services \ {s} : runs'[t] = runs[t]
    BY <1>2, <1>a, <1>b DEF UpsertService, upsertServiceRunTx, TypeOK
  <2>3. PhaseOf(s)' = "pending"
    BY <1>b, <2>2 DEF PhaseOf
  <2>4. Phase' = [Phase EXCEPT ![s] = "pending"]
    BY <1>b, <2>2, <2>3, PhaseFrame, PhaseExcept
  <2>5. Desired' = [Desired EXCEPT ![s] = "active"]
        /\ Generation' = [Generation EXCEPT ![s] = g]
    BY <1>b DEF Desired, Generation
  <2> QED
    BY <1>b, <2>1, <2>4, <2>5 DEF Lifecycle!Accept, Desired, Generation, Phase
<1> QED
  BY <1>1, <1>2 DEF UpsertService, upsertServiceRunTx

LEMMA DeleteServiceWriteRefines ==
  ASSUME IInv, ServicesKnown, NEW d \in deletes, DeleteServiceWrite(d)
  PROVE  \E s \in Services, g \in 1..MaxGeneration : Lifecycle!Retire(s, g)
<1> DEFINE s == d.service
           g == d.generation
<1>a. TypeOK /\ Placement /\ RunFollowsService
  BY DEF IInv
<1>b. /\ s \in Services /\ g \in 1..MaxGeneration
      /\ services[s].desired # "absent"
      /\ services'[s].desired = "deleted" /\ services'[s].generation = g
      /\ \A t \in Services \ {s} : services'[t] = services[t]
  BY <1>a DEF TypeOK, DeleteCall, Generations, ServicesKnown, DeleteServiceWrite
<1>1. /\ runs[s].status = "running" => runs'[s].status = "pending"
      /\ runs[s].status # "running" => runs'[s].status = "absent"
      /\ \A t \in Services \ {s} : runs'[t] = runs[t]
  BY <1>a, <1>b, NullAssumption
     DEF TypeOK, RunRow, Placement, DeleteServiceWrite, deleteServiceRunTx, NoRun
<1> HIDE DEF s, g
<1>2. PhaseOf(s)' = IF Phase[s] = "running" THEN "stopping" ELSE "none"
  BY <1>1, <1>b DEF PhaseOf, Phase
<1>3. Phase' = [Phase EXCEPT ![s] = IF @ = "running" THEN "stopping" ELSE "none"]
  BY <1>1, <1>2, <1>b, PhaseFrame, PhaseExcept
<1>4. Desired' = [Desired EXCEPT ![s] = "deleted"]
      /\ Generation' = [Generation EXCEPT ![s] = g]
  BY <1>b DEF Desired, Generation
<1> QED
  BY <1>b, <1>3, <1>4 DEF Lifecycle!Retire, Desired, Generation, Phase

LEMMA ClaimRefines ==
  ASSUME IInv, NEW n \in Nodes, NEW s \in Services,
         ClaimPendingDeleteRun(n, s) \/ ClaimPendingRun(n, s)
  PROVE  Lifecycle!Assign(s)
<1>a. TypeOK
  BY DEF IInv
<1>1. /\ UNCHANGED services
      /\ runs[s].status = "pending" /\ runs'[s].status = "deploying"
      /\ \A t \in Services \ {s} : runs'[t] = runs[t]
  BY <1>a DEF TypeOK, RunRow, ClaimPendingDeleteRun, ClaimPendingRun, markServiceRunDeploying
<1>2. CASE services[s].desired = "deleted"
  <2>1. Phase[s] = "stopping" /\ PhaseOf(s)' = "removing"
    BY <1>1, <1>2 DEF PhaseOf, Phase
  <2>2. Phase' = [Phase EXCEPT ![s] = "removing"]
    BY <1>1, <2>1, PhaseFrame, PhaseExcept
  <2> QED
    BY <1>1, <2>1, <2>2, ServicesFrame DEF Lifecycle!Assign, Desired, Generation, Phase
<1>3. CASE services[s].desired # "deleted"
  <2>1. Phase[s] = "pending" /\ PhaseOf(s)' = "deploying"
    BY <1>1, <1>3 DEF PhaseOf, Phase
  <2>2. Phase' = [Phase EXCEPT ![s] = "deploying"]
    BY <1>1, <2>1, PhaseFrame, PhaseExcept
  <2> QED
    BY <1>1, <2>1, <2>2, ServicesFrame DEF Lifecycle!Assign, Desired, Generation, Phase
<1> QED
  BY <1>2, <1>3

\* One or several runs fail at once, each of them unsettled before.
LEMMA FailingRefines ==
  ASSUME NEW S \in SUBSET Services, UNCHANGED services,
         \A s \in S : runs[s].status \in {"pending", "deploying", "running"},
         \A s \in S : runs'[s].status = "failed",
         \A s \in Services \ S : runs'[s].status = runs[s].status
  PROVE  Lifecycle!GiveUp(S)
<1>1. \A s \in S : PhaseOf(s)' = "failed" /\ PhaseOf(s) \in Lifecycle!Unsettled
  BY DEF PhaseOf, Lifecycle!Unsettled
<1>2. \A s \in Services \ S : PhaseOf(s)' = PhaseOf(s)
  BY PhaseFrame
<1>3. Phase' = [s \in Services |-> IF s \in S THEN "failed" ELSE Phase[s]]
  BY <1>1, <1>2 DEF Phase
<1>4. \A s \in S : Phase[s] \in Lifecycle!Unsettled
  BY <1>1 DEF Phase
<1> QED
  BY <1>3, <1>4, ServicesFrame DEF Lifecycle!GiveUp, Desired, Generation, Phase

LEMMA MarkServiceRunFailedRefines ==
  ASSUME IInv, NEW s \in Services, runs[s].status \in {"pending", "deploying"},
         runs' = [runs EXCEPT ![s].status = "failed"], UNCHANGED services
  PROVE  Lifecycle!GiveUp({s})
<1>1. runs'[s].status = "failed" /\ \A t \in Services \ {s} : runs'[t].status = runs[t].status
  BY DEF IInv, TypeOK, RunRow
<1> QED
  BY <1>1, FailingRefines

LEMMA OfflineRefines ==
  ASSUME NEW Stale \in SUBSET Nodes, MarkStaleNodeHeartbeatsOffline(Stale), IInv
  PROVE  \E S \in SUBSET Services : Lifecycle!GiveUp(S)
<1> DEFINE lost(s) == \E n \in Stale : s \in Impacted(n)
           S == {s \in Services : lost(s)}
<1>1. /\ UNCHANGED services
      /\ runs' = [s \in Services |-> IF lost(s) THEN [runs[s] EXCEPT !.status = "failed"]
                                              ELSE runs[s]]
  BY Zenon DEF MarkStaleNodeHeartbeatsOffline
<1>2. \A s \in S : runs[s].status \in {"pending", "deploying", "running"}
  BY DEF Impacted
<1>3. \A s \in Services : runs[s] \in RunRow
  BY DEF IInv, TypeOK
<1> HIDE DEF lost
<1>4. \A s \in S : runs'[s].status = "failed"
  BY <1>1, <1>3 DEF RunRow
<1>5. \A s \in Services \ S : runs'[s].status = runs[s].status
  BY <1>1
<1> QED
  BY <1>1, <1>2, <1>4, <1>5, FailingRefines

LEMMA ReportRefines ==
  ASSUME IInv, ServicesKnown, NEW w \in WorkItem, NEW status \in Outcomes(w.action),
         UpdateExecutionFromNodeReport(w, status)
  PROVE  Lifecycle!Settle(w.service) \/ UNCHANGED <<Desired, Generation, Phase>>
<1> DEFINE s == w.service
           run == runs[s]
           gone == status = "succeeded" /\ services[s].desired = "deleted"
           box == IF w.action = "run" THEN w.generation ELSE w.container
<1>a. TypeOK
  BY DEF IInv
<1>b. s \in Services /\ UNCHANGED services /\ status \in {"running", "succeeded", "failed"}
  BY <1>a DEF TypeOK, WorkItem, Outcomes, UpdateExecutionFromNodeReport
<1>1. CASE UNCHANGED runs
  <2>1. \A t \in Services : PhaseOf(t)' = PhaseOf(t)
    BY <1>1, <1>b, PhaseFrame
  <2> QED
    BY <1>b, <2>1, ServicesFrame DEF Phase
<1>2. CASE /\ run.status = "deploying"
           /\ runs' = [runs EXCEPT ![s] =
                IF gone THEN NoRun ELSE [run EXCEPT !.status = status, !.container = box]]
  <2>1. /\ \A t \in Services \ {s} : runs'[t] = runs[t]
        /\ gone => runs'[s].status = "absent"
        /\ ~gone => runs'[s].status = status
    <3>1. run \in RunRow /\ runs \in [Services -> RunRow]
      BY <1>a, <1>b DEF TypeOK
    <3> QED
      BY <1>2, <1>b, <3>1 DEF RunRow, NoRun
  <2> HIDE DEF s, box
  <2>2. Phase[s] \in {"deploying", "removing"}
    BY <1>2, <1>b DEF Phase, PhaseOf
  <2>3. \/ PhaseOf(s)' = "running"
        \/ PhaseOf(s)' = "failed"
        \/ services[s].desired # "deleted" /\ PhaseOf(s)' = "succeeded"
        \/ services[s].desired = "deleted" /\ PhaseOf(s)' = "none"
    BY <1>b, <2>1 DEF PhaseOf
  <2>4. \A p : PhaseOf(s)' = p => Phase' = [Phase EXCEPT ![s] = p]
    BY <1>b, <2>1, PhaseFrame, PhaseExcept
  <2>5. services[s].desired # "deleted" => services[s].desired = "active"
    <3>1. services[s].generation > 0
      BY <1>b, <1>2 DEF IInv, RunFollowsService, Placement
    <3>2. services[s].desired \in DesiredStates
      BY <1>a, <1>b DEF TypeOK, ServiceRow
    <3> QED
      BY <1>b, <3>1, <3>2 DEF ServicesKnown, DesiredStates
  <2> QED
    BY <1>b, <2>2, <2>3, <2>4, <2>5, ServicesFrame
       DEF Lifecycle!Settle, Desired, Generation, Phase, s
<1> QED
  BY <1>1, <1>2 DEF UpdateExecutionFromNodeReport

\* The mapped state, as the instance spells it.
LEMMA Mapped ==
  /\ Lifecycle!vars = <<Desired, Generation, Phase>>
  /\ Lifecycle!vars' = <<Desired', Generation', Phase'>>
BY DEF Lifecycle!vars, Desired, Generation, Phase

LEMMA LifecycleInit == Init => Lifecycle!Init
BY DEF Init, Lifecycle!Init, NoService, NoRun, PhaseOf

LEMMA LifecycleNext ==
  ASSUME IInv, ServicesKnown, Transaction
  PROVE  [Lifecycle!Next]_Lifecycle!vars
<1> DEFINE stutter == UNCHANGED <<Desired, Generation, Phase>>
<1>0. stutter => UNCHANGED Lifecycle!vars
  BY Mapped
<1>a. UNCHANGED <<services, runs>> => stutter
  BY DEF Desired, Generation, Phase, PhaseOf
<1>r. ASSUME NEW w \in WorkItem, NEW status \in Outcomes(w.action),
             UpdateExecutionFromNodeReport(w, status)
      PROVE  Lifecycle!Next \/ stutter
  <2>1. w.service \in Services
    BY DEF WorkItem
  <2> QED
    BY <1>r, <2>1, ReportRefines DEF Lifecycle!Next
<1> HIDE DEF stutter
<1>1. CASE UNCHANGED vars
  BY <1>1, <1>0, <1>a DEF vars
<1>2. CASE ServiceStep
  <2>1. ASSUME NEW s \in Services, NEW g \in Generations, NEW spec \in Specs,
               UpsertService(s, g, spec)
        PROVE  Lifecycle!Next \/ stutter
    BY <2>1, UpsertServiceRefines DEF Lifecycle!Next, Generations, stutter
  <2>2. ASSUME NEW s \in Services, NEW g \in Generations, DeleteServiceRead(s, g)
        PROVE  stutter
    BY <2>2, <1>a DEF DeleteServiceRead
  <2>3. ASSUME NEW d \in deletes, DeleteServiceWrite(d) PROVE Lifecycle!Next
    BY <2>3, DeleteServiceWriteRefines DEF Lifecycle!Next
  <2> QED
    BY <1>0, <1>2, <2>1, <2>2, <2>3 DEF ServiceStep
<1>3. CASE RunStep
  <2>1. ASSUME NEW s \in Services, MarkServiceRunFailed(s) PROVE Lifecycle!Next
    BY <2>1, MarkServiceRunFailedRefines DEF Lifecycle!Next, MarkServiceRunFailed
  <2>2. ASSUME NEW s \in Services, NEW g \in Generations,
               MarkPendingServiceRunFailedForProvisioningNode(s, g) PROVE Lifecycle!Next
    BY <2>2, MarkServiceRunFailedRefines
       DEF Lifecycle!Next, MarkPendingServiceRunFailedForProvisioningNode
  <2>3. ASSUME NEW n \in Nodes, NEW s \in Services,
               ClaimPendingDeleteRun(n, s) \/ ClaimPendingRun(n, s) PROVE Lifecycle!Next
    BY <2>3, ClaimRefines DEF Lifecycle!Next
  <2>4. issued \subseteq WorkItem
    BY DEF IInv, TypeOK
  <2> QED
    BY <1>0, <1>3, <1>r, <2>1, <2>2, <2>3, <2>4 DEF RunStep
<1>4. CASE NodeStep
  <2>1. CASE \E Stale \in SUBSET Nodes : MarkStaleNodeHeartbeatsOffline(Stale)
    BY <2>1, OfflineRefines DEF Lifecycle!Next
  <2>2. CASE ~ \E Stale \in SUBSET Nodes : MarkStaleNodeHeartbeatsOffline(Stale)
    <3>1. UNCHANGED <<services, runs>>
      BY <1>4, <2>2, Zenon DEF NodeStep, CreateProvisioningNode, BindProvisionedNode,
         RegisterNode, RecordNodeHeartbeatRead, RecordNodeHeartbeatWrite,
         PrepareNodeDeletion, MarkNodeDeleted
    <3> QED
      BY <3>1, <1>0, <1>a
  <2> QED
    BY <2>1, <2>2
<1>5. CASE CloudPlaneRestart
  BY <1>5, <1>0, <1>a DEF CloudPlaneRestart
<1> QED
  BY <1>0, <1>1, <1>2, <1>3, <1>4, <1>5, <1>r DEF Transaction, Next

\* Read, claim, report, offline and delete transactions in any order: the store
\* always moves a service the way its callers were promised.
THEOREM StoreRefinesLifecycle == Spec => StoreImplementsLifecycle
<1>1. Init => ServicesKnown
  BY DEF Init, ServicesKnown, NoService
<1>2. IInv /\ ServicesKnown /\ [Next]_vars => ServicesKnown'
  BY ServicesKnownInductive DEF Transaction
<1>3. IInv /\ ServicesKnown /\ [Next]_vars => [Lifecycle!Next]_Lifecycle!vars
  BY LifecycleNext DEF Transaction
<1> QED
  BY <1>1, <1>2, <1>3, LifecycleInit, Invariance, PTL
     DEF Spec, StoreImplementsLifecycle, Lifecycle!Spec
=============================================================================
