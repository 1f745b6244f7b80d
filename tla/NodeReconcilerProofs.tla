------------------------- MODULE NodeReconcilerProofs -------------------------
(* Theorems about the node loop: it only runs transactions of the store, so all *)
(* that is proved of the store holds under it, and it loses no instance.        *)
EXTENDS NodeReconciler, RunStoreBooksProofs

\* A row of the loop is named after a run and stays; a row that is not there has nothing.
NamedRows ==
  \A n \in Nodes :
    /\ nodes[n].elastic => name[n] \in Tokens /\ nodes[n].status # "absent"
    /\ nodes[n].status = "absent" => nodes[n].instance = NoInstance

LoopTypes ==
  /\ vm \in [Instances -> {"unborn", "alive", "gone"}]
  /\ name \in [Nodes -> Tokens \cup {NoToken}]
  /\ loop \in Loop /\ faults \in 0..MaxFaults

\* What the pass knows of the rows it has read, while everything else goes on: their
\* instance is the one it has read, or they have lost it.
InHand ==
  /\ loop.step \in {"create", "bind", "unbind", "delete", "mark", "fail"} =>
       loop.node \in Nodes /\ nodes[loop.node].elastic
  /\ loop.step \in {"create", "bind", "unbind"} => loop.pass = "capacity"
  /\ loop.step \in {"bind", "unbind"} => loop.instance \in Instances
  /\ loop.pass = "capacity" =>
       /\ loop.todo = {} /\ loop.step \notin {"delete", "item"}
       /\ loop.step # "read" => loop.candidate \in Tokens
       /\ loop.step = "list" => ~HasProvisioning(loop.candidate)
       /\ loop.step \in {"create", "bind", "unbind", "mark"} => nodes[loop.node].instance = NoInstance
  /\ loop.pass # "capacity" /\ loop.step = "mark" =>
       \/ nodes[loop.node].instance = NoInstance
       \/ vm[nodes[loop.node].instance] = "gone"
  /\ loop.step = "delete" => nodes[loop.node].instance \in {loop.instance, NoInstance}
  /\ \A item \in loop.todo :
       /\ nodes[item.node].elastic
       /\ nodes[item.node].instance \in {item.instance, NoInstance}

LoopInv == LoopTypes /\ NamedRows /\ InHand /\ OneNodePerGeneration

\* One heartbeat of a node at a time; one that has read "draining" writes it over
\* nothing else, unless the instance is gone.
HeartbeatsInFlight ==
  /\ \A h \in heartbeats :
       /\ nodes[h.node].status \notin {"absent", "provisioning"}
       /\ \A k \in heartbeats : h.node = k.node => h = k
       /\ h.status = "draining" => nodes[h.node].status = "draining" \/ nodes[h.node].instance = NoInstance
       /\ h.status = "deleted" => nodes[h.node].instance = NoInstance
  /\ \A n \in Nodes : nodes[n].status = "deleted" => nodes[n].instance = NoInstance

DrainInv == HeartbeatsInFlight /\ DrainingIsIdle

\* The inductive invariant.
FleetInv == IInv /\ LoopInv /\ DrainInv

-----------------------------------------------------------------------------
(* What transactions leave alone. *)

USE DEF Generations, ServiceRow, RunRow, NodeRow, WorkItem, DeleteCall, HeartbeatCall,
        DesiredStates, RunStatuses, NodeStatuses

\* Rows of the loop keep what the pass may have read of them.
RowsKept ==
  \A n \in Nodes :
    /\ nodes'[n].elastic = nodes[n].elastic
    /\ nodes[n].elastic => nodes'[n].instance = nodes[n].instance
    /\ nodes'[n].status = "provisioning" => nodes[n].status = "provisioning"
    /\ nodes'[n].status = "absent" =>
         nodes[n].status = "absent" /\ nodes'[n].instance = nodes[n].instance

\* Only the books of the node table change.
RowsOnlyBook ==
  \A n \in Nodes :
    /\ nodes'[n].status = nodes[n].status /\ nodes'[n].elastic = nodes[n].elastic
    /\ nodes'[n].instance = nodes[n].instance

Active(s, n) == runs[s].node = n /\ runs[s].status \in {"deploying", "running"}

NothingActivated ==
  \A s \in Services, n \in Nodes :
    runs'[s].node = n /\ runs'[s].status \in {"deploying", "running"} => Active(s, n)

LEMMA FreeingOnlyBooks ==
  ASSUME TypeOK, NEW n, NEW units, nodes' = freeNodeAllocation(n, units)
  PROVE  RowsOnlyBook
BY DEF TypeOK, freeNodeAllocation, RowsOnlyBook

LEMMA BookingIsKept == RowsOnlyBook => RowsKept
BY DEF RowsOnlyBook, RowsKept

LEMMA QuietStep ==
  ASSUME DrainInv, TypeOK, RowsOnlyBook, NothingActivated, heartbeats' \subseteq heartbeats
  PROVE  DrainInv'
<1>1. HeartbeatsInFlight'
  BY DEF DrainInv, HeartbeatsInFlight, RowsOnlyBook, TypeOK
<1>2. DrainingIsIdle'
  BY DEF DrainInv, DrainingIsIdle, Draining, ActiveOn, RowsOnlyBook, NothingActivated, Active
<1> QED
  BY <1>1, <1>2 DEF DrainInv

LEMMA SameStore ==
  ASSUME DrainInv, TypeOK, UNCHANGED <<nodes, runs, heartbeats>>
  PROVE  DrainInv' /\ RowsKept
<1>1. RowsOnlyBook /\ NothingActivated
  BY DEF RowsOnlyBook, NothingActivated, Active
<1> QED
  BY <1>1, QuietStep, BookingIsKept

(* Transactions on services and runs. *)

LEMMA ServiceStepIsQuiet ==
  ASSUME IInv, DrainInv, ServiceStep
  PROVE  DrainInv' /\ RowsKept
<1> USE DEF IInv
<1>1. ASSUME NEW s \in Services, NEW g \in Generations, NEW spec \in Specs, UpsertService(s, g, spec)
      PROVE  RowsOnlyBook /\ NothingActivated /\ heartbeats' = heartbeats
  <2>1. RowsOnlyBook
    <3>1. CASE UNCHANGED nodes
      BY <3>1 DEF RowsOnlyBook
    <3>2. CASE nodes' = freeNodeAllocation(runs[s].node, Request[runs[s].spec])
      BY <3>2, FreeingOnlyBooks
    <3> QED
      BY <1>1, <3>1, <3>2 DEF UpsertService, upsertServiceRunTx
  <2>2. runs' = runs \/ (runs' = [runs EXCEPT ![s] = runs'[s]] /\ runs'[s].status = "pending")
    BY <1>1 DEF UpsertService, upsertServiceRunTx, TypeOK
  <2>3. NothingActivated
    BY <2>2 DEF NothingActivated, Active, TypeOK
  <2> QED
    BY <1>1, <2>1, <2>3 DEF UpsertService
<1>2. ASSUME NEW s \in Services, NEW g \in Generations, DeleteServiceRead(s, g)
      PROVE  RowsOnlyBook /\ NothingActivated /\ heartbeats' = heartbeats
  BY <1>2 DEF DeleteServiceRead, RowsOnlyBook, NothingActivated, Active
<1>3. ASSUME NEW d \in deletes, DeleteServiceWrite(d)
      PROVE  RowsOnlyBook /\ NothingActivated /\ heartbeats' = heartbeats
  <2> DEFINE s == d.service
  <2>0. s \in Services
    BY DEF TypeOK
  <2>1. RowsOnlyBook
    <3>1. CASE UNCHANGED nodes
      BY <3>1 DEF RowsOnlyBook
    <3>2. CASE nodes' = freeNodeAllocation(runs[s].node, Request[runs[s].spec])
      BY <3>2, FreeingOnlyBooks
    <3> QED
      BY <1>3, <3>1, <3>2 DEF DeleteServiceWrite, deleteServiceRunTx
  <2>2. runs' = runs \/ (runs' = [runs EXCEPT ![s] = runs'[s]] /\ runs'[s].status \in {"pending", "absent"})
    BY <1>3, <2>0 DEF DeleteServiceWrite, deleteServiceRunTx, TypeOK, NoRun
  <2>3. NothingActivated
    BY <2>0, <2>2 DEF NothingActivated, Active, TypeOK
  <2> QED
    BY <1>3, <2>1, <2>3 DEF DeleteServiceWrite
<1> QED
  BY <1>1, <1>2, <1>3, QuietStep, BookingIsKept DEF ServiceStep

LEMMA FailingIsQuiet ==
  ASSUME IInv, DrainInv, NEW s \in Services, runs' = [runs EXCEPT ![s].status = "failed"],
         UNCHANGED <<nodes, heartbeats>>
  PROVE  DrainInv' /\ RowsKept
<1>1. RowsOnlyBook
  BY DEF RowsOnlyBook
<1>2. NothingActivated
  BY DEF IInv, TypeOK, NothingActivated, Active
<1> QED
  BY <1>1, <1>2, QuietStep, BookingIsKept DEF IInv

LEMMA ReportIsQuiet ==
  ASSUME IInv, DrainInv, NEW w \in issued, NEW status \in Outcomes(w.action),
         UpdateExecutionFromNodeReport(w, status)
  PROVE  DrainInv' /\ RowsKept
<1> USE DEF IInv
<1> DEFINE s == w.service
<1>0. s \in Services
  BY DEF TypeOK
<1>1. RowsOnlyBook
  <2>1. CASE UNCHANGED nodes
    BY <2>1 DEF RowsOnlyBook
  <2>2. CASE nodes' = freeNodeAllocation(w.node, Request[runs[s].spec])
    BY <2>2, FreeingOnlyBooks
  <2> QED
    BY <2>1, <2>2 DEF UpdateExecutionFromNodeReport
<1>2. \/ runs' = runs
      \/ /\ runs' = [runs EXCEPT ![s] = runs'[s]] /\ runs[s].status = "deploying"
         /\ runs'[s].node = runs[s].node \/ runs'[s].status = "absent"
  <2>1. CASE runs[s].id = w.id /\ runs[s].node = w.node /\ runs[s].status = "deploying"
    <3>1. runs' = [runs EXCEPT ![s] = runs'[s]]
      BY <1>0, <2>1 DEF UpdateExecutionFromNodeReport, TypeOK
    <3>2. runs'[s] = NoRun \/ runs'[s].node = runs[s].node
      <4> DEFINE gone == status = "succeeded" /\ services[s].desired = "deleted"
                 container == IF w.action = "run" THEN w.generation ELSE w.container
      <4>1. CASE gone
        BY <1>0, <2>1, <4>1 DEF UpdateExecutionFromNodeReport, TypeOK
      <4>2. CASE ~gone
        <5>1. runs'[s] = [runs[s] EXCEPT !.status = status, !.container = container]
          BY <1>0, <2>1, <4>2 DEF UpdateExecutionFromNodeReport, TypeOK
        <5>2. runs[s] \in RunRow
          BY <1>0 DEF TypeOK
        <5> HIDE DEF container
        <5> QED
          BY <5>1, <5>2
      <4> QED
        BY <4>1, <4>2
    <3> QED
      BY <2>1, <3>1, <3>2 DEF NoRun
  <2>2. CASE ~(runs[s].id = w.id /\ runs[s].node = w.node /\ runs[s].status = "deploying")
    BY <2>2 DEF UpdateExecutionFromNodeReport
  <2> QED
    BY <2>1, <2>2
<1>3. NothingActivated
  BY <1>0, <1>2 DEF NothingActivated, Active, TypeOK
<1>4. heartbeats' = heartbeats
  BY DEF UpdateExecutionFromNodeReport
<1> QED
  BY <1>1, <1>3, <1>4, QuietStep, BookingIsKept

\* Nothing is claimed for a node that drains.
LEMMA ClaimKeepsDrains ==
  ASSUME IInv, DrainInv, NEW n \in Nodes, NEW s \in Services,
         ClaimPendingRun(n, s) \/ ClaimPendingDeleteRun(n, s)
  PROVE  DrainInv' /\ RowsKept
<1> USE DEF IInv
<1>1. nodes[n].status = "ready" /\ runs' = [runs EXCEPT ![s].status = "deploying", ![s].node = n]
      /\ heartbeats' = heartbeats
  BY DEF ClaimPendingRun, ClaimPendingDeleteRun, markServiceRunDeploying
<1>2. RowsOnlyBook
  BY DEF ClaimPendingRun, ClaimPendingDeleteRun, RowsOnlyBook, TypeOK
<1>3. \A m \in Nodes \ {n} : ActiveOn(m)' \subseteq ActiveOn(m)
  BY <1>1 DEF ActiveOn, TypeOK
<1>4. HeartbeatsInFlight'
  BY <1>1, <1>2 DEF DrainInv, HeartbeatsInFlight, RowsOnlyBook, TypeOK
<1>5. DrainingIsIdle'
  BY <1>1, <1>2, <1>3 DEF DrainInv, DrainingIsIdle, Draining, RowsOnlyBook
<1> QED
  BY <1>2, <1>4, <1>5, BookingIsKept DEF DrainInv

(* Transactions on the node table. *)

LEMMA RegisterKeepsDrains ==
  ASSUME IInv, LoopInv, DrainInv, NEW n \in Nodes, NEW i \in Instances, RegisterNode(n, i)
  PROVE  DrainInv' /\ RowsKept
<1> USE DEF IInv
<1>1. /\ \A m \in Nodes \ {n} : nodes'[m] = nodes[m]
      /\ nodes'[n].elastic = nodes[n].elastic
      /\ UNCHANGED <<runs, heartbeats>>
  BY DEF RegisterNode, TypeOK
<1>2. \/ /\ nodes'[n].instance = nodes[n].instance
         /\ nodes[n].status = "draining" <=> nodes'[n].status = "draining"
         /\ nodes'[n].status \in {nodes[n].status, "registering"}
      \/ nodes[n].status = "absent" /\ nodes'[n].status = "registering"
  BY DEF RegisterNode, TypeOK
<1>3. HeartbeatsInFlight'
  BY <1>1, <1>2 DEF DrainInv, HeartbeatsInFlight, TypeOK
<1>4. DrainingIsIdle'
  BY <1>1, <1>2 DEF DrainInv, DrainingIsIdle, Draining, ActiveOn
<1>5. RowsKept
  BY <1>1, <1>2 DEF RowsKept, LoopInv, NamedRows
<1> QED
  BY <1>3, <1>4, <1>5 DEF DrainInv

LEMMA HeartbeatReadKeepsDrains ==
  ASSUME IInv, DrainInv, NEW n \in Nodes, \A h \in heartbeats : h.node # n,
         RecordNodeHeartbeatRead(n)
  PROVE  DrainInv' /\ RowsKept
<1> DEFINE h == [node |-> n, status |-> IF nodes[n].status \in {"draining", "deleted"}
                                          THEN nodes[n].status ELSE "ready"]
<1>1. heartbeats' = heartbeats \cup {h} /\ UNCHANGED <<nodes, runs>>
      /\ nodes[n].status \notin {"absent", "provisioning"}
  BY DEF RecordNodeHeartbeatRead
<1>2. /\ h.node = n /\ (h.status = "draining" => nodes[n].status = "draining")
      /\ h.status = "deleted" => nodes[n].status = "deleted"
  OBVIOUS
<1> HIDE DEF h
<1>3. HeartbeatsInFlight'
  BY <1>1, <1>2 DEF DrainInv, HeartbeatsInFlight
<1>4. DrainingIsIdle' /\ RowsKept
  BY <1>1 DEF DrainInv, DrainingIsIdle, Draining, ActiveOn, RowsKept
<1> QED
  BY <1>3, <1>4 DEF DrainInv

LEMMA HeartbeatWriteKeepsDrains ==
  ASSUME IInv, DrainInv, NEW h \in heartbeats, RecordNodeHeartbeatWrite(h)
  PROVE  DrainInv' /\ RowsKept
<1> USE DEF IInv
<1>1. h.node \in Nodes /\ h.status \in {"ready", "draining", "deleted"}
  BY DEF TypeOK
<1>2. /\ \A m \in Nodes \ {h.node} : nodes'[m] = nodes[m]
      /\ nodes'[h.node].status = h.status
      /\ nodes'[h.node].instance = nodes[h.node].instance
      /\ nodes'[h.node].elastic = nodes[h.node].elastic
      /\ UNCHANGED runs /\ heartbeats' = heartbeats \ {h}
  BY <1>1 DEF RecordNodeHeartbeatWrite, TypeOK
<1>3. HeartbeatsInFlight'
  BY <1>1, <1>2 DEF DrainInv, HeartbeatsInFlight, TypeOK
<1>4. DrainingIsIdle'
  BY <1>1, <1>2 DEF DrainInv, DrainingIsIdle, Draining, HeartbeatsInFlight, ActiveOn
<1>5. RowsKept
  BY <1>1, <1>2 DEF RowsKept
<1> QED
  BY <1>3, <1>4, <1>5 DEF DrainInv

LEMMA OfflineKeepsDrains ==
  ASSUME IInv, DrainInv, NEW Stale \in SUBSET Nodes, MarkStaleNodeHeartbeatsOffline(Stale)
  PROVE  DrainInv' /\ RowsKept
<1> USE DEF IInv
<1>1. /\ \A n \in Nodes \ Stale : nodes'[n] = nodes[n]
      /\ \A n \in Stale : /\ nodes[n].status # "draining" /\ nodes'[n].status = "offline"
                          /\ nodes'[n].instance = nodes[n].instance
                          /\ nodes'[n].elastic = nodes[n].elastic
      /\ heartbeats' = heartbeats
  <2>1. ASSUME NEW n \in Nodes \ Stale PROVE nodes'[n] = nodes[n]
    BY <2>1 DEF MarkStaleNodeHeartbeatsOffline
  <2>2. ASSUME NEW n \in Stale
        PROVE  /\ nodes[n].status # "draining" /\ nodes'[n].status = "offline"
               /\ nodes'[n].instance = nodes[n].instance /\ nodes'[n].elastic = nodes[n].elastic
    <3>1. nodes[n] \in NodeRow /\ n \in Nodes
      BY <2>2 DEF TypeOK
    <3>2. nodes'[n] = [nodes[n] EXCEPT !.status = "offline", !.schedulable = FALSE,
                                       !.allocated = Floor(@ - Load(Impacted(n)))]
      BY <2>2, <3>1 DEF MarkStaleNodeHeartbeatsOffline
    <3>3. nodes[n].status # "draining"
      BY <2>2 DEF MarkStaleNodeHeartbeatsOffline, MayGoOffline
    <3> QED
      BY <3>1, <3>2, <3>3 DEF NodeRow
  <2>3. heartbeats' = heartbeats
    BY DEF MarkStaleNodeHeartbeatsOffline
  <2> QED
    BY <2>1, <2>2, <2>3
<1>2. \A s \in Services : runs'[s] = runs[s] \/ runs'[s].status = "failed"
  BY DEF MarkStaleNodeHeartbeatsOffline, TypeOK
<1>3. \A n \in Nodes : ActiveOn(n)' \subseteq ActiveOn(n)
  BY <1>2 DEF ActiveOn
<1>4. HeartbeatsInFlight'
  BY <1>1 DEF DrainInv, HeartbeatsInFlight, TypeOK
<1>5. DrainingIsIdle'
  BY <1>1, <1>3 DEF DrainInv, DrainingIsIdle, Draining
<1>6. RowsKept
  BY <1>1 DEF RowsKept
<1> QED
  BY <1>4, <1>5, <1>6 DEF DrainInv

LEMMA DrainKeepsDrains ==
  ASSUME IInv, DrainInv, NEW n \in Nodes, PrepareNodeDeletion(n)
  PROVE  DrainInv' /\ RowsKept
<1> USE DEF IInv
<1>1. /\ \A m \in Nodes \ {n} : nodes'[m] = nodes[m]
      /\ nodes'[n].status = "draining" /\ ActiveOn(n) = {}
      /\ nodes'[n].instance = nodes[n].instance /\ nodes'[n].elastic = nodes[n].elastic
      /\ UNCHANGED <<runs, heartbeats>>
  BY DEF PrepareNodeDeletion, TypeOK
<1>2. HeartbeatsInFlight'
  BY <1>1 DEF DrainInv, HeartbeatsInFlight, TypeOK
<1>3. DrainingIsIdle' /\ RowsKept
  BY <1>1 DEF DrainInv, DrainingIsIdle, Draining, ActiveOn, RowsKept
<1> QED
  BY <1>2, <1>3 DEF DrainInv

\* A deleted row has lost its instance.
LEMMA DeletionKeepsDrains ==
  ASSUME IInv, DrainInv, NEW n \in Nodes, MarkNodeDeleted(n)
  PROVE  /\ DrainInv'
         /\ \A m \in Nodes \ {n} : nodes'[m] = nodes[m]
         /\ nodes'[n].elastic /\ nodes'[n].status = "deleted" /\ nodes'[n].instance = NoInstance
<1> USE DEF IInv
<1>1. /\ \A m \in Nodes \ {n} : nodes'[m] = nodes[m]
      /\ nodes'[n].elastic /\ nodes'[n].status = "deleted" /\ nodes'[n].instance = NoInstance
      /\ UNCHANGED <<runs, heartbeats>>
  BY DEF MarkNodeDeleted, TypeOK
<1>2. HeartbeatsInFlight'
  BY <1>1 DEF DrainInv, HeartbeatsInFlight, TypeOK
<1>3. DrainingIsIdle'
  BY <1>1 DEF DrainInv, DrainingIsIdle, Draining, ActiveOn
<1> QED
  BY <1>1, <1>2, <1>3 DEF DrainInv

-----------------------------------------------------------------------------
(* Where a pass goes. *)

USE FleetBoundsAssumption
USE DEF Loop, Passes, Steps, Tokens, StartOfPass

\* What every step of the fleet does.
OwnershipStays ==
  \A i \in Instances :
    Alive(i) /\ Owned(i) /\ vm'[i] = "alive" => Owned(i)' \/ faults' > faults

Step == [Next]_vars /\ LoopInv' /\ DrainInv' /\ OwnershipStays

LEMMA FreshPass ==
  ASSUME loop' \in Loop, loop'.todo = {},
         loop'.step = "read" \/ (loop'.step = "list" /\ loop'.pass = "idle")
  PROVE  InHand'
BY DEF InHand

LEMMA StartIsFresh ==
  ASSUME loop' = StartOfPass
  PROVE  loop' \in Loop /\ InHand'
<1>1. loop' \in Loop /\ loop'.todo = {} /\ loop'.step = "read"
  OBVIOUS
<1> QED
  BY <1>1, FreshPass

LEMMA AfterItemsKeeps ==
  ASSUME NEW failed \in BOOLEAN, loop.pass \in Passes \ {"capacity"}, AfterItems(failed)
  PROVE  loop' \in Loop /\ InHand'
<1>1. loop' \in Loop /\ loop'.todo = {} /\ loop'.step = "read"
  BY DEF AfterItems
<1> QED
  BY <1>1, FreshPass

\* The other items of a pass are as they were read.
LEMMA ItemDoneKeeps ==
  ASSUME LoopTypes, NEW failed \in BOOLEAN, NEW n, loop.pass # "capacity", ItemDone(n, failed),
         \A item \in loop.todo :
           item.node # n => /\ nodes'[item.node].elastic
                            /\ nodes'[item.node].instance \in {item.instance, NoInstance}
  PROVE  loop' \in Loop /\ InHand'
<1> DEFINE rest == {item \in loop.todo : item.node # n}
<1>1. CASE rest = {}
  BY <1>1, AfterItemsKeeps DEF ItemDone, LoopTypes
<1>2. CASE rest # {}
  <2>1. /\ loop' = [StartOfPass EXCEPT !.pass = loop.pass, !.step = "item", !.todo = rest,
                                       !.failed = failed]
        /\ rest \subseteq loop.todo /\ loop.pass \in Passes
    BY <1>2 DEF ItemDone, Goto, LoopTypes
  <2> HIDE DEF rest
  <2>2. /\ loop'.pass = loop.pass /\ loop'.step = "item" /\ loop'.todo = rest
        /\ loop' \in Loop
    BY <2>1 DEF LoopTypes
  <2>3. \A item \in rest : /\ nodes'[item.node].elastic
                           /\ nodes'[item.node].instance \in {item.instance, NoInstance}
    BY DEF rest
  <2> QED
    BY <2>2, <2>3 DEF InHand
<1> QED
  BY <1>1, <1>2

\* A pass starts with rows as they are.
LEMMA WorkKeeps ==
  ASSUME LoopTypes, IInv, NEW status, NEW items, items \subseteq Listed(status),
         loop.pass # "capacity", Work(items), UNCHANGED nodes
  PROVE  loop' \in Loop /\ InHand'
<1>1. CASE items = {}
  BY <1>1, AfterItemsKeeps DEF Work, LoopTypes
<1>2. CASE items # {}
  <2>1. \A item \in items : /\ item \in [node: Nodes, instance: Instances \cup {NoInstance}]
                            /\ nodes[item.node].elastic
                            /\ nodes[item.node].instance = item.instance
    BY DEF Listed, IInv, TypeOK
  <2>2. /\ loop'.pass = loop.pass /\ loop'.step = "item" /\ loop'.todo = items
        /\ loop' \in Loop
    <3>1. loop' = [StartOfPass EXCEPT !.pass = loop.pass, !.step = "item", !.todo = items,
                                      !.failed = FALSE]
      BY <1>2 DEF Work, Goto
    <3>2. items \in SUBSET [node: Nodes, instance: Instances \cup {NoInstance}] /\ loop.pass \in Passes
      BY <2>1 DEF LoopTypes
    <3> QED
      BY <3>1, <3>2
  <2> QED
    BY <2>1, <2>2 DEF InHand
<1> QED
  BY <1>1, <1>2

(* Steps beside the pass. *)

LEMMA NamesKept ==
  ASSUME LoopInv, RowsKept, UNCHANGED name
  PROVE  NamedRows' /\ OneNodePerGeneration'
BY DEF LoopInv, LoopTypes, NamedRows, OneNodePerGeneration, RowsKept

LEMMA BesideThePass ==
  ASSUME LoopInv, [Next]_vars, DrainInv', RowsKept, UNCHANGED <<vm, name, loop>>,
         faults' \in 0..MaxFaults
  PROVE  Step
<1>1. LoopTypes' /\ NamedRows' /\ OneNodePerGeneration'
  BY NamesKept DEF LoopInv, LoopTypes
<1>2. InHand'
  <2>1. \A n \in Nodes : nodes[n].elastic => nodes'[n].elastic /\ nodes'[n].instance = nodes[n].instance
    BY DEF RowsKept
  <2>2. HasProvisioning(loop.candidate)' => HasProvisioning(loop.candidate)
    BY DEF HasProvisioning, RowsKept
  <2>3. \A item \in loop.todo : item.node \in Nodes
    BY DEF LoopInv, LoopTypes
  <2> QED
    BY <2>1, <2>2, <2>3 DEF LoopInv, InHand
<1>3. OwnershipStays
  BY DEF OwnershipStays, Owned, RowsKept
<1> QED
  BY <1>1, <1>2, <1>3 DEF Step, LoopInv

\* A step of the pass that is not at an instance of its own.
LEMMA InThePass ==
  ASSUME LoopInv, [Next]_vars, DrainInv', RowsKept, UNCHANGED name,
         loop' \in Loop, InHand', faults' \in 0..MaxFaults,
         vm' \in [Instances -> {"unborn", "alive", "gone"}],
         loop.step \notin {"bind", "unbind"}
  PROVE  Step
<1>1. LoopTypes' /\ NamedRows' /\ OneNodePerGeneration'
  BY NamesKept DEF LoopInv, LoopTypes
<1>2. OwnershipStays
  BY DEF OwnershipStays, Owned, RowsKept
<1> QED
  BY <1>1, <1>2 DEF Step, LoopInv

LEMMA FaultsBounded ==
  ASSUME LoopTypes, Fault \/ NoFault
  PROVE  faults' \in 0..MaxFaults
BY DEF LoopTypes, Fault, NoFault

-----------------------------------------------------------------------------
(* One lemma per step of the pass. *)

LEMMA ReadingStep ==
  ASSUME FleetInv, UNCHANGED <<vars, vm, name>>, Fault \/ NoFault,
         loop' \in Loop, InHand', loop.step \notin {"bind", "unbind"}
  PROVE  Step
<1>1. DrainInv' /\ RowsKept
  BY SameStore DEF FleetInv, IInv, vars
<1>2. vm' \in [Instances -> {"unborn", "alive", "gone"}]
  BY DEF FleetInv, LoopInv, LoopTypes
<1> QED
  BY <1>1, <1>2, FaultsBounded, InThePass DEF FleetInv, LoopInv

LEMMA ListingStep ==
  ASSUME FleetInv,
         \/ reconcileTerminatingNodes \/ reconcileStaleProvisioningNodes
         \/ reconcileIdleNodes \/ listIdleNodes
  PROVE  Step
<1>1. UNCHANGED <<vars, vm, name>> /\ NoFault /\ UNCHANGED nodes
  BY DEF reconcileTerminatingNodes, reconcileStaleProvisioningNodes, reconcileIdleNodes,
         listIdleNodes, LoopOnly, vars
<1>2. loop' \in Loop /\ InHand'
  <2>1. CASE reconcileTerminatingNodes
    <3>1. {item \in Listed("draining") : item.instance # NoInstance} \subseteq Listed("draining")
      OBVIOUS
    <3> QED
      BY <1>1, <2>1, <3>1, WorkKeeps DEF FleetInv, LoopInv, reconcileTerminatingNodes, At
  <2>2. CASE reconcileStaleProvisioningNodes
    <3>1. {item \in Listed("provisioning") : item.node \in aged} \subseteq Listed("provisioning")
      OBVIOUS
    <3> QED
      BY <1>1, <2>2, <3>1, WorkKeeps DEF FleetInv, LoopInv, reconcileStaleProvisioningNodes, At
  <2>3. CASE reconcileIdleNodes
    <3>1. loop' \in Loop /\ loop'.todo = {}
          /\ (loop'.step = "read" \/ (loop'.step = "list" /\ loop'.pass = "idle"))
      <4>1. CASE loop' = StartOfPass
        BY <4>1
      <4>2. CASE loop' = [StartOfPass EXCEPT !.pass = "idle", !.step = "list", !.todo = {},
                                             !.failed = FALSE]
        BY <4>2
      <4> QED
        BY <2>3, <4>1, <4>2 DEF reconcileIdleNodes, Goto
    <3> QED
      BY <3>1, FreshPass
  <2>4. CASE listIdleNodes
    <3>1. {item \in Listed("ready") : item.instance # NoInstance} \subseteq Listed("ready")
      OBVIOUS
    <3> QED
      BY <1>1, <2>4, <3>1, WorkKeeps DEF FleetInv, LoopInv, listIdleNodes, At
  <2> QED
    BY <2>1, <2>2, <2>3, <2>4
<1>3. loop.step \notin {"bind", "unbind"}
  BY DEF reconcileTerminatingNodes, reconcileStaleProvisioningNodes, reconcileIdleNodes,
         listIdleNodes, At
<1> QED
  BY <1>1, <1>2, <1>3, ReadingStep

LEMMA ReconcileNodeDeletionStep ==
  ASSUME FleetInv, reconcileNodeDeletion
  PROVE  Step
<1> USE DEF FleetInv, LoopInv
<1>1. loop.step = "item" /\ loop.pass # "capacity" /\ UNCHANGED <<vm, name>> /\ NoFault
  BY DEF reconcileNodeDeletion, NoProviderCall
<1>2. PICK item \in loop.todo :
        \/ drainItem(item.node)
        \/ DeleteNext(item.node, nodes[item.node].instance) /\ UNCHANGED vars
  BY DEF reconcileNodeDeletion
<1> DEFINE n == item.node
<1>3. n \in Nodes /\ nodes[n].elastic /\ nodes[n].instance \in Instances \cup {NoInstance}
  BY DEF LoopTypes, InHand, IInv, TypeOK
<1>4. ASSUME DeleteNext(n, nodes[n].instance), RowsKept
      PROVE  loop' \in Loop /\ InHand'
  <2>1. /\ loop'.step = "delete" /\ loop'.node = n /\ loop'.instance = nodes[n].instance
        /\ loop'.pass = loop.pass /\ loop'.todo = loop.todo /\ loop' \in Loop
    BY <1>3, <1>4 DEF DeleteNext, LoopTypes
  <2>2. \A m \in Nodes : nodes[m].elastic => nodes'[m].elastic /\ nodes'[m].instance = nodes[m].instance
    BY <1>4 DEF RowsKept
  <2>3. \A x \in loop.todo : x.node \in Nodes
    BY DEF LoopTypes
  <2> QED
    BY <1>1, <1>3, <2>1, <2>2, <2>3 DEF InHand
<1>5. CASE PrepareNodeDeletion(n) /\ DeleteNext(n, nodes[n].instance)
  <2>1. DrainInv' /\ RowsKept
    BY <1>3, <1>5, DrainKeepsDrains
  <2>2. [Next]_vars
    BY <1>3, <1>5 DEF Next, NodeStep
  <2>3. vm' \in [Instances -> {"unborn", "alive", "gone"}]
    BY <1>1 DEF LoopTypes
  <2> QED
    BY <1>1, <1>4, <1>5, <2>1, <2>2, <2>3, FaultsBounded, InThePass
<1>6. CASE ItemDone(n, loop.failed) /\ UNCHANGED vars
  <2>1. loop' \in Loop /\ InHand'
    <3>1. loop.failed \in BOOLEAN /\ UNCHANGED nodes
      BY <1>6 DEF LoopTypes, vars
    <3> QED
      BY <1>1, <1>6, <3>1, ItemDoneKeeps DEF InHand
  <2> QED
    BY <1>1, <1>6, <2>1, ReadingStep
<1>7. CASE DeleteNext(n, nodes[n].instance) /\ UNCHANGED vars
  <2>1. RowsKept
    BY <1>7 DEF RowsKept, vars
  <2> QED
    BY <1>1, <1>4, <1>7, <2>1, ReadingStep
<1> QED
  BY <1>2, <1>5, <1>6, <1>7 DEF drainItem

LEMMA ReconcileStaleProvisioningNodeStep ==
  ASSUME FleetInv, reconcileStaleProvisioningNode
  PROVE  Step
<1> USE DEF FleetInv, LoopInv
<1>1. loop.step = "item" /\ loop.pass = "stale" /\ UNCHANGED <<vars, vm, name, nodes>> /\ NoFault
  BY DEF reconcileStaleProvisioningNode, At, LoopOnly, vars
<1>2. PICK item \in loop.todo :
        loop' = [loop EXCEPT !.step = IF item.instance = NoInstance THEN "mark" ELSE "delete",
                             !.node = item.node, !.instance = item.instance]
  BY DEF reconcileStaleProvisioningNode
<1>3. item.node \in Nodes /\ item.instance \in Instances \cup {NoInstance}
  BY DEF LoopTypes
<1>4. /\ loop'.step = IF item.instance = NoInstance THEN "mark" ELSE "delete"
      /\ loop'.node = item.node /\ loop'.instance = item.instance
      /\ loop'.pass = loop.pass /\ loop'.todo = loop.todo /\ loop' \in Loop
  BY <1>2, <1>3 DEF LoopTypes
<1>5. InHand'
  BY <1>1, <1>3, <1>4 DEF InHand
<1> QED
  BY <1>1, <1>4, <1>5, ReadingStep

LEMMA DeleteProviderNodeStep ==
  ASSUME FleetInv, deleteProviderNode
  PROVE  Step
<1> USE DEF FleetInv, LoopInv
<1>1. /\ loop.step = "delete" /\ loop.pass # "capacity" /\ UNCHANGED <<vars, name, nodes>>
      /\ loop.instance \in Instances \cup {NoInstance}
      /\ Fault \/ NoFault
  BY DEF deleteProviderNode, InHand, vars, LoopTypes
<1>2. DrainInv' /\ RowsKept
  BY <1>1, SameStore DEF IInv, vars
<1>3. CASE Terminate(loop.instance) /\ loop' = [loop EXCEPT !.step = "mark"]
  <2>1. vm' \in [Instances -> {"unborn", "alive", "gone"}]
        /\ (loop.instance \in Instances => vm'[loop.instance] = "gone")
    BY <1>3 DEF Terminate, LoopTypes
  <2>2. /\ loop' \in Loop /\ loop'.step = "mark" /\ loop'.node = loop.node
        /\ loop'.pass = loop.pass /\ loop'.todo = loop.todo
    BY <1>3 DEF LoopTypes
  <2>3. InHand'
    BY <1>1, <2>1, <2>2 DEF InHand
  <2> QED
    BY <1>1, <1>2, <2>1, <2>2, <2>3, FaultsBounded, InThePass
<1>4. CASE ItemDone(loop.node, TRUE) /\ (NoProviderCall \/ Terminate(loop.instance))
  <2>1. loop' \in Loop /\ InHand'
    BY <1>1, <1>4, ItemDoneKeeps DEF InHand
  <2>2. vm' \in [Instances -> {"unborn", "alive", "gone"}]
    BY <1>4 DEF NoProviderCall, Terminate, LoopTypes
  <2> QED
    BY <1>1, <1>2, <2>1, <2>2, FaultsBounded, InThePass
<1> QED
  BY <1>3, <1>4 DEF deleteProviderNode

\* Rows and instances stay with the loop when a row without a live instance is deleted.
LEMMA DroppingARow ==
  ASSUME FleetInv, loop.step = "mark", MarkNodeDeleted(loop.node),
         UNCHANGED <<vm, name>>, NoFault, loop' \in Loop, InHand'
  PROVE  Step
<1> USE DEF FleetInv, LoopInv
<1>1. loop.node \in Nodes
  BY DEF InHand
<1>2. /\ DrainInv'
      /\ \A m \in Nodes \ {loop.node} : nodes'[m] = nodes[m]
      /\ nodes'[loop.node].elastic /\ nodes'[loop.node].status = "deleted"
      /\ nodes'[loop.node].instance = NoInstance
  BY <1>1, DeletionKeepsDrains
<1>3. [Next]_vars
  BY <1>1 DEF Next, NodeStep
<1>4. NamedRows' /\ OneNodePerGeneration'
  BY <1>1, <1>2 DEF NamedRows, OneNodePerGeneration, InHand
<1>5. LoopTypes'
  BY FaultsBounded DEF LoopTypes
<1>6. OwnershipStays
  <2>1. \/ nodes[loop.node].instance = NoInstance
        \/ vm[nodes[loop.node].instance] = "gone"
    BY DEF InHand
  <2>2. \A i \in Instances : i # NoInstance
    BY NullAssumption
  <2> QED
    BY <1>2, <2>1, <2>2 DEF OwnershipStays, Owned, Alive
<1> QED
  BY <1>2, <1>3, <1>4, <1>5, <1>6 DEF Step

LEMMA MarkNodeDeletedStep ==
  ASSUME FleetInv, markNodeDeleted
  PROVE  Step
<1> USE DEF FleetInv, LoopInv
<1>1. /\ loop.step = "mark" /\ loop.pass # "capacity" /\ MarkNodeDeleted(loop.node)
      /\ UNCHANGED <<vm, name>> /\ NoFault
  BY DEF markNodeDeleted, NoProviderCall
<1>2. /\ loop.node \in Nodes
      /\ \A m \in Nodes \ {loop.node} : nodes'[m] = nodes[m]
      /\ nodes'[loop.node].elastic /\ nodes'[loop.node].instance = NoInstance
  BY <1>1, DeletionKeepsDrains DEF InHand
<1>3. \A item \in loop.todo : /\ nodes'[item.node].elastic
                              /\ nodes'[item.node].instance \in {item.instance, NoInstance}
  BY <1>2 DEF InHand, LoopTypes
<1>4. loop' \in Loop /\ InHand'
  <2>1. CASE loop' = [loop EXCEPT !.step = "fail"]
    <3>1. /\ loop' \in Loop /\ loop'.step = "fail" /\ loop'.node = loop.node
          /\ loop'.pass = loop.pass /\ loop'.todo = loop.todo
      BY <2>1 DEF LoopTypes
    <3> QED
      BY <1>1, <1>2, <1>3, <3>1 DEF InHand
  <2>2. CASE ItemDone(loop.node, loop.failed)
    <3>1. loop.failed \in BOOLEAN
      BY DEF LoopTypes
    <3> QED
      BY <1>1, <1>3, <2>2, <3>1, ItemDoneKeeps
  <2> QED
    BY <2>1, <2>2 DEF markNodeDeleted
<1> QED
  BY <1>1, <1>4, DroppingARow

LEMMA FailStaleRunStep ==
  ASSUME FleetInv, failStaleRun
  PROVE  Step
<1> USE DEF FleetInv, LoopInv
<1> DEFINE t == name[loop.node]
<1>1. /\ loop.step = "fail" /\ loop.pass = "stale" /\ UNCHANGED <<vm, name>> /\ NoFault
      /\ ItemDone(loop.node, loop.failed) /\ t \in Tokens
  BY DEF failStaleRun, At, NoProviderCall, InHand, NamedRows
<1>2. t.service \in Services /\ t.generation \in Generations
  BY <1>1
<1>3. CASE MarkPendingServiceRunFailedForProvisioningNode(t.service, t.generation)
  <2>1. DrainInv' /\ RowsKept /\ UNCHANGED nodes
    BY <1>2, <1>3, FailingIsQuiet DEF MarkPendingServiceRunFailedForProvisioningNode
  <2>2. [Next]_vars
    BY <1>2, <1>3 DEF Next, RunStep
  <2>3. loop' \in Loop /\ InHand'
    <3>1. loop.failed \in BOOLEAN
      BY DEF LoopTypes
    <3> QED
      BY <1>1, <2>1, <3>1, ItemDoneKeeps DEF InHand
  <2>4. vm' \in [Instances -> {"unborn", "alive", "gone"}]
    BY <1>1 DEF LoopTypes
  <2> QED
    BY <1>1, <2>1, <2>2, <2>3, <2>4, FaultsBounded, InThePass
<1>4. CASE UNCHANGED vars
  <2>1. loop' \in Loop /\ InHand'
    <3>1. loop.failed \in BOOLEAN /\ UNCHANGED nodes
      BY <1>4 DEF LoopTypes, vars
    <3> QED
      BY <1>1, <3>1, ItemDoneKeeps DEF InHand
  <2> QED
    BY <1>1, <1>4, <2>1, ReadingStep
<1> QED
  BY <1>3, <1>4 DEF failStaleRun

-----------------------------------------------------------------------------
(* Steps that provide capacity. *)

LEMMA ReconcilePendingExecutionCapacityStep ==
  ASSUME FleetInv, reconcilePendingExecutionCapacity
  PROVE  Step
<1> USE DEF FleetInv, LoopInv
<1>1. loop.step = "read" /\ loop.pass = "capacity" /\ UNCHANGED <<vars, vm, name, nodes>> /\ NoFault
  BY DEF reconcilePendingExecutionCapacity, At, LoopOnly, vars
<1>2. CASE CapacityIsThere
  <2>1. loop' \in Loop /\ loop'.todo = {} /\ loop'.step = "read"
    BY <1>2 DEF CapacityIsThere, Goto
  <2> QED
    BY <1>1, <2>1, FreshPass, ReadingStep
<1>3. ASSUME NEW s \in Candidates, ~HasProvisioning(CandidateToken(s)), ProvisionFor(s)
      PROVE  Step
  <2>1. s \in Services /\ runs[s].status = "pending"
    BY <1>3 DEF Candidates, IsPending
  <2>2. runs[s].generation \in Generations /\ runs[s].spec \in Specs
    BY <2>1, BoundsAssumption DEF IInv, TypeOK, Placement
  <2>3. CandidateToken(s) \in Tokens /\ Request[runs[s].spec] \in Nat
    BY <2>1, <2>2, RequestAssumption DEF CandidateToken
  <2>4. /\ loop'.step = "list" /\ loop'.pass = "capacity" /\ loop'.todo = loop.todo
        /\ loop'.candidate = CandidateToken(s) /\ loop' \in Loop
    BY <1>1, <1>3, <2>3 DEF ProvisionFor, LoopTypes
  <2>5. ~HasProvisioning(loop.candidate)'
    BY <1>1, <1>3, <2>4 DEF HasProvisioning
  <2>6. InHand'
    BY <1>1, <2>3, <2>4, <2>5 DEF InHand
  <2> QED
    BY <1>1, <2>4, <2>6, ReadingStep
<1> QED
  BY <1>2, <1>3 DEF reconcilePendingExecutionCapacity

LEMMA CreateProvisioningNodeStep ==
  ASSUME FleetInv, createProvisioningNode
  PROVE  Step
<1> USE DEF FleetInv, LoopInv
<1>1. /\ loop.step = "list" /\ loop.pass = "capacity" /\ UNCHANGED vm /\ NoFault
      /\ loop.candidate \in Tokens /\ ~HasProvisioning(loop.candidate) /\ loop.todo = {}
  BY DEF createProvisioningNode, At, NoProviderCall, InHand
<1>2. CASE loop' = StartOfPass /\ UNCHANGED <<vars, name>>
  BY <1>1, <1>2, StartIsFresh, ReadingStep
<1>3. ASSUME NEW n \in Nodes, CreateProvisioningNode(n), name' = [name EXCEPT ![n] = loop.candidate],
             loop' = [loop EXCEPT !.step = "create", !.node = n]
      PROVE  Step
  <2>1. /\ nodes[n].status = "absent" /\ \A m \in Nodes \ {n} : nodes'[m] = nodes[m]
        /\ nodes'[n].status = "provisioning" /\ nodes'[n].elastic
        /\ nodes'[n].instance = nodes[n].instance
        /\ UNCHANGED <<runs, heartbeats>>
    BY <1>3 DEF CreateProvisioningNode, IInv, TypeOK
  <2>2. DrainInv'
    <3>1. HeartbeatsInFlight'
      BY <2>1 DEF DrainInv, HeartbeatsInFlight, IInv, TypeOK
    <3>2. DrainingIsIdle'
      BY <2>1 DEF DrainInv, DrainingIsIdle, Draining, ActiveOn
    <3> QED
      BY <3>1, <3>2 DEF DrainInv
  <2>3. [Next]_vars
    BY <1>3 DEF Next, NodeStep
  <2>4. name' \in [Nodes -> Tokens \cup {NoToken}] /\ name'[n] = loop.candidate
        /\ \A m \in Nodes \ {n} : name'[m] = name[m]
    BY <1>1, <1>3 DEF LoopTypes
  <2>5. /\ loop'.step = "create" /\ loop'.pass = "capacity" /\ loop'.node = n /\ loop'.todo = {}
        /\ loop'.candidate = loop.candidate /\ loop' \in Loop
    BY <1>1, <1>3 DEF LoopTypes
  <2>6. NamedRows'
    BY <1>1, <2>1, <2>4 DEF NamedRows
  <2>7. OneNodePerGeneration'
    BY <1>1, <2>1, <2>4 DEF OneNodePerGeneration, HasProvisioning
  <2>8. InHand'
    BY <1>1, <2>1, <2>5 DEF InHand, NamedRows
  <2>9. LoopTypes'
    BY <1>1, <2>4, <2>5, FaultsBounded DEF LoopTypes
  <2>10. OwnershipStays
    BY <1>1, <2>1 DEF OwnershipStays, Owned
  <2> QED
    BY <2>2, <2>3, <2>6, <2>7, <2>8, <2>9, <2>10 DEF Step
<1> QED
  BY <1>2, <1>3 DEF createProvisioningNode

LEMMA CreateStep ==
  ASSUME FleetInv, create
  PROVE  Step
<1> USE DEF FleetInv, LoopInv
<1>1. /\ loop.step = "create" /\ loop.pass = "capacity" /\ UNCHANGED <<vars, name, nodes>>
      /\ Fault \/ NoFault
  BY DEF create, At, vars
<1>2. DrainInv' /\ RowsKept
  BY <1>1, SameStore DEF IInv, vars
<1>3. vm' \in [Instances -> {"unborn", "alive", "gone"}]
  BY DEF create, NoProviderCall, Launch, LoopTypes, InstanceFor, Unborn
<1>4. \/ loop' = [loop EXCEPT !.step = "mark"]
      \/ \E i \in Instances : loop' = [loop EXCEPT !.step = "bind", !.instance = i]
  BY DEF create, InstanceFor, Unborn
<1>5. /\ loop'.step \in {"mark", "bind"} /\ loop'.pass = "capacity" /\ loop'.node = loop.node
      /\ loop'.todo = loop.todo /\ loop'.candidate = loop.candidate /\ loop' \in Loop
      /\ loop'.step = "bind" => loop'.instance \in Instances
  BY <1>1, <1>4 DEF LoopTypes
<1>6. InHand'
  BY <1>1, <1>5 DEF InHand
<1> QED
  BY <1>1, <1>2, <1>3, <1>5, <1>6, FaultsBounded, InThePass

LEMMA BindStep ==
  ASSUME FleetInv, bind
  PROVE  Step
<1> USE DEF FleetInv, LoopInv
<1>1. /\ loop.step = "bind" /\ loop.pass = "capacity" /\ UNCHANGED <<vm, name>> /\ NoFault
      /\ loop.node \in Nodes /\ loop.instance \in Instances /\ nodes[loop.node].elastic
      /\ nodes[loop.node].instance = NoInstance
  BY DEF bind, At, NoProviderCall, InHand
<1>2. \A i \in Instances : i # NoInstance
  BY NullAssumption
<1>3. CASE BindProvisionedNode(loop.node, loop.instance) /\ loop' = StartOfPass
  <2>1. /\ \A m \in Nodes \ {loop.node} : nodes'[m] = nodes[m]
        /\ nodes[loop.node].status = "provisioning" /\ nodes'[loop.node].status = "provisioning"
        /\ nodes'[loop.node].elastic /\ nodes'[loop.node].instance = loop.instance
        /\ UNCHANGED <<runs, heartbeats>>
    BY <1>1, <1>3 DEF BindProvisionedNode, IInv, TypeOK
  <2>2. HeartbeatsInFlight'
    BY <2>1 DEF DrainInv, HeartbeatsInFlight, IInv, TypeOK
  <2>3. DrainingIsIdle'
    BY <2>1 DEF DrainInv, DrainingIsIdle, Draining, ActiveOn
  <2>4. [Next]_vars
    BY <1>1, <1>3 DEF Next, NodeStep
  <2>5. NamedRows' /\ OneNodePerGeneration'
    BY <1>1, <2>1 DEF NamedRows, OneNodePerGeneration
  <2>6. LoopTypes' /\ InHand'
    BY <1>1, <1>3, StartIsFresh, FaultsBounded DEF LoopTypes
  <2>7. OwnershipStays
    BY <1>1, <1>2, <2>1 DEF OwnershipStays, Owned
  <2> QED
    BY <2>2, <2>3, <2>4, <2>5, <2>6, <2>7 DEF Step, DrainInv
<1>4. CASE loop' = [loop EXCEPT !.step = "unbind"] /\ UNCHANGED vars
  <2>1. DrainInv' /\ RowsKept
    BY <1>4, SameStore DEF IInv, vars
  <2>2. /\ loop'.step = "unbind" /\ loop'.pass = "capacity" /\ loop'.node = loop.node
        /\ loop'.instance = loop.instance
        /\ loop'.todo = loop.todo /\ loop'.candidate = loop.candidate /\ loop' \in Loop
    BY <1>1, <1>4 DEF LoopTypes
  <2>3. InHand'
    BY <1>1, <1>4, <2>2 DEF InHand, vars
  <2>4. LoopTypes'
    BY <1>1, <2>2, FaultsBounded DEF LoopTypes
  <2>5. OwnershipStays
    BY <1>1, <2>1, <2>2 DEF OwnershipStays, Owned, RowsKept
  <2> QED
    BY <1>1, <1>4, <2>1, <2>3, <2>4, <2>5, NamesKept DEF Step
<1> QED
  BY <1>3, <1>4 DEF bind

LEMMA UnbindStep ==
  ASSUME FleetInv, unbind
  PROVE  Step
<1> USE DEF FleetInv, LoopInv
<1>1. /\ loop.step = "unbind" /\ loop.pass = "capacity" /\ UNCHANGED <<vars, name, nodes>>
      /\ Fault \/ NoFault
      /\ loop.instance \in Instances
  BY DEF unbind, At, vars, InHand
<1>2. DrainInv' /\ RowsKept
  BY <1>1, SameStore DEF IInv, vars
<1>3. vm' \in [Instances -> {"unborn", "alive", "gone"}]
      /\ (vm'[loop.instance] = "gone" \/ (UNCHANGED vm /\ Fault))
  BY <1>1 DEF unbind, Terminate, NoProviderCall, LoopTypes
<1>4. /\ loop'.step = "mark" /\ loop'.pass = "capacity" /\ loop'.node = loop.node
      /\ loop'.todo = loop.todo /\ loop'.candidate = loop.candidate /\ loop' \in Loop
  BY <1>1 DEF unbind, LoopTypes
<1>5. InHand'
  BY <1>1, <1>4 DEF InHand
<1>6. LoopTypes'
  BY <1>1, <1>3, <1>4, FaultsBounded DEF LoopTypes
<1>7. OwnershipStays
  <2>1. Fault => faults' > faults
    BY DEF Fault, LoopTypes
  <2> QED
    BY <1>1, <1>2, <1>3, <2>1 DEF OwnershipStays, Owned, RowsKept
<1> QED
  BY <1>1, <1>2, <1>5, <1>6, <1>7, NamesKept DEF Step

LEMMA DropNodeStep ==
  ASSUME FleetInv, dropNode
  PROVE  Step
<1> USE DEF FleetInv, LoopInv
<1>1. /\ loop.step = "mark" /\ loop.pass = "capacity" /\ MarkNodeDeleted(loop.node)
      /\ UNCHANGED <<vm, name>> /\ NoFault /\ loop' = [loop EXCEPT !.step = "fail"]
      /\ loop.node \in Nodes
  BY DEF dropNode, At, NoProviderCall, InHand
<1>2. nodes'[loop.node].elastic
  BY <1>1, DeletionKeepsDrains
<1>3. /\ loop'.step = "fail" /\ loop'.pass = "capacity" /\ loop'.node = loop.node
      /\ loop'.todo = loop.todo /\ loop'.candidate = loop.candidate /\ loop' \in Loop
  BY <1>1 DEF LoopTypes
<1>4. InHand'
  BY <1>1, <1>2, <1>3 DEF InHand
<1> QED
  BY <1>1, <1>3, <1>4, DroppingARow

LEMMA FailCandidateStep ==
  ASSUME FleetInv, failCandidate
  PROVE  Step
<1> USE DEF FleetInv, LoopInv
<1> DEFINE s == loop.candidate.service
<1>1. /\ loop.step = "fail" /\ loop.pass = "capacity" /\ loop' = StartOfPass
      /\ UNCHANGED <<vm, name>> /\ NoFault /\ s \in Services
  BY DEF failCandidate, At, NoProviderCall, InHand
<1>2. loop' \in Loop /\ InHand'
  BY <1>1, StartIsFresh
<1>3. CASE MarkServiceRunFailed(s)
  <2>1. DrainInv' /\ RowsKept
    BY <1>1, <1>3, FailingIsQuiet DEF MarkServiceRunFailed
  <2>2. [Next]_vars
    BY <1>1, <1>3 DEF Next, RunStep
  <2>3. vm' \in [Instances -> {"unborn", "alive", "gone"}]
    BY <1>1 DEF LoopTypes
  <2> QED
    BY <1>1, <1>2, <2>1, <2>2, <2>3, FaultsBounded, InThePass
<1>4. CASE UNCHANGED vars
  BY <1>1, <1>2, <1>4, ReadingStep
<1> QED
  BY <1>3, <1>4 DEF failCandidate

-----------------------------------------------------------------------------
(* One lemma per step beside the pass. *)

LEMMA CallerStep ==
  ASSUME FleetInv, Caller
  PROVE  Step
<1>1. DrainInv' /\ RowsKept
  BY ServiceStepIsQuiet DEF FleetInv, Caller
<1>2. [Next]_vars
  BY DEF Caller, Next
<1> QED
  BY <1>1, <1>2, FaultsBounded, BesideThePass DEF FleetInv, LoopInv, Caller, Environment

LEMMA RegisterStep ==
  ASSUME FleetInv, NEW i \in Instances, NEW n \in Nodes, Register(i, n)
  PROVE  Step
<1>1. DrainInv' /\ RowsKept
  BY RegisterKeepsDrains DEF FleetInv, Register
<1>2. [Next]_vars
  BY DEF Register, Next, NodeStep
<1> QED
  BY <1>1, <1>2, FaultsBounded, BesideThePass DEF FleetInv, LoopInv, Register, Environment

LEMMA HeartbeatReadStep ==
  ASSUME FleetInv, NEW n \in Nodes, HeartbeatRead(n)
  PROVE  Step
<1>1. DrainInv' /\ RowsKept
  BY HeartbeatReadKeepsDrains DEF FleetInv, HeartbeatRead
<1>2. [Next]_vars
  BY DEF HeartbeatRead, Next, NodeStep
<1> QED
  BY <1>1, <1>2, FaultsBounded, BesideThePass DEF FleetInv, LoopInv, HeartbeatRead, Environment

LEMMA HeartbeatWriteStep ==
  ASSUME FleetInv, NEW h \in heartbeats, HeartbeatWrite(h)
  PROVE  Step
<1>1. DrainInv' /\ RowsKept
  BY HeartbeatWriteKeepsDrains DEF FleetInv, HeartbeatWrite
<1>2. [Next]_vars
  BY DEF HeartbeatWrite, Next, NodeStep
<1> QED
  BY <1>1, <1>2, FaultsBounded, BesideThePass DEF FleetInv, LoopInv, HeartbeatWrite, Environment

LEMMA ClaimStep ==
  ASSUME FleetInv, NEW n \in Nodes, NEW s \in Services, Claim(n, s)
  PROVE  Step
<1>1. DrainInv' /\ RowsKept
  BY ClaimKeepsDrains DEF FleetInv, Claim
<1>2. [Next]_vars
  BY DEF Claim, Next, RunStep
<1> QED
  BY <1>1, <1>2, FaultsBounded, BesideThePass DEF FleetInv, LoopInv, Claim, Environment

LEMMA ReportStep ==
  ASSUME FleetInv, NEW w \in issued, NEW status \in Outcomes(w.action), Report(w, status)
  PROVE  Step
<1>1. DrainInv' /\ RowsKept
  BY ReportIsQuiet DEF FleetInv, Report
<1>2. [Next]_vars
  BY DEF Report, Next, RunStep
<1> QED
  BY <1>1, <1>2, FaultsBounded, BesideThePass DEF FleetInv, LoopInv, Report, Environment

LEMMA NodeHealthStep ==
  ASSUME FleetInv, NEW Stale \in SUBSET Nodes, NodeHealth(Stale)
  PROVE  Step
<1>1. DrainInv' /\ RowsKept
  BY OfflineKeepsDrains DEF FleetInv, NodeHealth
<1>2. [Next]_vars
  BY DEF NodeHealth, Next, NodeStep
<1>3. Fault \/ NoFault
  BY DEF NodeHealth
<1> QED
  BY <1>1, <1>2, <1>3, FaultsBounded, BesideThePass DEF FleetInv, LoopInv, NodeHealth, Environment

LEMMA AgeStep ==
  ASSUME FleetInv, NEW n \in Nodes, Age(n)
  PROVE  Step
<1>1. DrainInv' /\ RowsKept
  BY SameStore DEF FleetInv, IInv, Age, vars
<1>2. faults' \in 0..MaxFaults
  BY DEF FleetInv, LoopInv, LoopTypes, Age
<1> QED
  BY <1>1, <1>2, BesideThePass DEF FleetInv, Age

LEMMA CrashStep ==
  ASSUME FleetInv, Crash
  PROVE  Step
<1> USE DEF FleetInv, LoopInv
<1>1. [Next]_vars
  BY DEF Crash, Next, CloudPlaneRestart, vars
<1>2. DrainInv' /\ RowsKept
  <2>1. RowsOnlyBook /\ NothingActivated /\ heartbeats' \subseteq heartbeats
    BY DEF Crash, RowsOnlyBook, NothingActivated, Active
  <2> QED
    BY <2>1, QuietStep, BookingIsKept DEF IInv
<1>3. LoopTypes' /\ InHand'
  BY StartIsFresh, FaultsBounded DEF Crash, LoopTypes
<1>4. OwnershipStays
  BY DEF Crash, Fault, OwnershipStays, LoopTypes
<1>5. NamedRows' /\ OneNodePerGeneration'
  BY <1>2, NamesKept DEF Crash
<1> QED
  BY <1>1, <1>2, <1>3, <1>4, <1>5 DEF Step

-----------------------------------------------------------------------------
LEMMA FleetInvInit == ReconcilerInit => FleetInv
<1> SUFFICES ASSUME ReconcilerInit PROVE FleetInv
  OBVIOUS
<1>1. IInv
  BY InitInv DEF ReconcilerInit
<1>2. LoopTypes
  <2>1. StartOfPass \in Loop
    OBVIOUS
  <2>2. vm \in [Instances -> {"unborn", "alive", "gone"}]
    BY DEF ReconcilerInit
  <2>3. name \in [Nodes -> Tokens \cup {NoToken}]
    BY DEF ReconcilerInit
  <2> QED
    BY <2>1, <2>2, <2>3 DEF ReconcilerInit, LoopTypes
<1>3. NamedRows /\ OneNodePerGeneration
  BY DEF ReconcilerInit, Init, NoNodeRow, NamedRows, OneNodePerGeneration
<1>4. InHand
  BY DEF ReconcilerInit, InHand
<1>5. DrainInv
  BY DEF ReconcilerInit, Init, NoNodeRow, DrainInv, HeartbeatsInFlight, DrainingIsIdle, Draining
<1> QED
  BY <1>1, <1>2, <1>3, <1>4, <1>5 DEF FleetInv, LoopInv

LEMMA FleetStep ==
  ASSUME FleetInv, [ReconcilerNext]_allVars
  PROVE  Step
<1>1. CASE reconcileOnce
  BY <1>1, ListingStep, ReconcileNodeDeletionStep, ReconcileStaleProvisioningNodeStep,
     DeleteProviderNodeStep, MarkNodeDeletedStep, FailStaleRunStep,
     ReconcilePendingExecutionCapacityStep, CreateProvisioningNodeStep, CreateStep,
     BindStep, UnbindStep, DropNodeStep, FailCandidateStep DEF reconcileOnce
<1>2. CASE UNCHANGED allVars
  <2>1. UNCHANGED <<vars, vm, name, loop, faults>>
    BY <1>2 DEF allVars, fleetVars
  <2>2. DrainInv' /\ RowsKept /\ faults' \in 0..MaxFaults
    BY <2>1, SameStore DEF FleetInv, IInv, vars, LoopInv, LoopTypes
  <2> QED
    BY <2>1, <2>2, BesideThePass DEF FleetInv
<1> QED
  BY <1>1, <1>2, CallerStep, CrashStep, RegisterStep, HeartbeatReadStep, AgeStep,
     HeartbeatWriteStep, ClaimStep, ReportStep, NodeHealthStep DEF ReconcilerNext

LEMMA FleetInvStep == FleetInv /\ [ReconcilerNext]_allVars => FleetInv'
BY FleetStep, NextInv DEF FleetInv, Step

\* The inductive invariant holds through every pass of reconcileOnce, whatever callers,
\* agents and the health loop do between its steps, and through crashes.
THEOREM FleetInvariance == ReconcilerSpec => []FleetInv
BY FleetInvInit, FleetInvStep, PTL DEF ReconcilerSpec

\* Every step of the fleet is one transaction of the store or leaves it alone, with
\* arguments the store's callers may use: what is proved of the store holds under it.
THEOREM FleetRunsTheStore == ReconcilerSpec => Spec
<1>1. ReconcilerInit => Init
  BY DEF ReconcilerInit
<1>2. FleetInv /\ [ReconcilerNext]_allVars => [Next]_vars
  BY FleetStep DEF Step
<1> QED
  BY <1>1, <1>2, FleetInvariance, PTL DEF ReconcilerSpec, Spec

\* So a service under the fleet moves the way its callers were promised,
THEOREM FleetImplementsLifecycle == ReconcilerSpec => StoreImplementsLifecycle
BY FleetRunsTheStore, StoreRefinesLifecycle

\* and a drain, a failed provisioning and a bind that comes too late leave the books of
\* every node exact, but for the deletions that BreaksBooks names.
THEOREM FleetKeepsBooks == ReconcilerSpec => BooksStayExact
BY FleetRunsTheStore, BooksAreExact

\* Drains, failed binds and deletions write status and schedulable together.
THEOREM FleetSchedulable == ReconcilerSpec => []SchedulableByStatus
BY FleetInvariance, PTL DEF FleetInv, IInv

\* GetNodeProvisioningCandidate sees the row an earlier pass has inserted for the run,
\* also when the process stopped after the insert.
THEOREM OneNodeForAGeneration == ReconcilerSpec => []OneNodePerGeneration
BY FleetInvariance, PTL DEF FleetInv, LoopInv

\* PrepareNodeDeletion drains an idle node, and no claim, report or restart makes it busy
\* while its row says draining.
THEOREM DrainingStaysIdle == ReconcilerSpec => []DrainingIsIdle
BY FleetInvariance, PTL DEF FleetInv, DrainInv

\* deleteProviderNode comes before MarkNodeDeleted, and an instance that cannot be bound
\* is deleted: the loop loses a live instance of its own only in the step of a fault.
THEOREM NoInstanceIsLost == ReconcilerSpec => InstancesStayOwned
<1>1. FleetInv /\ [ReconcilerNext]_allVars =>
        [\A i \in Instances :
           Alive(i) /\ Owned(i) /\ vm'[i] = "alive" => Owned(i)' \/ faults' > faults]_allVars
  BY FleetStep DEF Step, OwnershipStays
<1> QED
  BY <1>1, FleetInvariance, PTL DEF ReconcilerSpec, InstancesStayOwned

-----------------------------------------------------------------------------
(* The types of the fleet: what a pass has listed is still there when it gets to it, *)
(* and the run rows keep their order.                                                *)

RestTypes ==
  /\ token \in [Instances -> Tokens \cup {NoToken}]
  /\ agent \in [Instances -> Nodes \cup {NoNode}]
  /\ aged \subseteq Nodes

\* Until its turn comes a listed row keeps the instance it was listed with; only the
\* pass itself takes it away, from the row it has just deleted.
AsListed ==
  /\ \A item \in loop.todo :
       /\ loop.pass \in {"terminating", "idle"} => item.instance # NoInstance
       /\ \/ nodes[item.node].instance = item.instance
          \/ loop.step = "fail" /\ loop.node = item.node
  /\ loop.step = "delete" => loop.instance # NoInstance

(* The order of the run rows. *)

LEMMA FailingIsNoInsert ==
  ASSUME TypeOK, NEW s \in Services, runs[s].status # "absent",
         runs' = [runs EXCEPT ![s].status = "failed"]
  PROVE  Present' = Present
<1>1. \A r \in Services : runs'[r].status = IF r = s THEN "failed" ELSE runs[r].status
  BY DEF TypeOK
<1> QED
  BY <1>1 DEF Present

\* Only UpsertService inserts a run row, for its own service.
LEMMA OneRowAtATime ==
  ASSUME IInv, [Next]_vars
  PROVE  \A r, s \in Present' \ Present : r = s
<1> USE DEF IInv
<1>1. ASSUME NEW x \in Services, \A r \in Services \ {x} : runs'[r].status # "absent" => runs[r].status # "absent"
      PROVE  \A r, s \in Present' \ Present : r = s
  BY <1>1 DEF Present
<1>2. ASSUME \A r \in Services : runs'[r].status # "absent" => runs[r].status # "absent"
      PROVE  \A r, s \in Present' \ Present : r = s
  BY <1>2 DEF Present
<1>3. CASE ServiceStep
  <2>1. ASSUME NEW s \in Services, NEW g \in Generations, NEW spec \in Specs, UpsertService(s, g, spec)
        PROVE  \A r \in Services \ {s} : runs'[r] = runs[r]
    BY <2>1 DEF UpsertService, upsertServiceRunTx, TypeOK
  <2>2. ASSUME NEW s \in Services, NEW g \in Generations, DeleteServiceRead(s, g)
        PROVE  runs' = runs
    BY <2>2 DEF DeleteServiceRead
  <2>3. ASSUME NEW d \in deletes, DeleteServiceWrite(d)
        PROVE  d.service \in Services /\ \A r \in Services \ {d.service} : runs'[r] = runs[r]
    <3>1. d.service \in Services
      BY DEF TypeOK
    <3> QED
      BY <2>3, <3>1 DEF DeleteServiceWrite, deleteServiceRunTx, TypeOK
  <2> QED
    BY <1>1, <1>2, <1>3, <2>1, <2>2, <2>3 DEF ServiceStep
<1>4. CASE RunStep
  <2>1. ASSUME NEW s \in Services,
               \/ MarkServiceRunFailed(s)
               \/ \E g \in Generations : MarkPendingServiceRunFailedForProvisioningNode(s, g)
               \/ \E n \in Nodes : ClaimPendingDeleteRun(n, s)
               \/ \E n \in Nodes : ClaimPendingRun(n, s)
        PROVE  \A r \in Services \ {s} : runs'[r] = runs[r]
    BY <2>1 DEF MarkServiceRunFailed, MarkPendingServiceRunFailedForProvisioningNode,
                ClaimPendingDeleteRun, ClaimPendingRun, markServiceRunDeploying, TypeOK
  <2>2. ASSUME NEW w \in issued, NEW status \in Outcomes(w.action),
               UpdateExecutionFromNodeReport(w, status)
        PROVE  w.service \in Services /\ \A r \in Services \ {w.service} : runs'[r] = runs[r]
    <3>1. w.service \in Services
      BY DEF TypeOK
    <3> QED
      BY <2>2, <3>1 DEF UpdateExecutionFromNodeReport, TypeOK
  <2> QED
    BY <1>1, <1>4, <2>1, <2>2 DEF RunStep
<1>5. CASE NodeStep
  <2>1. ASSUME NEW Stale \in SUBSET Nodes, MarkStaleNodeHeartbeatsOffline(Stale)
        PROVE  \A r \in Services : runs'[r].status # "absent" => runs[r].status # "absent"
    BY <2>1 DEF MarkStaleNodeHeartbeatsOffline, Impacted
  <2>2. CASE runs' = runs
    BY <1>2, <2>2
  <2> QED
    BY <1>2, <1>5, <2>1, <2>2
       DEF NodeStep, CreateProvisioningNode, BindProvisionedNode, RegisterNode,
           RecordNodeHeartbeatRead, RecordNodeHeartbeatWrite, PrepareNodeDeletion, MarkNodeDeleted
<1>6. CASE CloudPlaneRestart \/ UNCHANGED vars
  BY <1>2, <1>6 DEF CloudPlaneRestart, vars
<1> QED
  BY <1>3, <1>4, <1>5, <1>6 DEF Next

LEMMA OrderStays ==
  ASSUME RowsInOrder, Present' = Present, UNCHANGED older
  PROVE  RowsInOrder'
BY DEF RowsInOrder

\* A row goes with its place, a new one is younger than all there are.
LEMMA CreatedKeepsOrder ==
  ASSUME RowsInOrder, Created, \A r, s \in Present' \ Present : r = s
  PROVE  RowsInOrder'
<1> DEFINE New == Present' \ Present
           Kept == Present' \ New
<1>1. \A r, s : <<r, s>> \in older' <=>
                  \/ r \in Present' /\ s \in Present' /\ <<r, s>> \in older
                  \/ r \in Kept /\ s \in New
  BY DEF Created
<1>2. \A r \in Kept : r \in Present /\ r \in Present'
  OBVIOUS
<1>3. older' \subseteq Present' \X Present'
  BY DEF Created
<1>4. \A r, s : <<r, s>> \in older => r \in Present /\ s \in Present
  BY DEF RowsInOrder
<1>5. ASSUME NEW r \in Present', NEW s \in Present'
      PROVE  <<r, s>> \in older' <=> r # s /\ <<s, r>> \notin older'
  <2>1. CASE r \in New /\ s \in New
    BY <1>1, <1>4, <2>1
  <2>2. CASE r \in New /\ s \in Kept
    BY <1>1, <1>4, <2>2
  <2>3. CASE r \in Kept /\ s \in New
    BY <1>1, <1>4, <2>3
  <2>4. CASE r \in Kept /\ s \in Kept
    BY <1>1, <1>2, <2>4 DEF RowsInOrder
  <2> QED
    BY <2>1, <2>2, <2>3, <2>4
<1>6. ASSUME NEW q \in Present', NEW r \in Present', NEW s \in Present',
             <<q, r>> \in older', <<r, s>> \in older'
      PROVE  <<q, s>> \in older'
  <2>1. q \in Kept /\ r \in Kept
    BY <1>1, <1>4, <1>6
  <2>2. CASE s \in New
    BY <1>1, <2>1, <2>2
  <2>3. CASE s \in Kept
    BY <1>1, <1>2, <1>6, <2>1, <2>3 DEF RowsInOrder
  <2> QED
    BY <2>2, <2>3
<1> QED
  BY <1>3, <1>5, <1>6 DEF RowsInOrder

\* A pass fails runs, it inserts and deletes none.
LEMMA PassKeepsOrder ==
  ASSUME FleetInv, RowsInOrder, reconcileOnce
  PROVE  RowsInOrder'
<1> USE DEF FleetInv, IInv
<1>1. CASE runs' = runs /\ UNCHANGED older
  BY <1>1, OrderStays DEF Present
<1>2. CASE failStaleRun
  <2> DEFINE t == name[loop.node]
  <2>1. t \in Tokens
    BY <1>2 DEF failStaleRun, At, LoopInv, InHand, NamedRows
  <2>2. CASE MarkPendingServiceRunFailedForProvisioningNode(t.service, t.generation)
    <3>1. Present' = Present
      BY <2>1, <2>2, FailingIsNoInsert DEF MarkPendingServiceRunFailedForProvisioningNode
    <3> QED
      BY <1>2, <3>1, OrderStays DEF failStaleRun
  <2> QED
    BY <1>1, <1>2, <2>2 DEF failStaleRun, vars
<1>3. CASE failCandidate
  <2>1. loop.candidate.service \in Services
    BY <1>3 DEF failCandidate, At, LoopInv, InHand
  <2>2. CASE MarkServiceRunFailed(loop.candidate.service)
    <3>1. Present' = Present
      BY <2>1, <2>2, FailingIsNoInsert DEF MarkServiceRunFailed
    <3> QED
      BY <1>3, <3>1, OrderStays DEF failCandidate
  <2> QED
    BY <1>1, <1>3, <2>2 DEF failCandidate, vars
<1>4. CASE reconcileNodeDeletion
  <2>1. runs' = runs
    BY <1>4 DEF reconcileNodeDeletion, drainItem, PrepareNodeDeletion, vars
  <2> QED
    BY <1>1, <1>4, <2>1 DEF reconcileNodeDeletion
<1>5. CASE \/ reconcileTerminatingNodes \/ reconcileStaleProvisioningNodes
           \/ reconcileIdleNodes \/ listIdleNodes \/ reconcileStaleProvisioningNode
           \/ reconcilePendingExecutionCapacity
  BY <1>1, <1>5 DEF reconcileTerminatingNodes, reconcileStaleProvisioningNodes, reconcileIdleNodes,
     listIdleNodes, reconcileStaleProvisioningNode, reconcilePendingExecutionCapacity, LoopOnly, vars
<1>6. CASE deleteProviderNode \/ create \/ unbind
  BY <1>1, <1>6 DEF deleteProviderNode, create, unbind, vars
<1>7. CASE markNodeDeleted \/ dropNode \/ createProvisioningNode \/ bind
  BY <1>1, <1>7 DEF markNodeDeleted, dropNode, createProvisioningNode, bind, MarkNodeDeleted,
     CreateProvisioningNode, BindProvisionedNode, vars
<1> QED
  BY <1>2, <1>3, <1>4, <1>5, <1>6, <1>7 DEF reconcileOnce

(* What the pass has listed. *)

LEMMA ItemDoneAsListed ==
  ASSUME LoopTypes, AsListed, NEW failed, NEW n, ItemDone(n, failed),
         loop.step = "fail" => n = loop.node,
         \A item \in loop.todo :
           item.node # n => nodes'[item.node].instance = nodes[item.node].instance
  PROVE  AsListed'
<1> DEFINE rest == {item \in loop.todo : item.node # n}
<1>1. CASE rest = {}
  <2>1. loop'.todo = {} /\ loop'.step = "read"
    BY <1>1 DEF ItemDone, AfterItems
  <2> QED
    BY <2>1 DEF AsListed
<1>2. CASE rest # {}
  <2>1. loop'.todo = rest /\ loop'.step = "item" /\ loop'.pass = loop.pass
    BY <1>2 DEF ItemDone, Goto
  <2> QED
    BY <2>1 DEF AsListed
<1> QED
  BY <1>1, <1>2

LEMMA WorkAsListed ==
  ASSUME NEW status, NEW items, items \subseteq Listed(status), Work(items), UNCHANGED nodes,
         loop.pass \in {"terminating", "idle"} => \A item \in items : item.instance # NoInstance
  PROVE  AsListed'
<1>1. CASE items = {}
  <2>1. loop'.todo = {} /\ loop'.step = "read"
    BY <1>1 DEF Work, AfterItems
  <2> QED
    BY <2>1 DEF AsListed
<1>2. CASE items # {}
  <2>1. loop'.todo = items /\ loop'.step = "item" /\ loop'.pass = loop.pass
    BY <1>2 DEF Work, Goto
  <2>2. \A item \in items : nodes'[item.node].instance = item.instance
    BY DEF Listed
  <2> QED
    BY <2>1, <2>2 DEF AsListed
<1> QED
  BY <1>1, <1>2

LEMMA PassAsListed ==
  ASSUME FleetInv, AsListed, reconcileOnce
  PROVE  AsListed'
<1> USE DEF FleetInv, LoopInv
<1>0. LoopTypes /\ InHand
  OBVIOUS
<1>1. CASE loop'.todo = {} /\ loop'.step # "delete"
  BY <1>1 DEF AsListed
<1>2. CASE reconcileTerminatingNodes
  <2>1. {item \in Listed("draining") : item.instance # NoInstance} \subseteq Listed("draining")
    OBVIOUS
  <2> QED
    BY <1>2, <2>1, WorkAsListed DEF reconcileTerminatingNodes, LoopOnly, vars
<1>3. CASE reconcileStaleProvisioningNodes
  <2>1. {item \in Listed("provisioning") : item.node \in aged} \subseteq Listed("provisioning")
    OBVIOUS
  <2> QED
    BY <1>3, <2>1, WorkAsListed DEF reconcileStaleProvisioningNodes, At, LoopOnly, vars
<1>4. CASE listIdleNodes
  <2>1. {item \in Listed("ready") : item.instance # NoInstance} \subseteq Listed("ready")
    OBVIOUS
  <2> QED
    BY <1>4, <2>1, WorkAsListed DEF listIdleNodes, LoopOnly, vars
<1>5. CASE reconcileIdleNodes
  <2>1. CASE loop' = StartOfPass
    BY <1>1, <2>1
  <2>2. CASE Goto("idle", "list", {}, FALSE)
    <3>1. loop'.todo = {} /\ loop'.step = "list"
      BY <2>2 DEF Goto
    <3> QED
      BY <1>1, <3>1
  <2> QED
    BY <1>5, <2>1, <2>2 DEF reconcileIdleNodes
<1>6. CASE reconcileNodeDeletion
  <2>1. PICK item \in loop.todo :
          \/ drainItem(item.node)
          \/ DeleteNext(item.node, nodes[item.node].instance) /\ UNCHANGED vars
    BY <1>6 DEF reconcileNodeDeletion
  <2>2. /\ loop.step = "item" /\ loop.pass \in {"terminating", "idle"}
        /\ item.node \in Nodes /\ nodes[item.node].instance # NoInstance
    BY <1>6 DEF reconcileNodeDeletion, AsListed, LoopTypes
  <2>3. ASSUME \A x \in loop.todo : nodes'[x.node].instance = nodes[x.node].instance,
               DeleteNext(item.node, nodes[item.node].instance)
        PROVE  AsListed'
    <3>1. /\ loop'.todo = loop.todo /\ loop'.pass = loop.pass
          /\ loop'.instance = nodes[item.node].instance
      BY <2>3 DEF DeleteNext, LoopTypes
    <3> QED
      BY <2>2, <2>3, <3>1 DEF AsListed
  <2>4. CASE PrepareNodeDeletion(item.node) /\ DeleteNext(item.node, nodes[item.node].instance)
    <3>1. \A x \in Nodes : nodes'[x].instance = nodes[x].instance
      BY <2>2, <2>4 DEF PrepareNodeDeletion, IInv, TypeOK
    <3>2. \A x \in loop.todo : x.node \in Nodes
      BY DEF LoopTypes
    <3> QED
      BY <2>3, <2>4, <3>1, <3>2
  <2>5. CASE ItemDone(item.node, loop.failed) /\ UNCHANGED vars
    BY <2>2, <2>5, ItemDoneAsListed DEF vars
  <2>6. CASE DeleteNext(item.node, nodes[item.node].instance) /\ UNCHANGED vars
    BY <2>3, <2>6 DEF vars
  <2> QED
    BY <2>1, <2>4, <2>5, <2>6 DEF drainItem
<1>7. CASE reconcileStaleProvisioningNode
  <2>1. PICK item \in loop.todo :
          loop' = [loop EXCEPT !.step = IF item.instance = NoInstance THEN "mark" ELSE "delete",
                               !.node = item.node, !.instance = item.instance]
    BY <1>7 DEF reconcileStaleProvisioningNode
  <2>2. loop.step = "item" /\ UNCHANGED nodes
    BY <1>7 DEF reconcileStaleProvisioningNode, At, LoopOnly, vars
  <2>3. /\ loop'.step = IF item.instance = NoInstance THEN "mark" ELSE "delete"
        /\ loop'.instance = item.instance /\ loop'.todo = loop.todo /\ loop'.pass = loop.pass
    BY <2>1 DEF LoopTypes
  <2> QED
    BY <2>2, <2>3 DEF AsListed
<1>8. CASE deleteProviderNode
  <2>1. loop.step = "delete" /\ UNCHANGED nodes
    BY <1>8 DEF deleteProviderNode, vars
  <2>2. CASE loop' = [loop EXCEPT !.step = "mark"]
    <3>1. loop'.step = "mark" /\ loop'.todo = loop.todo /\ loop'.pass = loop.pass
      BY <2>2 DEF LoopTypes
    <3> QED
      BY <2>1, <3>1 DEF AsListed
  <2>3. CASE ItemDone(loop.node, TRUE)
    BY <2>1, <2>3, ItemDoneAsListed
  <2> QED
    BY <1>8, <2>2, <2>3 DEF deleteProviderNode
<1>9. CASE markNodeDeleted
  <2>1. loop.step = "mark" /\ MarkNodeDeleted(loop.node) /\ loop.node \in Nodes
    BY <1>9 DEF markNodeDeleted, InHand
  <2>2. \A m \in Nodes \ {loop.node} : nodes'[m] = nodes[m]
    BY <2>1, DeletionKeepsDrains
  <2>3. \A x \in loop.todo : x.node # loop.node => nodes'[x.node].instance = nodes[x.node].instance
    BY <2>2 DEF LoopTypes
  <2>4. CASE loop' = [loop EXCEPT !.step = "fail"]
    <3>1. /\ loop'.step = "fail" /\ loop'.todo = loop.todo /\ loop'.pass = loop.pass
          /\ loop'.node = loop.node
      BY <2>4 DEF LoopTypes
    <3> QED
      BY <2>1, <2>3, <3>1 DEF AsListed
  <2>5. CASE ItemDone(loop.node, loop.failed)
    BY <2>1, <2>3, <2>5, ItemDoneAsListed
  <2> QED
    BY <1>9, <2>4, <2>5 DEF markNodeDeleted
<1>10. CASE failStaleRun
  <2>1. UNCHANGED nodes
    BY <1>10 DEF failStaleRun, MarkPendingServiceRunFailedForProvisioningNode, vars
  <2> QED
    BY <1>10, <2>1, ItemDoneAsListed DEF failStaleRun
<1>11. CASE reconcilePendingExecutionCapacity \/ createProvisioningNode \/ create \/ bind
            \/ unbind \/ dropNode \/ failCandidate
  <2>1. loop.pass = "capacity" /\ loop.todo = {}
    BY <1>11 DEF reconcilePendingExecutionCapacity, createProvisioningNode, create, bind, unbind,
       dropNode, failCandidate, At, InHand
  <2>2. \/ loop' = StartOfPass \/ CapacityIsThere
        \/ loop'.step # "delete" /\ loop'.todo = loop.todo
    BY <1>11 DEF reconcilePendingExecutionCapacity, createProvisioningNode, create, bind, unbind,
       dropNode, failCandidate, ProvisionFor, LoopTypes
  <2>3. CASE loop' = StartOfPass
    BY <1>1, <2>3
  <2>4. CASE CapacityIsThere
    <3>1. loop'.todo = {} /\ loop'.step = "read"
      BY <2>4 DEF CapacityIsThere, Goto
    <3> QED
      BY <1>1, <3>1
  <2> QED
    BY <1>1, <2>1, <2>2, <2>3, <2>4
<1> QED
  BY <1>2, <1>3, <1>4, <1>5, <1>6, <1>7, <1>8, <1>9, <1>10, <1>11 DEF reconcileOnce

(* Steps beside the pass. *)

LEMMA BesideKeepsRows ==
  ASSUME FleetInv,
         \/ Caller
         \/ \E i \in Instances, n \in Nodes : Register(i, n)
         \/ \E n \in Nodes : HeartbeatRead(n) \/ Age(n)
         \/ \E h \in heartbeats : HeartbeatWrite(h)
         \/ \E n \in Nodes, s \in Services : Claim(n, s)
         \/ \E w \in issued : \E status \in Outcomes(w.action) : Report(w, status)
         \/ \E Stale \in SUBSET Nodes : NodeHealth(Stale)
         \/ UNCHANGED allVars
  PROVE  RowsKept /\ UNCHANGED loop
<1> USE DEF FleetInv
<1>1. CASE Caller
  BY <1>1, ServiceStepIsQuiet DEF Caller, Environment
<1>2. ASSUME NEW i \in Instances, NEW n \in Nodes, Register(i, n) PROVE RowsKept /\ UNCHANGED loop
  BY <1>2, RegisterKeepsDrains DEF Register, Environment
<1>3. ASSUME NEW n \in Nodes, HeartbeatRead(n) PROVE RowsKept /\ UNCHANGED loop
  BY <1>3, HeartbeatReadKeepsDrains DEF HeartbeatRead, Environment
<1>4. ASSUME NEW n \in Nodes, Age(n) PROVE RowsKept /\ UNCHANGED loop
  BY <1>4 DEF Age, RowsKept, vars
<1>5. ASSUME NEW h \in heartbeats, HeartbeatWrite(h) PROVE RowsKept /\ UNCHANGED loop
  BY <1>5, HeartbeatWriteKeepsDrains DEF HeartbeatWrite, Environment
<1>6. ASSUME NEW n \in Nodes, NEW s \in Services, Claim(n, s) PROVE RowsKept /\ UNCHANGED loop
  BY <1>6, ClaimKeepsDrains DEF Claim, Environment
<1>7. ASSUME NEW w \in issued, NEW status \in Outcomes(w.action), Report(w, status)
      PROVE  RowsKept /\ UNCHANGED loop
  BY <1>7, ReportIsQuiet DEF Report, Environment
<1>8. ASSUME NEW Stale \in SUBSET Nodes, NodeHealth(Stale) PROVE RowsKept /\ UNCHANGED loop
  BY <1>8, OfflineKeepsDrains DEF NodeHealth, Environment
<1>9. CASE UNCHANGED allVars
  BY <1>9 DEF RowsKept, allVars, fleetVars, vars
<1> QED
  BY <1>1, <1>2, <1>3, <1>4, <1>5, <1>6, <1>7, <1>8, <1>9

LEMMA AsListedStep ==
  ASSUME FleetInv, AsListed, [ReconcilerNext]_allVars
  PROVE  AsListed'
<1>1. CASE reconcileOnce
  BY <1>1, PassAsListed
<1>2. CASE Crash
  BY <1>2 DEF Crash, AsListed
<1>3. CASE RowsKept /\ UNCHANGED loop
  <2>1. \A item \in loop.todo : item.node \in Nodes /\ nodes[item.node].elastic
    BY DEF FleetInv, LoopInv, LoopTypes, InHand
  <2> QED
    BY <1>3, <2>1 DEF AsListed, RowsKept
<1> QED
  BY <1>1, <1>2, <1>3, BesideKeepsRows DEF ReconcilerNext

LEMMA RowsInOrderStep ==
  ASSUME FleetInv, RowsInOrder, [ReconcilerNext]_allVars
  PROVE  RowsInOrder'
<1>1. CASE reconcileOnce
  BY <1>1, PassKeepsOrder
<1>2. CASE Created
  BY <1>2, FleetStep, OneRowAtATime, CreatedKeepsOrder DEF FleetInv, Step
<1>3. CASE UNCHANGED <<runs, older>>
  BY <1>3, OrderStays DEF Present
<1> QED
  BY <1>1, <1>2, <1>3 DEF ReconcilerNext, Caller, Crash, Register, HeartbeatRead, Age,
     HeartbeatWrite, Claim, Report, NodeHealth, Environment, allVars, fleetVars, vars

LEMMA RestTypesStep ==
  ASSUME FleetInv, RestTypes, [ReconcilerNext]_allVars
  PROVE  RestTypes'
<1>1. aged' \subseteq Nodes
  <2>1. CASE Renew \/ UNCHANGED aged
    BY <2>1 DEF Renew, RestTypes
  <2>2. CASE \E n \in Nodes : Age(n)
    BY <2>2 DEF Age, RestTypes
  <2> QED
    BY <2>1, <2>2 DEF ReconcilerNext, reconcileOnce, reconcileTerminatingNodes,
       reconcileStaleProvisioningNodes, reconcileIdleNodes, listIdleNodes, reconcileNodeDeletion,
       reconcileStaleProvisioningNode, deleteProviderNode, markNodeDeleted, failStaleRun,
       reconcilePendingExecutionCapacity, createProvisioningNode, create, bind, unbind, dropNode,
       failCandidate, LoopOnly, Caller, Crash, Register, HeartbeatRead, HeartbeatWrite, Claim,
       Report, NodeHealth, Environment, allVars, fleetVars
<1>2. token' \in [Instances -> Tokens \cup {NoToken}] /\ agent' \in [Instances -> Nodes \cup {NoNode}]
  <2>1. CASE UNCHANGED <<token, agent>>
    BY <2>1 DEF RestTypes
  <2>2. CASE create
    <3>1. loop.candidate \in Tokens
      BY <2>2 DEF create, At, FleetInv, LoopInv, InHand
    <3> QED
      BY <2>2, <3>1 DEF create, Launch, NoProviderCall, RestTypes
  <2>3. CASE deleteProviderNode \/ unbind
    BY <2>3 DEF deleteProviderNode, unbind, Terminate, NoProviderCall, RestTypes
  <2>4. CASE \E i \in Instances, n \in Nodes : Register(i, n)
    BY <2>4 DEF Register, Environment, RestTypes
  <2> QED
    BY <2>1, <2>2, <2>3, <2>4 DEF ReconcilerNext, reconcileOnce, reconcileTerminatingNodes,
       reconcileStaleProvisioningNodes, reconcileIdleNodes, listIdleNodes, reconcileNodeDeletion,
       reconcileStaleProvisioningNode, markNodeDeleted, failStaleRun,
       reconcilePendingExecutionCapacity, createProvisioningNode, bind, dropNode,
       failCandidate, LoopOnly, NoProviderCall, Caller, Crash, HeartbeatRead, HeartbeatWrite,
       Claim, Report, NodeHealth, Age, Environment, allVars, fleetVars
<1> QED
  BY <1>1, <1>2 DEF RestTypes

\* A deletion names the instance of the row it was listed with, a store call the row
\* itself, and the run rows stay in the order they were created in.
THEOREM FleetTypeCorrect == ReconcilerSpec => []FleetTypeOK
<1> DEFINE TypesInv == FleetInv /\ RestTypes /\ AsListed /\ RowsInOrder
<1>1. ReconcilerInit => TypesInv
  <2> SUFFICES ASSUME ReconcilerInit PROVE TypesInv
    OBVIOUS
  <2>1. RestTypes /\ AsListed
    BY DEF ReconcilerInit, RestTypes, AsListed
  <2>2. RowsInOrder
    BY DEF ReconcilerInit, Init, NoRun, Present, RowsInOrder
  <2> QED
    BY <2>1, <2>2, FleetInvInit
<1>2. TypesInv /\ [ReconcilerNext]_allVars => TypesInv'
  BY FleetInvStep, RestTypesStep, AsListedStep, RowsInOrderStep
<1>3. TypesInv => FleetTypeOK
  <2> SUFFICES ASSUME TypesInv PROVE FleetTypeOK
    OBVIOUS
  <2>1. LoopTypes /\ InHand
    BY DEF FleetInv, LoopInv
  <2>2. loop.step \in {"bind", "unbind", "delete"} => loop.instance # NoInstance
    BY <2>1, NullAssumption DEF InHand, AsListed
  <2>3. loop.step \in {"create", "bind", "unbind", "delete", "mark", "fail"} => loop.node # NoNode
    BY <2>1, NullAssumption DEF InHand
  <2> QED
    BY <2>1, <2>2, <2>3 DEF LoopTypes, RestTypes, FleetTypeOK
<1> QED
  BY <1>1, <1>2, <1>3, PTL DEF ReconcilerSpec

-----------------------------------------------------------------------------
(* What ends a drain. *)

LEMMA StoreKeepsDrain ==
  ASSUME FleetInv, Next, NEW n \in Nodes, Draining(n), ~MarkNodeDeleted(n)
  PROVE  Draining(n)' \/ [node |-> n, status |-> "ready"] \in heartbeats
<1> USE DEF FleetInv, IInv
<1>0. nodes[n].status = "draining" /\ nodes[n].instance # NoInstance
  BY DEF Draining
<1>1. CASE nodes'[n] = nodes[n]
  BY <1>0, <1>1 DEF Draining
<1>2. ASSUME NEW m, NEW units, nodes' = freeNodeAllocation(m, units) PROVE Draining(n)'
  BY <1>0, <1>2, FreeingOnlyBooks DEF RowsOnlyBook, Draining
<1>3. CASE ServiceStep
  <2>1. UNCHANGED nodes \/ \E m, units : nodes' = freeNodeAllocation(m, units)
    BY <1>3 DEF ServiceStep, UpsertService, upsertServiceRunTx, DeleteServiceRead,
       DeleteServiceWrite, deleteServiceRunTx
  <2> QED
    BY <1>1, <1>2, <2>1
<1>4. CASE RunStep
  <2>1. \/ UNCHANGED nodes \/ \E m, units : nodes' = freeNodeAllocation(m, units)
        \/ \E m \in Nodes, s \in Services : ClaimPendingRun(m, s)
    BY <1>4 DEF RunStep, MarkServiceRunFailed, MarkPendingServiceRunFailedForProvisioningNode,
       ClaimPendingDeleteRun, UpdateExecutionFromNodeReport
  <2>2. ASSUME NEW m \in Nodes, NEW s \in Services, ClaimPendingRun(m, s) PROVE nodes'[n] = nodes[n]
    BY <1>0, <2>2 DEF ClaimPendingRun, TypeOK
  <2> QED
    BY <1>1, <1>2, <2>1, <2>2
<1>5. ASSUME NEW m \in Nodes, NEW i \in Instances, RegisterNode(m, i) PROVE Draining(n)'
  BY <1>0, <1>5 DEF RegisterNode, Draining, TypeOK
<1>6. ASSUME NEW h \in heartbeats, RecordNodeHeartbeatWrite(h)
      PROVE  Draining(n)' \/ [node |-> n, status |-> "ready"] \in heartbeats
  <2>1. CASE h.node # n
    BY <1>1, <1>6, <2>1 DEF RecordNodeHeartbeatWrite, TypeOK
  <2>2. CASE h.node = n
    <3>1. h \in HeartbeatCall /\ h.status # "deleted"
      BY <1>0, <2>2 DEF TypeOK, DrainInv, HeartbeatsInFlight
    <3>2. nodes'[n].status = h.status /\ nodes'[n].instance = nodes[n].instance
      BY <1>6, <2>2 DEF RecordNodeHeartbeatWrite, TypeOK
    <3>3. CASE h.status = "draining"
      BY <1>0, <3>2, <3>3 DEF Draining
    <3>4. CASE h.status = "ready"
      <4>1. h = [node |-> n, status |-> "ready"]
        BY <2>2, <3>1, <3>4
      <4> QED
        BY <4>1
    <3> QED
      BY <3>1, <3>3, <3>4
  <2> QED
    BY <2>1, <2>2
<1>7. ASSUME NEW Stale \in SUBSET Nodes, MarkStaleNodeHeartbeatsOffline(Stale) PROVE nodes'[n] = nodes[n]
  <2>1. n \notin Stale
    BY <1>0, <1>7 DEF MarkStaleNodeHeartbeatsOffline, MayGoOffline
  <2> QED
    BY <1>7, <2>1 DEF MarkStaleNodeHeartbeatsOffline
<1>8. ASSUME NEW m \in Nodes,
             \/ CreateProvisioningNode(m) \/ RecordNodeHeartbeatRead(m) \/ PrepareNodeDeletion(m)
             \/ MarkNodeDeleted(m) \/ \E i \in Instances : BindProvisionedNode(m, i)
      PROVE  nodes'[n] = nodes[n]
  <2>1. CASE m = n
    BY <1>0, <1>8, <2>1 DEF CreateProvisioningNode, RecordNodeHeartbeatRead, PrepareNodeDeletion,
       BindProvisionedNode
  <2>2. CASE m # n
    BY <1>8, <2>2 DEF CreateProvisioningNode, RecordNodeHeartbeatRead, PrepareNodeDeletion,
       MarkNodeDeleted, BindProvisionedNode, TypeOK
  <2> QED
    BY <2>1, <2>2
<1>9. CASE CloudPlaneRestart
  BY <1>1, <1>9 DEF CloudPlaneRestart
<1> QED
  BY <1>1, <1>3, <1>4, <1>5, <1>6, <1>7, <1>8, <1>9 DEF Next, NodeStep

LEMMA DrainsHoldStep ==
  ASSUME FleetInv, [ReconcilerNext]_allVars, NEW n \in Nodes, Draining(n)
  PROVE  \/ Draining(n)'
         \/ nodes'[n].status = "deleted" /\ vm[nodes[n].instance] = "gone"
         \/ [node |-> n, status |-> "ready"] \in heartbeats
<1>1. [Next]_vars
  BY FleetStep DEF Step
<1>2. CASE UNCHANGED nodes
  BY <1>2 DEF Draining
<1>3. CASE MarkNodeDeleted(n) /\ (markNodeDeleted \/ dropNode)
  <2>1. nodes'[n].status = "deleted" /\ \A m \in Nodes \ {n} : nodes'[m] = nodes[m]
    BY <1>3, DeletionKeepsDrains DEF FleetInv
  <2>2. CASE loop.node = n
    <3>1. nodes[n].instance # NoInstance /\ loop.step = "mark"
      BY <1>3 DEF Draining, markNodeDeleted, dropNode, At
    <3>2. vm[nodes[n].instance] = "gone"
      BY <1>3, <2>2, <3>1 DEF markNodeDeleted, dropNode, At, FleetInv, LoopInv, InHand
    <3> QED
      BY <2>1, <3>2
  <2>3. CASE loop.node # n
    <3>1. MarkNodeDeleted(loop.node)
      BY <1>3 DEF markNodeDeleted, dropNode
    <3>2. loop.node \in Nodes
      BY <1>3 DEF markNodeDeleted, dropNode, At, FleetInv, LoopInv, InHand
    <3>3. nodes'[n] = nodes[n]
      BY <2>3, <3>1, <3>2, DeletionKeepsDrains DEF FleetInv
    <3> QED
      BY <3>3 DEF Draining
  <2> QED
    BY <2>2, <2>3
<1>4. ASSUME MarkNodeDeleted(n), ~(markNodeDeleted \/ dropNode) PROVE FALSE
  <2>1. nodes'[n].instance = NoInstance /\ nodes[n].elastic
        /\ nodes[n].instance # NoInstance /\ nodes[n].status = "draining"
    BY <1>4, DeletionKeepsDrains DEF FleetInv, MarkNodeDeleted, Draining
  <2>2. CASE reconcileOnce
    <3>1. \/ UNCHANGED nodes
          \/ \E m \in Nodes : \/ PrepareNodeDeletion(m) \/ CreateProvisioningNode(m)
                              \/ BindProvisionedNode(m, loop.instance)
      <4>1. CASE reconcileNodeDeletion
        <5>1. \A item \in loop.todo : item.node \in Nodes
          BY DEF FleetInv, LoopInv, LoopTypes
        <5> QED
          BY <4>1, <5>1 DEF reconcileNodeDeletion, drainItem, vars
      <4>2. CASE bind
        <5>1. loop.node \in Nodes
          BY <4>2 DEF bind, At, FleetInv, LoopInv, InHand
        <5> QED
          BY <4>2, <5>1 DEF bind, vars
      <4>3. CASE createProvisioningNode
        BY <4>3 DEF createProvisioningNode, vars
      <4>4. CASE failStaleRun \/ failCandidate
        BY <4>4 DEF failStaleRun, failCandidate, MarkServiceRunFailed,
           MarkPendingServiceRunFailedForProvisioningNode, vars
      <4> QED
        BY <1>4, <2>2, <4>1, <4>2, <4>3, <4>4 DEF reconcileOnce, reconcileTerminatingNodes,
           reconcileStaleProvisioningNodes, reconcileIdleNodes, listIdleNodes,
           reconcileStaleProvisioningNode, deleteProviderNode, reconcilePendingExecutionCapacity,
           create, unbind, LoopOnly, vars
    <3>2. ASSUME NEW m \in Nodes,
                 \/ PrepareNodeDeletion(m) \/ CreateProvisioningNode(m)
                 \/ BindProvisionedNode(m, loop.instance)
          PROVE  nodes'[n].instance = nodes[n].instance
      BY <2>1, <3>2 DEF PrepareNodeDeletion, CreateProvisioningNode, BindProvisionedNode,
         FleetInv, IInv, TypeOK
    <3> QED
      BY <2>1, <3>1, <3>2
  <2>3. CASE Crash
    BY <2>1, <2>3 DEF Crash
  <2>4. CASE RowsKept
    BY <2>1, <2>4 DEF RowsKept
  <2> QED
    BY <2>2, <2>3, <2>4, BesideKeepsRows DEF ReconcilerNext
<1> QED
  BY <1>1, <1>2, <1>3, <1>4, StoreKeepsDrain DEF vars

\* A drained row keeps its status until markNodeDeleted finds the instance gone, unless a
\* heartbeat that read the row before the drain writes it ready again.
THEOREM DrainsAreFinished == ReconcilerSpec => DrainsHold
<1>1. FleetInv /\ [ReconcilerNext]_allVars =>
        [\A n \in Nodes : Draining(n) =>
           \/ Draining(n)'
           \/ nodes'[n].status = "deleted" /\ vm[nodes[n].instance] = "gone"
           \/ [node |-> n, status |-> "ready"] \in heartbeats]_allVars
  BY DrainsHoldStep
<1> QED
  BY <1>1, FleetInvariance, PTL DEF ReconcilerSpec, DrainsHold

================================================================================
