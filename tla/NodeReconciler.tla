---------------------------- MODULE NodeReconciler ----------------------------
(***************************************************************************)
(* The cloud-plane's node loop (control/node_reconciler.go) over the store *)
(* RunStore, the provider's VM instances and the agents that run on them.  *)
(*                                                                         *)
(* One pass of the loop is reconcileOnce: terminating nodes, stale         *)
(* provisioning nodes, capacity for the oldest pending run, idle nodes.    *)
(* Every store transaction and every provider call of a pass is a step of  *)
(* its own, and whatever the pass has read stays in "loop" while callers,  *)
(* agents and the health loop change the store.  The process may crash     *)
(* between any two steps.                                                  *)
(***************************************************************************)
EXTENDS RunStore

CONSTANTS
  InstanceUnits,  \* units of the configured instance type, before the agent's reserve
  MaxFaults,      \* bound on crashes, provider errors and silences of live agents
  NoToken         \* no client token, no node name

ASSUME FleetBoundsAssumption == MaxFaults \in Nat /\ InstanceUnits \in Nat
ASSUME NoTokenAssumption == NoToken \notin [service: Services, generation: Generations]

VARIABLES
  vm,      \* provider: [Instances -> {"unborn", "alive", "gone"}]
  token,   \* provider: client token an instance was created with
  agent,   \* node id the agent on an instance got from its registration
  name,    \* column nodes.name of provisioned rows: a hash of service and generation
  aged,    \* node rows whose updated_at is older than provisioningNodeTimeout
  older,   \* pairs of services: the run row of the first was created before the other's
  loop,    \* the pass of the node loop: where it is and what it has read
  faults

fleetVars == <<vm, token, agent, name, aged, older, loop, faults>>
allVars == <<vars, fleetVars>>

\* The node name and the client token are made of the same two columns.
Tokens == [service: Services, generation: Generations]

Passes == {"terminating", "stale", "capacity", "idle"}
Steps == {"read", "list", "item", "create", "bind", "unbind", "delete", "mark", "fail"}

Loop == [pass: Passes, step: Steps, todo: SUBSET [node: Nodes, instance: Instances \cup {NoInstance}],
         node: Nodes \cup {NoNode}, instance: Instances \cup {NoInstance},
         candidate: Tokens \cup {NoToken}, units: Nat, failed: BOOLEAN]

StartOfPass == [pass |-> "terminating", step |-> "read", todo |-> {}, node |-> NoNode,
                instance |-> NoInstance, candidate |-> NoToken, units |-> 0, failed |-> FALSE]

-----------------------------------------------------------------------------
(* Where a pass goes next. *)

At(pass, step) == loop.pass = pass /\ loop.step = step

Goto(pass, step, todo, failed) ==
  loop' = [StartOfPass EXCEPT !.pass = pass, !.step = step, !.todo = todo, !.failed = failed]

\* A pass ends at its first error; its items are all tried before that.
AfterItems(failed) ==
  loop' = IF failed \/ loop.pass = "idle" THEN StartOfPass
          ELSE [StartOfPass EXCEPT !.pass = IF @ = loop.pass THEN "stale" ELSE "capacity"]

ItemDone(n, failed) ==
  LET rest == {item \in loop.todo : item.node # n}
  IN IF rest = {} THEN AfterItems(failed)
     ELSE Goto(loop.pass, "item", rest, failed)

Fault == faults < MaxFaults /\ faults' = faults + 1
NoFault == UNCHANGED faults

LoopOnly == UNCHANGED <<vars, vm, token, agent, name, aged, older>>

Present == {s \in Services : runs[s].status # "absent"}

\* created_at stays with a row; a new row is the youngest, one transaction inserts
\* no more than one.
Created ==
  LET new == Present' \ Present
  IN older' = (older \cap (Present' \X Present')) \cup ((Present' \ new) \X new)

\* updated_at of a provisioning row is only renewed by a change of the row.
Renew == aged' = {n \in aged : nodes'[n] = nodes[n]}

-----------------------------------------------------------------------------
(* The provider, as the drivers call it. *)

Unborn == {i \in Instances : vm[i] = "unborn"}
Alive(i) == vm[i] = "alive"

\* Create is idempotent in the client token: a repeated call gets the instance
\* of the first one.
InstanceFor(t) ==
  LET same == {i \in Instances : Alive(i) /\ token[i] = t}
  IN IF same # {} THEN same ELSE Unborn

Launch(i, t) ==
  /\ vm' = [vm EXCEPT ![i] = "alive"]
  /\ token' = [token EXCEPT ![i] = t]
  /\ UNCHANGED agent

\* An instance that is not there counts as deleted.
Terminate(i) ==
  /\ vm' = [vm EXCEPT ![i] = "gone"]
  /\ agent' = [agent EXCEPT ![i] = NoNode]
  /\ UNCHANGED token

NoProviderCall == UNCHANGED <<vm, token, agent>>

-----------------------------------------------------------------------------
(* Listing: every pass reads its items once. *)

Listed(status) ==
  {[node |-> n, instance |-> nodes[n].instance] :
     n \in {m \in Nodes : nodes[m].elastic /\ nodes[m].status = status}}

Work(items) ==
  IF items = {} THEN AfterItems(FALSE)
  ELSE Goto(loop.pass, "item", items, FALSE)

reconcileTerminatingNodes ==
  /\ At("terminating", "read")
  /\ Work({item \in Listed("draining") : item.instance # NoInstance})
  /\ LoopOnly /\ NoFault

reconcileStaleProvisioningNodes ==
  /\ At("stale", "read")
  /\ Work({item \in Listed("provisioning") : item.node \in aged})
  /\ LoopOnly /\ NoFault

HasUnsettledServiceRuns == \E s \in Services : runs[s].status \in {"pending", "deploying"}

reconcileIdleNodes ==
  /\ At("idle", "read")
  /\ IF HasUnsettledServiceRuns THEN loop' = StartOfPass ELSE Goto("idle", "list", {}, FALSE)
  /\ LoopOnly /\ NoFault

listIdleNodes ==
  /\ At("idle", "list")
  /\ Work({item \in Listed("ready") : item.instance # NoInstance})
  /\ LoopOnly /\ NoFault

-----------------------------------------------------------------------------
(* Deleting a node: drain it in the store, delete its instance, mark it deleted. *)

Drainable(n) ==
  /\ nodes[n].status = "ready" /\ nodes[n].elastic /\ nodes[n].instance # NoInstance
  /\ ActiveOn(n) = {}

DeleteNext(n, i) == loop' = [loop EXCEPT !.step = "delete", !.node = n, !.instance = i]

drainItem(n) ==
  \/ /\ PrepareNodeDeletion(n)
     /\ DeleteNext(n, nodes[n].instance)
  \/ /\ ~Drainable(n)
     /\ ItemDone(n, loop.failed)
     /\ UNCHANGED vars

reconcileNodeDeletion_DrainsOnce ==
  /\ loop.pass \in {"terminating", "idle"} /\ loop.step = "item"
  /\ \E item \in loop.todo : drainItem(item.node)
  /\ Renew /\ NoProviderCall /\ NoFault
  /\ UNCHANGED <<name, older>>

\* PrepareNodeDeletion takes a row that is draining already as it is.
reconcileNodeDeletion ==
  /\ loop.pass \in {"terminating", "idle"} /\ loop.step = "item"
  /\ \E item \in loop.todo :
       \/ nodes[item.node].status # "draining" /\ drainItem(item.node)
       \/ /\ nodes[item.node].status = "draining"
          /\ DeleteNext(item.node, nodes[item.node].instance)
          /\ UNCHANGED vars
  /\ Renew /\ NoProviderCall /\ NoFault
  /\ UNCHANGED <<name, older>>

reconcileStaleProvisioningNode_AlwaysDeletes ==
  /\ At("stale", "item")
  /\ \E item \in loop.todo :
       loop' = [loop EXCEPT !.step = "delete", !.node = item.node, !.instance = item.instance]
  /\ LoopOnly /\ NoFault

\* A row that never got an instance has none to delete.
reconcileStaleProvisioningNode ==
  /\ At("stale", "item")
  /\ \E item \in loop.todo :
       loop' = [loop EXCEPT !.step = IF item.instance = NoInstance THEN "mark" ELSE "delete",
                            !.node = item.node, !.instance = item.instance]
  /\ LoopOnly /\ NoFault

deleteProviderNode_ErrorIgnored ==
  /\ loop.step = "delete"
  /\ loop' = [loop EXCEPT !.step = "mark"]
  /\ \/ Terminate(loop.instance) /\ NoFault
     \/ Fault /\ NoProviderCall
  /\ UNCHANGED <<vars, name, aged, older>>

\* The delete of an item; its error, with or without the effect, leaves the row for
\* the next pass.
deleteProviderNode ==
  /\ loop.step = "delete"
  /\ \/ /\ Terminate(loop.instance) /\ NoFault
        /\ loop' = [loop EXCEPT !.step = "mark"]
     \/ /\ (NoProviderCall \/ Terminate(loop.instance)) /\ Fault
        /\ ItemDone(loop.node, TRUE)
  /\ UNCHANGED <<vars, name, aged, older>>

\* The row of a deleted instance; a stale one also fails the run it was made for.
markNodeDeleted ==
  /\ loop.pass # "capacity" /\ loop.step = "mark"
  /\ MarkNodeDeleted(loop.node)
  /\ IF loop.pass = "stale" THEN loop' = [loop EXCEPT !.step = "fail"]
                            ELSE ItemDone(loop.node, loop.failed)
  /\ Renew /\ NoProviderCall /\ NoFault
  /\ UNCHANGED <<name, older>>

\* Runs pending in the generation the row was named after.
failStaleRun ==
  LET t == name[loop.node]
      pending == runs[t.service].status = "pending" /\ runs[t.service].generation = t.generation
  IN /\ At("stale", "fail")
     /\ IF pending THEN MarkPendingServiceRunFailedForProvisioningNode(t.service, t.generation)
                   ELSE UNCHANGED vars
     /\ ItemDone(loop.node, loop.failed)
     /\ NoProviderCall /\ NoFault
     /\ UNCHANGED <<name, aged, older>>

-----------------------------------------------------------------------------
(* Capacity for the oldest pending run. *)

IsPending(s) == runs[s].status = "pending"

\* ORDER BY created_at LIMIT 1: none or one.
Candidates == {s \in Services : IsPending(s) /\ \A r \in Services : IsPending(r) => <<r, s>> \notin older}

CandidateToken(s) == [service |-> s, generation |-> runs[s].generation]

HasCapacity_AnyStatus(s) ==
  \E n \in Nodes : /\ nodes[n].status # "absent"
                   /\ Capacity[n] - nodes[n].allocated >= Request[runs[s].spec]

HasCapacity(s) ==
  \E n \in Nodes : /\ nodes[n].status = "ready" /\ nodes[n].schedulable
                   /\ Capacity[n] - nodes[n].allocated >= Request[runs[s].spec]

HasProvisioning(t) == \E n \in Nodes : nodes[n].status = "provisioning" /\ name[n] = t

CapacityIsThere == Goto("idle", "read", {}, FALSE)

ProvisionFor(s) ==
  loop' = [loop EXCEPT !.step = "list", !.candidate = CandidateToken(s),
                       !.units = Request[runs[s].spec]]

reconcilePendingExecutionCapacity_ProvisionsAgain ==
  /\ At("capacity", "read")
  /\ \/ Candidates = {} /\ CapacityIsThere
     \/ \E s \in Candidates : IF HasCapacity(s) THEN CapacityIsThere ELSE ProvisionFor(s)
  /\ LoopOnly /\ NoFault

\* GetNodeProvisioningCandidate; "list" stands for the insert that follows.
reconcilePendingExecutionCapacity ==
  /\ At("capacity", "read")
  /\ \/ Candidates = {} /\ CapacityIsThere
     \/ \E s \in Candidates :
          IF HasCapacity(s) \/ HasProvisioning(CandidateToken(s)) THEN CapacityIsThere
                                                               ELSE ProvisionFor(s)
  /\ LoopOnly /\ NoFault

\* Nodes bounds the rows: without a free one the pass ends here.
createProvisioningNode ==
  /\ At("capacity", "list")
  /\ \/ \E n \in Nodes :
          /\ CreateProvisioningNode(n)
          /\ name' = [name EXCEPT ![n] = loop.candidate]
          /\ loop' = [loop EXCEPT !.step = "create", !.node = n]
     \/ /\ \A n \in Nodes : nodes[n].status # "absent"
        /\ loop' = StartOfPass
        /\ UNCHANGED <<vars, name>>
  /\ Renew /\ NoProviderCall /\ NoFault
  /\ UNCHANGED older

\* The driver refuses a run that is larger than the instance type, and may fail
\* before or after the provider has created the instance.  A provider without a
\* free instance (Instances bounds them) refuses too.
create ==
  LET tooLarge == loop.units > InstanceUnits
      failed == loop' = [loop EXCEPT !.step = "mark"]
  IN /\ At("capacity", "create")
     /\ \/ (tooLarge \/ InstanceFor(loop.candidate) = {}) /\ failed /\ NoProviderCall /\ NoFault
        \/ failed /\ NoProviderCall /\ Fault
        \/ \E i \in InstanceFor(loop.candidate) :
             /\ ~tooLarge /\ Launch(i, loop.candidate)
             /\ \/ loop' = [loop EXCEPT !.step = "bind", !.instance = i] /\ NoFault
                \/ failed /\ Fault
     /\ UNCHANGED <<vars, name, aged, older>>

\* UNIQUE(provider, instance_id): another row may have the instance, because its
\* agent has registered first or because the token has been used before.
bind ==
  LET taken == \E m \in Nodes \ {loop.node} : nodes[m].instance = loop.instance
  IN /\ At("capacity", "bind")
     /\ \/ /\ BindProvisionedNode(loop.node, loop.instance)
           /\ loop' = StartOfPass
        \/ /\ taken
           /\ loop' = [loop EXCEPT !.step = "unbind"]
           /\ UNCHANGED vars
     /\ Renew /\ NoProviderCall /\ NoFault
     /\ UNCHANGED <<name, older>>

\* What could not be bound is deleted; the cleanup goes on when that fails.
unbind ==
  /\ At("capacity", "unbind")
  /\ loop' = [loop EXCEPT !.step = "mark"]
  /\ \/ Terminate(loop.instance) /\ NoFault
     \/ (NoProviderCall \/ Terminate(loop.instance)) /\ Fault
  /\ UNCHANGED <<vars, name, aged, older>>

dropNode ==
  /\ At("capacity", "mark")
  /\ MarkNodeDeleted(loop.node)
  /\ loop' = [loop EXCEPT !.step = "fail"]
  /\ Renew /\ NoProviderCall /\ NoFault
  /\ UNCHANGED <<name, older>>

\* The run is failed whatever generation it has by now.
failCandidate ==
  LET s == loop.candidate.service
  IN /\ At("capacity", "fail")
     /\ IF runs[s].status \in {"pending", "deploying"} THEN MarkServiceRunFailed(s)
                                                       ELSE UNCHANGED vars
     /\ loop' = StartOfPass
     /\ NoProviderCall /\ NoFault
     /\ UNCHANGED <<name, aged, older>>

reconcileOnce ==
  \/ reconcileTerminatingNodes \/ reconcileStaleProvisioningNodes
  \/ reconcileIdleNodes \/ listIdleNodes
  \/ reconcileNodeDeletion \/ reconcileStaleProvisioningNode
  \/ deleteProviderNode \/ markNodeDeleted \/ failStaleRun
  \/ reconcilePendingExecutionCapacity \/ createProvisioningNode
  \/ create \/ bind \/ unbind \/ dropNode \/ failCandidate

-----------------------------------------------------------------------------
(* Callers, agents and the health loop. *)

AgentOf(n) == {i \in Instances : Alive(i) /\ agent[i] = n}

Environment == Renew /\ Created /\ UNCHANGED <<vm, token, name, loop>>

\* The control-plane and the console.
Caller ==
  /\ ServiceStep
  /\ Environment /\ NoFault /\ UNCHANGED agent

\* An agent registers the instance it runs on and keeps the id it gets.
Register(i, n) ==
  /\ Alive(i) /\ agent[i] = NoNode
  /\ RegisterNode(n, i)
  /\ agent' = [agent EXCEPT ![i] = n]
  /\ Environment /\ NoFault

\* An agent sends one heartbeat after the other.
HeartbeatRead(n) ==
  /\ AgentOf(n) # {} /\ \A h \in heartbeats : h.node # n
  /\ RecordNodeHeartbeatRead(n)
  /\ Environment /\ NoFault /\ UNCHANGED agent

HeartbeatWrite(h) ==
  /\ RecordNodeHeartbeatWrite(h)
  /\ Environment /\ NoFault /\ UNCHANGED agent

Claim(n, s) ==
  /\ AgentOf(n) # {}
  /\ ClaimPendingRun(n, s) \/ ClaimPendingDeleteRun(n, s)
  /\ Environment /\ NoFault /\ UNCHANGED agent

Report(w, status) ==
  /\ AgentOf(w.node) # {}
  /\ UpdateExecutionFromNodeReport(w, status)
  /\ Environment /\ NoFault /\ UNCHANGED agent

\* Nodes whose agent is gone are found by the health loop; a live agent whose
\* heartbeats do not arrive for three minutes is a fault.
NodeHealth(Stale) ==
  /\ Stale # {}
  /\ MarkStaleNodeHeartbeatsOffline(Stale)
  /\ IF \E n \in Stale : AgentOf(n) # {} THEN Fault ELSE NoFault
  /\ Environment /\ UNCHANGED agent

\* provisioningNodeTimeout passes without a change of the row.
Age(n) ==
  /\ nodes[n].status = "provisioning" /\ n \notin aged
  /\ aged' = aged \cup {n}
  /\ UNCHANGED <<vars, vm, token, agent, name, older, loop, faults>>

\* The process stops at any point of a pass and starts with a new one.
Crash ==
  /\ loop # StartOfPass \/ deletes # {} \/ heartbeats # {}
  /\ Fault
  /\ loop' = StartOfPass
  /\ deletes' = {} /\ heartbeats' = {}
  /\ UNCHANGED <<services, runs, nodes, issued, vm, token, agent, name, aged, older>>

-----------------------------------------------------------------------------
ReconcilerInit ==
  /\ Init
  /\ vm = [i \in Instances |-> "unborn"]
  /\ token = [i \in Instances |-> NoToken]
  /\ agent = [i \in Instances |-> NoNode]
  /\ name = [n \in Nodes |-> NoToken]
  /\ aged = {} /\ older = {} /\ loop = StartOfPass /\ faults = 0

ReconcilerNext ==
  \/ reconcileOnce \/ Caller \/ Crash
  \/ \E i \in Instances, n \in Nodes : Register(i, n)
  \/ \E n \in Nodes : HeartbeatRead(n) \/ Age(n)
  \/ \E h \in heartbeats : HeartbeatWrite(h)
  \/ \E n \in Nodes, s \in Services : Claim(n, s)
  \/ \E w \in issued : \E status \in Outcomes(w.action) : Report(w, status)
  \/ \E Stale \in SUBSET Nodes : NodeHealth(Stale)

ReconcilerSpec == ReconcilerInit /\ [][ReconcilerNext]_allVars

-----------------------------------------------------------------------------
(* Fairness: the loops run on tickers as long as the process does, an agent    *)
(* registers, heartbeats, polls and reports as long as its instance lives, and *)
(* time passes.  Callers and faults get none.                                  *)

GoneSilent(n) == AgentOf(n) = {} /\ NodeHealth({n})

Fairness ==
  /\ WF_allVars(reconcileOnce)
  /\ \A i \in Instances : WF_allVars(\E n \in Nodes : Register(i, n))
  /\ \A n \in Nodes :
       /\ WF_allVars(HeartbeatRead(n))
       /\ WF_allVars(\E h \in heartbeats : h.node = n /\ HeartbeatWrite(h))
       /\ WF_allVars(GoneSilent(n))
       /\ WF_allVars(Age(n))
       /\ \A s \in Services : SF_allVars(Claim(n, s))
  /\ WF_allVars(\E w \in issued : \E status \in Outcomes(w.action) : Report(w, status))

FairReconcilerSpec == ReconcilerSpec /\ Fairness

-----------------------------------------------------------------------------
(* Properties. *)

\* created_at orders the run rows there are, and nothing else.
RowsInOrder ==
  /\ older \subseteq Present \X Present
  /\ \A r, s \in Present : <<r, s>> \in older <=> r # s /\ <<s, r>> \notin older
  /\ \A q, r, s \in Present : <<q, r>> \in older /\ <<r, s>> \in older => <<q, s>> \in older

\* Every variable has its type; the oldest pending run is one run; a provider call
\* names its instance and a store call its row, after whatever step came before.
FleetTypeOK ==
  /\ vm \in [Instances -> {"unborn", "alive", "gone"}]
  /\ token \in [Instances -> Tokens \cup {NoToken}]
  /\ agent \in [Instances -> Nodes \cup {NoNode}]
  /\ name \in [Nodes -> Tokens \cup {NoToken}]
  /\ aged \subseteq Nodes
  /\ RowsInOrder
  /\ loop \in Loop
  /\ loop.step \in {"bind", "unbind", "delete"} => loop.instance # NoInstance
  /\ loop.step \in {"create", "bind", "unbind", "delete", "mark", "fail"} => loop.node # NoNode
  /\ faults \in 0..MaxFaults

\* Instances the cloud-plane still knows how to delete.
Owned(i) ==
  \/ \E n \in Nodes : nodes[n].elastic /\ nodes[n].instance = i
  \/ loop.pass = "capacity" /\ loop.step \in {"bind", "unbind"} /\ loop.instance = i

\* Through drains, deletions that fail and are retried, binds that are refused
\* and restarts between any two steps, a live instance that the loop owns is only
\* lost to it by the fault that hits the very step: reconcileNodeDeletion and
\* reconcileStaleProvisioningNode mark no row deleted whose instance may live.
InstancesStayOwned ==
  [][\A i \in Instances :
       Alive(i) /\ Owned(i) /\ vm'[i] = "alive" => Owned(i)' \/ faults' > faults]_allVars

\* The loop never waits for two nodes of one generation of a service: also after a
\* restart, or behind a claim that never came, it sees the row it has inserted before
\* (HasProvisioning).  An update while that node is on its way changes the name, and a
\* node that has registered counts neither as provisioning nor, before its first
\* heartbeat, as capacity: a second node for the same run row follows in both cases.
OneNodePerGeneration ==
  \A m, n \in Nodes :
    m # n /\ nodes[m].status = "provisioning" /\ nodes[n].status = "provisioning"
      => name[m] # name[n]

Draining(n) == nodes[n].status = "draining" /\ nodes[n].instance # NoInstance

\* Whatever reports, deletions and restarts come between, a row whose status is draining
\* has no claimed or running run.  It says nothing of a row that a late heartbeat has
\* written ready again: agents claim there while the instance is deleted.
DrainingIsIdle == \A n \in Nodes : Draining(n) => ActiveOn(n) = {}

\* A drain goes on until the instance is gone, through failed deletions, restarts, agents
\* that fall silent and registrations: only a heartbeat that read the row before the drain
\* writes over it.
DrainsHold ==
  [][\A n \in Nodes : Draining(n) =>
       \/ Draining(n)'
       \/ nodes'[n].status = "deleted" /\ vm[nodes[n].instance] = "gone"
       \/ [node |-> n, status |-> "ready"] \in heartbeats]_allVars

InTransition(n) ==
  \/ nodes[n].status = "provisioning"
  \/ Draining(n)

\* A node on its way in or out gets there: a provisioning row becomes a node or is
\* cleaned up, a draining one is deleted, also when a step failed or the process
\* stopped in the middle of it.
NodesSettle == \A n \in Nodes : InTransition(n) ~> ~InTransition(n)

RowsLeft == \E n \in Nodes : nodes[n].status = "absent"

\* The driver compares a request with the instance type, of which an agent offers less.
FitsNoNode(s) == IsPending(s) /\ \A n \in Nodes : Capacity[n] < Request[runs[s].spec]

\* Only the oldest pending run decides about capacity.  One that no new node helps
\* (no node offers enough, or it is pinned to a node that does not take it) stays the
\* oldest.
HeldBack(s) ==
  \/ FitsNoNode(s)
  \/ \E r \in Services : /\ <<r, s>> \in older /\ IsPending(r)
                        /\ (FitsNoNode(r) \/ runs[r].node # NoNode)

\* A run that waits for a node gets one or is failed, also behind other runs, when
\* nodes are lost and when the loop stops in the middle: unless it is held back.
UnplacedRunsSettle ==
  \A s \in Services :
    <>[](IsPending(s) /\ runs[s].node = NoNode) => []<>HeldBack(s) \/ <>[]~RowsLeft
=============================================================================
