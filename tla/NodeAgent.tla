------------------------------- MODULE NodeAgent -------------------------------
(***************************************************************************)
(* One node agent (nodeagent/daemon, work, runtime) with its Docker        *)
(* containers, over the store RunStore.  The heartbeat loop and the worker *)
(* loop run side by side; they share the node id, the registration and the *)
(* one runtime reset that follows it.  The worker polls one work item,     *)
(* carries it out and reports once, without a retry.                       *)
(*                                                                         *)
(* A report whose answer does not arrive in time may still reach the store *)
(* later, or never; the agent process may stop at any step and start again *)
(* with its containers still running.  Registration by the same instance   *)
(* gives the same row, so the agent's node id is AgentNode or none.        *)
(***************************************************************************)
EXTENDS RunStore

CONSTANTS
  AgentNode, AgentInstance,  \* the node and the instance the agent runs on
  NoItem,                    \* no work item
  MaxFaults                  \* bound on restarts, lost or late messages, failing stops, dying workloads

ASSUME AgentAssumption ==
  AgentNode \in Nodes /\ AgentInstance \in Instances /\ NoItem \notin WorkItem
ASSUME FaultsAssumption == MaxFaults \in Nat

VARIABLES
  nodeID,            \* Runner.nodeID
  runtimeResetNode,  \* Runner.runtimeResetNode
  resetMu,           \* the loop that holds resetMu, or "free"
  at,                \* where each loop is in its cycle
  item, stage, outcome,  \* the work item of the worker, its progress, what will be reported
  containers,        \* containers on the node, each with the incarnation that started it
  mail,              \* reports whose call has timed out and that may still arrive
  boot,              \* incarnation of the agent process
  lost,              \* history: containers that died or that a newer incarnation removed
  faults

agentVars == <<nodeID, runtimeResetNode, resetMu, at, item, stage, outcome,
               containers, mail, boot, lost, faults>>
allVars == <<vars, agentVars>>
workerVars == <<item, stage, outcome, containers, mail, lost>>

Loops == {"heartbeat", "worker"}
Points == {"cycle", "reset", "act", "sent"}
Stages == {"idle", "begin", "started", "report"}

\* Named mini-cloud-<service>-g<generation>, labelled with service, node and execution.
Container == [service: Services, id: RunIDs \cup {NoRunID}, generation: Generations,
              boot: 0..MaxFaults]

ContainerOf(w, generation) == {c \in containers : c.service = w.service /\ c.generation = generation}

Fault == faults < MaxFaults /\ faults' = faults + 1
NoFault == UNCHANGED faults

-----------------------------------------------------------------------------
(* Registration, and the reset of the runtime that follows it. *)

\* ensureNodeRegistration holds registerMu for the whole call.
registerNode(l) ==
  /\ at[l] = "cycle" /\ nodeID = NoNode
  /\ RegisterNode(AgentNode, AgentInstance)
  /\ nodeID' = AgentNode /\ runtimeResetNode' = NoNode
  /\ NoFault
  /\ UNCHANGED <<resetMu, at, workerVars, boot>>

NeedsReset_Always == TRUE
NeedsReset == runtimeResetNode # nodeID

checkReset(l) ==
  /\ at[l] = "cycle" /\ nodeID # NoNode /\ resetMu = "free"
  /\ IF NeedsReset THEN at' = [at EXCEPT ![l] = "reset"] /\ resetMu' = l
                   ELSE at' = [at EXCEPT ![l] = "act"] /\ UNCHANGED resetMu
  /\ NoFault
  /\ UNCHANGED <<vars, nodeID, runtimeResetNode, workerVars, boot>>

\* ResetNode stops and removes what carries the node's label, one after the other;
\* at the first error the cycle ends and the next one tries again.
Removed(S) ==
  /\ containers' = containers \ S
  /\ lost' = lost \cup {c \in S : c.boot < boot}

resetRuntimeOnce_KeepsLock(l) ==
  /\ at[l] = "reset" /\ resetMu = l
  /\ \/ /\ Removed(containers) /\ NoFault
        /\ runtimeResetNode' = nodeID /\ resetMu' = "free"
        /\ at' = [at EXCEPT ![l] = "act"]
     \/ \E S \in SUBSET containers :
          /\ Removed(S) /\ Fault
          /\ at' = [at EXCEPT ![l] = "cycle"]
          /\ UNCHANGED <<runtimeResetNode, resetMu>>
  /\ UNCHANGED <<vars, nodeID, item, stage, outcome, mail, boot>>

resetRuntimeOnce(l) ==
  /\ at[l] = "reset" /\ resetMu = l
  /\ resetMu' = "free"
  /\ \/ /\ Removed(containers) /\ NoFault
        /\ runtimeResetNode' = nodeID
        /\ at' = [at EXCEPT ![l] = "act"]
     \/ \E S \in SUBSET containers :
          /\ Removed(S) /\ Fault
          /\ at' = [at EXCEPT ![l] = "cycle"]
          /\ UNCHANGED runtimeResetNode
  /\ UNCHANGED <<vars, nodeID, item, stage, outcome, mail, boot>>

-----------------------------------------------------------------------------
(* The heartbeat loop. *)

sendHeartbeat ==
  /\ at["heartbeat"] = "act"
  /\ RecordNodeHeartbeatRead(AgentNode)
  /\ at' = [at EXCEPT !["heartbeat"] = "sent"]
  /\ NoFault
  /\ UNCHANGED <<nodeID, runtimeResetNode, resetMu, workerVars, boot>>

heartbeatAnswered(h) ==
  /\ RecordNodeHeartbeatWrite(h)
  /\ at' = [at EXCEPT !["heartbeat"] = IF @ = "sent" THEN "cycle" ELSE @]
  /\ NoFault
  /\ UNCHANGED <<nodeID, runtimeResetNode, resetMu, workerVars, boot>>

-----------------------------------------------------------------------------
(* The worker loop: poll, run or delete, report. *)

Claimed(s, action) ==
  [service |-> s, id |-> runs[s].id, generation |-> runs[s].generation,
   node |-> AgentNode, action |-> action, container |-> runs[s].container]

\* The answer with the item reaches the worker, or it is lost and nobody has it.
pollWork(s) ==
  /\ at["worker"] = "act" /\ stage = "idle"
  /\ \E action \in {"run", "delete"} :
       /\ IF action = "run" THEN ClaimPendingRun(AgentNode, s)
                            ELSE ClaimPendingDeleteRun(AgentNode, s)
       /\ \/ /\ item' = Claimed(s, action) /\ stage' = "begin" /\ NoFault
             /\ UNCHANGED at
          \/ /\ Fault /\ UNCHANGED <<item, stage>>
             /\ at' = [at EXCEPT !["worker"] = "cycle"]
  /\ UNCHANGED <<nodeID, runtimeResetNode, resetMu, outcome, containers, mail, lost, boot>>

Reporting(status) == stage' = "report" /\ outcome' = status

WorkerStep == UNCHANGED <<vars, nodeID, runtimeResetNode, resetMu, at, item, mail, boot>>

\* Containers of the service that another execution left behind.
OtherExecutions(w) == {c \in containers : c.service = w.service /\ c.id # w.id}

\* Of what is left when they are gone.
NameTaken(w) == ContainerOf(w, w.generation) \ OtherExecutions(w) # {}

\* Docker.Run: pull the image, remove the service's other executions, create and start.
startContainer ==
  /\ ~NameTaken(item)
  /\ containers' = (containers \ OtherExecutions(item)) \cup
       {[service |-> item.service, id |-> item.id,
         generation |-> item.generation, boot |-> boot]}
  /\ stage' = "started" /\ UNCHANGED outcome

\* No image, no free port, no answer from Docker: what was removed stays removed.
startFails ==
  /\ \E S \in SUBSET OtherExecutions(item) : containers' = containers \ S
  /\ Reporting("failed")

\* The item is not valid.
refuseWorkItem == Reporting("failed") /\ UNCHANGED containers

runWorkItem ==
  /\ stage = "begin" /\ item.action = "run"
  /\ startContainer \/ startFails \/ refuseWorkItem
  /\ NoFault /\ WorkerStep /\ UNCHANGED lost

\* WaitReadiness; a container that does not get ready is stopped, and reported
\* failed also when it cannot be stopped.
waitReadiness_KeepsFailed ==
  /\ stage = "started"
  /\ Reporting("running") \/ Reporting("failed")
  /\ NoFault /\ WorkerStep /\ UNCHANGED <<containers, lost>>

waitReadiness ==
  /\ stage = "started"
  /\ \/ Reporting("running") /\ NoFault /\ UNCHANGED containers
     \/ /\ Reporting("failed")
        /\ \/ containers' = containers \ ContainerOf(item, item.generation) /\ NoFault
           \/ Fault /\ UNCHANGED containers
  /\ WorkerStep /\ UNCHANGED lost

deleteWorkItem ==
  /\ stage = "begin" /\ item.action = "delete"
  /\ \/ /\ containers' = containers \ ContainerOf(item, item.container)
        /\ Reporting("succeeded") /\ NoFault
     \/ /\ Reporting("failed") /\ Fault /\ UNCHANGED containers
  /\ WorkerStep /\ UNCHANGED lost

WorkerIdle_KeepsItem ==
  /\ stage' = "idle" /\ UNCHANGED item
  /\ at' = [at EXCEPT !["worker"] = "cycle"]

WorkerIdle ==
  /\ item' = NoItem /\ stage' = "idle"
  /\ at' = [at EXCEPT !["worker"] = "cycle"]

\* Sent once.  The store answers, or the call times out with the report still on its
\* way; the worker goes on either way.
report ==
  /\ stage = "report"
  /\ WorkerIdle
  /\ \/ /\ UpdateExecutionFromNodeReport(item, outcome)
        /\ NoFault /\ UNCHANGED mail
     \/ /\ mail' = mail \cup {[item |-> item, status |-> outcome]}
        /\ Fault /\ UNCHANGED vars
  /\ UNCHANGED <<nodeID, runtimeResetNode, resetMu, outcome, containers, lost, boot>>

lateReport(m) ==
  /\ UpdateExecutionFromNodeReport(m.item, m.status)
  /\ mail' = mail \ {m}
  /\ NoFault
  /\ UNCHANGED <<nodeID, runtimeResetNode, resetMu, at, item, stage, outcome, containers, lost, boot>>

-----------------------------------------------------------------------------
(* Everything else. *)

StoreOnly == UNCHANGED <<nodeID, runtimeResetNode, resetMu, at, workerVars, boot>>

\* The work items that the worker or a late report still speaks of.
Held == {w \in {item} \cup {m.item : m \in mail} : w # NoItem}

\* Ids are random in the code and never come again.  The finite pool RunIDs does not
\* hand one out while it is spoken of; when it hands one out again later, the
\* containers of its earlier execution keep an id no row has.
Retired(S, ids) == {IF c.id \in ids THEN [c EXCEPT !.id = NoRunID] ELSE c : c \in S}

Caller ==
  LET Ids(r) == {r[s].id : s \in Services}
      new == Ids(runs') \ Ids(runs)
  IN /\ ServiceStep /\ NoFault
     /\ \A w \in Held : w.id \notin new
     /\ containers' = Retired(containers, new) /\ lost' = Retired(lost, new)
     /\ UNCHANGED <<nodeID, runtimeResetNode, resetMu, at, item, stage, outcome, mail, boot>>

\* A DeleteService call that has read its row ends.
FinishDelete == (\E d \in deletes : DeleteServiceWrite(d)) /\ NoFault /\ StoreOnly

\* Heartbeats of the agent do not arrive for longer than the health loop waits.
NodeHealth == Fault /\ MarkStaleNodeHeartbeatsOffline({AgentNode}) /\ StoreOnly

\* The process stops and starts again; its containers keep running.
Restart ==
  /\ Fault
  /\ boot' = boot + 1
  /\ nodeID' = NoNode /\ runtimeResetNode' = NoNode /\ resetMu' = "free"
  /\ at' = [l \in Loops |-> "cycle"]
  /\ item' = NoItem /\ stage' = "idle"
  /\ UNCHANGED <<vars, outcome, containers, mail, lost>>

\* A workload ends by itself; AutoRemove removes its container and nobody is told.
WorkloadExit(c) ==
  /\ Fault
  /\ containers' = containers \ {c}
  /\ lost' = lost \cup {c}
  /\ UNCHANGED <<vars, nodeID, runtimeResetNode, resetMu, at, item, stage, outcome, mail, boot>>

AgentInit ==
  /\ Init
  /\ nodeID = NoNode /\ runtimeResetNode = NoNode /\ resetMu = "free"
  /\ at = [l \in Loops |-> "cycle"]
  /\ item = NoItem /\ stage = "idle" /\ outcome = "failed"
  /\ containers = {} /\ mail = {} /\ boot = 0 /\ lost = {} /\ faults = 0

LoopStep(l) == registerNode(l) \/ checkReset(l) \/ resetRuntimeOnce(l)

WorkStep == runWorkItem \/ waitReadiness \/ deleteWorkItem \/ report

AgentNext ==
  \/ \E l \in Loops : LoopStep(l)
  \/ sendHeartbeat \/ (\E h \in heartbeats : heartbeatAnswered(h))
  \/ (\E s \in Services : pollWork(s)) \/ WorkStep
  \/ (\E m \in mail : lateReport(m))
  \/ Caller \/ NodeHealth \/ Restart \/ (\E c \in containers : WorkloadExit(c))

\* The loops tick and every call returns or times out; a heartbeat and a poll find a
\* free connection and their row if these are there again and again.  Late reports,
\* new calls and faults are promised to nobody.
AgentFairness ==
  /\ \A l \in Loops : WF_allVars(LoopStep(l))
  /\ SF_allVars(sendHeartbeat)
  /\ WF_allVars(FinishDelete)
  /\ WF_allVars(\E h \in heartbeats : heartbeatAnswered(h))
  /\ \A s \in Services : SF_allVars(pollWork(s))
  /\ WF_allVars(WorkStep)

AgentSpec == AgentInit /\ [][AgentNext]_allVars /\ AgentFairness

-----------------------------------------------------------------------------
(* Properties. *)

\* Every variable has its type, the worker holds an item exactly while it works, and
\* what it is about to report is a possible outcome of the item's action.
AgentTypeOK ==
  /\ nodeID \in {AgentNode, NoNode} /\ runtimeResetNode \in {AgentNode, NoNode}
  /\ resetMu \in Loops \cup {"free"} /\ at \in [Loops -> Points]
  /\ item \in WorkItem \cup {NoItem} /\ stage \in Stages
  /\ outcome \in {"running", "failed", "succeeded"}
  /\ containers \subseteq Container /\ lost \subseteq Container
  /\ boot \in 0..MaxFaults /\ faults \in 0..MaxFaults
  /\ stage = "idle" <=> item = NoItem
  /\ stage = "report" => outcome \in Outcomes(item.action)
  /\ \A m \in mail : m.item \in WorkItem /\ m.status \in Outcomes(m.item.action)

IsOn(c, s) == c.service = s /\ c.id = runs[s].id /\ c.generation = runs[s].container

\* A run that is reported running has its container on the node, whatever late
\* reports, updates and resets came between; it is only missing when the workload
\* has ended by itself or a restarted agent has cleaned up.  In particular the two
\* loops never reset a runtime in which this process has started work.
RunningIsServed ==
  \A s \in Services :
    runs[s].status = "running" => \E c \in containers \cup lost : IsOn(c, s)

\* Somebody will stop container c: its run row names it, or the worker has
\* just started it and not given up on it.
Tracked(c) ==
  \/ /\ runs[c.service].id = c.id /\ runs[c.service].container = c.generation
     /\ runs[c.service].status \in {"running", "pending", "deploying"}
  \/ /\ item # NoItem /\ item.action = "run"
     /\ item.service = c.service /\ item.id = c.id /\ item.generation = c.generation
     /\ \/ stage = "started"
        \/ stage = "report" /\ outcome = "running"

\* The report of work item w is none of the row's business any more.
Refused(w) == runs[w.service].id # w.id \/ runs[w.service].status # "deploying"

\* The steps that are known to leave a container behind: an upsert or a deletion
\* drops its id from a row that is not running; the report of a newer container takes
\* its place in the row; its own report is refused, or says that it could not be
\* stopped or that its name was still taken (nobody tries again); a late report does
\* any of this; and every fault.
Abandons(c) ==
  \/ /\ runs[c.service].status \in {"pending", "deploying"}
     /\ runs'[c.service] # runs[c.service] /\ UNCHANGED <<item, mail>>
  \/ /\ item # NoItem /\ item' = NoItem /\ item.service = c.service
     /\ item.generation # c.generation \/ Refused(item) \/ outcome = "failed"
  \/ \E m \in mail : m \notin mail' /\ m.item.service = c.service
  \/ faults' > faults

\* Every other step keeps a running container tracked: what upserts, deletions, claims
\* and resets leave running will be found by a later work item.
ContainersStayTracked ==
  [][\A c \in containers :
       Tracked(c) /\ c \in containers' /\ ~Abandons(c) => Tracked(c)']_allVars

\* The item of a deploying run that neither the worker nor the mail holds any more.
Forgotten(s) ==
  /\ runs[s].status = "deploying"
  /\ \A w \in Held : w.id # runs[s].id
Late(s) == \E m \in mail : m.item.id = runs[s].id

\* The books of the node leave no room for the run.
CrowdedOut(s) ==
  /\ services[s].desired = "active"
  /\ Request[runs[s].spec] > Capacity[AgentNode] - nodes[AgentNode].allocated

\* Every pending or claimed run comes to an end: it runs, fails or is gone, unless its
\* work item or its report is lost for good, or reservations that updates have leaked
\* (BooksStayExact) fill the node.
RunsSettle ==
  \A s \in Services :
    runs[s].status \in {"pending", "deploying"}
      ~> \/ runs[s].status \notin {"pending", "deploying"}
         \/ Forgotten(s) \/ Late(s) \/ CrowdedOut(s)

\* README.md:98 "each service is a single-container workload" and the removal of
\* "old mini-cloud service container before replacement" (docker.go:209): what the
\* agent reports running is the only container of its service on the node.
OneContainerPerService ==
  \A s \in Services :
    runs[s].status = "running" /\ stage = "idle" =>
      Cardinality({c \in containers : c.service = s}) <= 1
=============================================================================
