# A formal model of mini-cloud

TLA+ modules that model mini-cloud, TLC runs that check them on small instances,
and theorems about them that TLAPS proves for every instance.

## The system

| part | code | state | operations | talks to |
|---|---|---|---|---|
| control-plane | `internal/controlplane` | nothing durable; signed session cookies | create, get, update, delete service; list planes; synchronise DNS | cloud-plane over gRPC, DNSPod |
| cloud-plane store | `internal/cloudplane/infra/store` | Postgres: `services`, `service_runs`, `nodes` | transactions, one per method | everything below calls it |
| cloud-plane API | `internal/cloudplane/api` | none | upsert, delete, snapshot; register, heartbeat, poll, report | store |
| cloud-plane loops | `internal/cloudplane/control` | none but what a pass has read | node health (10 s), ingress (2 s), nodes (2 s), concurrently | store, provider, CDN, Caddy |
| provider drivers | `internal/cloudplane/infra/nodeprovider` | the VMs at Aliyun or Tencent | create (with client token), delete | cloud SDKs |
| front door | `internal/cloudplane/infra/frontdoor`, `infra/ingress` | CDN domains, Caddy's routes | synchronise routes | CDN SDKs, Caddy, store |
| node agent | `internal/nodeagent` | node id, containers of the machine | heartbeat loop, worker loop | cloud-plane API, Docker |
| minictl | `internal/ops` | Terraform state, certificate file | deploy, update, destroy, e2e | Terraform, SSH, SDKs |

A service is created at the control-plane, which assigns its generation and
sends it to the plane.  `UpsertService` writes the service row and its only run
row in one transaction.  Agents poll; `ClaimServiceRun` reserves resources on
the agent's node and hands out a work item; the agent runs the container and
reports once; `UpdateExecutionFromNodeReport` settles the run.  Deleting a
service turns its run into a delete work item for the node that has the
container.  Meanwhile the node loop creates and deletes VMs, the health loop
fails the runs of nodes that stop answering, and the ingress loop keeps Caddy,
the CDN and the front-door columns in step with the running services.  The
control-plane reads those columns from a snapshot and writes the DNS records
they call for.  minictl sets all of it up and tears it down.

What is hard here:

- any number of gRPC handlers and three loops run transactions at once; most
  lock the rows they read, **two do not** (`DeleteService`, `RecordNodeHeartbeat`);
- work items and reports are at-most-once messages that outlive the rows they
  are about: an update keeps the execution id, so a late report may find a row
  of another generation;
- a node's allocation is a counter kept in step with the runs by hand, in six
  transactions;
- loops act on lists read before slow provider calls, and may stop between the
  call and the write that records it;
- the agent's two loops share the node id and one runtime reset, which must not
  remove what the other loop has just started;
- the control-plane keeps no state: requests overlap, each with its own snapshot,
  and change records that other services may own: a CNAME is one per host, a
  verification record one per root domain and provider, wanted by all services;
- a pass over the front doors ends at its first error, and the columns of the
  services are the only list of domains to delete;
- minictl works on all planes in parallel, may be interrupted anywhere, and must
  find with the next destroy what any earlier command has left, through outputs
  that an apply may have written in part; planes of one provider delete each
  other's domains and records.

What makes each part correct:

- *store*: run and service carry the same generation; no node
  is booked beyond its capacity and the books are exact; a live run names the
  container to stop; a deploying run is owed a report;
- *node loop*: a live instance stays known; no generation of a service waits for
  two nodes; a draining node has no work and its drain is finished; nodes and
  waiting runs get somewhere;
- *agent and store together*: a running run has its container; containers stay
  tracked; pending and claimed runs are settled;
- *coordination*: records of live services survive, deleted services stay gone,
  DNS gets in step with the front doors;
- *front door*: no domain is forgotten; routes reach Caddy; domains come up and
  go away; a waiting host does not block the others;
- *minictl*: a successful destroy leaves nothing, and repeating destroy reclaims
  whatever a broken deploy has left.

## Modules

| module | what it is |
|---|---|
| `RunStore` | the store: one action per transaction of `service_run.go`, `node.go` and the service rows of `service.go` |
| `ServiceLifecycle` | abstract: desired state, generation and phase of a service |
| `RunStoreLifecycle` | the refinement mapping from `RunStore` to `ServiceLifecycle` |
| `NodeReconciler` | EXTENDS `RunStore`: the node loop, provider, a fleet of agents, the health loop |
| `NodeAgent` | EXTENDS `RunStore`: one agent in detail, with its containers |
| `Coordination` | requests of the control-plane, the services of several planes, DNSPod |
| `FrontDoor` | the ingress loop, Caddy, the CDN, the front-door columns |
| `Minictl` | the commands of minictl, Terraform and what they install |
| `ManagedDomains` | abstract: the domain and the front-door columns of a host, which `FrontDoor` implements |
| `RecordOwnership` | abstract: whose a DNS record is and when it comes and goes, which `Coordination` implements |
| `MC*` | constants, scenarios, symmetry; `MCRunStoreScenarios` joins two scenarios of the store in one run, `MCRunStoreHistory` adds a history variable |
| `RunStoreProofs`, `RunStoreLifecycleProofs`, `RunStoreBooksProofs`, `NodeReconcilerProofs`, `NodeAgentProofs`, `CoordinationProofs`, `FrontDoorProofs`, `MinictlProofs` | inductive invariants and theorems |

Operators named `X_What` are negative controls: a plausible bug in X (a guard
dropped, a step repeated, an order changed) that a property is seen to catch.  No
action uses them.

### RunStore

`services`, `runs` and `nodes` are the tables; `service_id` is UNIQUE in
`service_runs`, so a run row is found by its service.  A row is `"absent"`
before its INSERT and, for runs, after its DELETE.  A transaction that takes
`FOR UPDATE` locks on what it reads is one action.  `DeleteService` and
`RecordNodeHeartbeat` read without a lock under READ COMMITTED and write in a
later statement, so each is a read action and a write action, with its private
copy in `deletes` or `heartbeats` in between.  `issued` holds the work items
handed to agents; delivering a report consumes one, and an agent that dies, or
whose report is lost, is an item that stays.  `CloudPlaneRestart` rolls back the
open transactions.

Abstractions:

- CPU and memory are one dimension, counted in units; `Request[spec]` is the
  instance class.  Every comparison and update treats the two alike.
- `Capacity[n]` is what the agent on n reports as allocatable; it depends on the
  machine only and does not change.
- A spec is a value that says nothing but its request; image, command and ports
  travel with it.
- `container` stands for container id, name and host port: the generation whose
  work item started it, 0 for none.
- `Load(S)`, the sum of the requests of S, is the number of its units, a
  cardinality: the form the library's theorems on finite sets speak about.
- Time is left out: a node whose heartbeat is old is any node that was heard.
- Which claimable run a poll gets is left open; rows locked by another
  transaction are skipped, so the ORDER BY is not strict.
- Validation, wording and timestamps are left out.

### NodeReconciler

`loop` is the program counter of `reconcileOnce` with everything the pass has
read: the lists of the terminating, stale and idle phases, the candidate run,
the row and instance in hand.  Each store call and each provider call is an
action: `GetNodeProvisioningCandidate`, the insert, `driver.Create`, the bind,
the deletion of an instance that cannot be bound, `PrepareNodeDeletion`,
`driver.Delete`, `MarkNodeDeleted`, `MarkServiceRunFailed`.  A provider call may
fail before or after its effect, the deletion of an instance too.  `vm` and `token` are the provider's instances
(external); a create with the token of a live instance returns that instance.
`agent` is the node id of the agent on an instance.  `older` is the order of
`service_runs.created_at`, which decides the candidate, as the set of pairs of runs
whose first was created before the second; `aged` the rows older than
`provisioningNodeTimeout`.  A crash sends the loop back to the start of a pass
and rolls back open transactions.  The other steps are those of `RunStore`,
restricted to agents that exist.

### NodeAgent

The heartbeat loop (`at["heartbeat"]`) registers, resets the runtime and sends
heartbeats; the worker loop polls one item, carries it out and reports.  `resetMu`
is held by the loop that resets; `runtimeResetNode` is what that reset is
remembered by.  A container is the service, run id and generation of its name
and the process that started it.  `stopServiceContainers`, the start, the
readiness check, the deletion and the report are actions.  A report that
times out is in `mail`, to arrive later or not at all; a restart keeps the
containers and loses the process's memory.  Execution ids are random and never come
again; the model has finitely many, and hands one out again only when neither the
worker nor a late report speaks of it (`Held`); the containers of its earlier execution
then have an id of no row (`Retired`).

### Coordination

A request is a record with its plane, service, the generation it has found and
the services of its snapshot that still need DNS calls.  `collectSnapshot` reads
the services table; `syncFrontDoorDNS` takes one service at a time, lowest id
first, and ends at the first error; `send` is the gRPC call, carried out or not,
answered or not; `cleanupServiceDNS` follows a deletion; every change ends
in another view of the plane.  `rows` are the services tables of the planes
(`DeleteService` is one step here, its two statements are in `RunStore`; its NotFound
cannot happen, as a request only deletes what it has found and rows stay as
tombstones), `dns` the zone.  A record has a name and the service its remark names:
a CNAME is named by the service's host, a verification record by the provider of the
plane, since both providers verify the root domain (`aliyun.go:253-255`,
`tencent.go:73`).  So the services of a provider contend for one verification record,
and `EnsureRecord` refuses the second one; the refusal ends the synchronisation of
the plane, also before the turn of the service that holds the record and would give
it back.  Updates and deletions take
the generation after the one the request has seen.

### FrontDoor

`pass` is the ingress loop with the routes and the rows it has read.  `sources`
and `ready` are what the route query sees; `rows` the front-door columns; `cdn`
the provider's domains from absent over configuring to online, stopped and
deleted; `caddy` the routes served and `fingerprint` the sink's memory of them.
`trouble` fixes the hosts the CDN refuses, those outside the base domain and
those that are never verified.  A host that the provider has already verified, by the
record of another host of the root domain, is saved and prepared in one turn
(`PrepareVerified`).  Adding a domain and `setDomainConfig` are one call.  A call may fail with or without effect; the process and
Caddy may restart, which `drifted` records when the sink does not learn of it.

### Minictl

`scenario` has the providers of the planes and the bounds.  `command` and `main` are the
running command and the step of its main goroutine, `at[p]` the step of plane p's
goroutine.  Bootstrap, install and the teardown of planes run in parallel; the main
goroutine waits for all.  `network` and `outputs` are Terraform's resources and outputs,
`out` the outputs a destroy has read, `listed` the domains it has listed, `ccn` and
`rules` the Lighthouse's attachment and firewall rules, `installed` the hosts with a
cloud-plane, `workers`, `domain` and `records` what the deployed system has made, `scf`
the parts of the control-plane, `tls` the certificate file, which an interruption may
leave torn.  Every step may fail, with or without its effect, and a command may be
interrupted between any two.  What is repeated inside a call (`runOutput`'s
attempts) is one call.

- Outputs are none, partial or full.  An apply that breaks off may leave partial ones:
  `provider` and `platform_mode`, without `platform` and `install_env`.  The host is the
  configured one then (`validateBase` requires it), Tencent's domains are passed over, and
  the listing of the workers fails (`workerNodesWithoutRegion`).
- A destroy lists the domains of its provider once.  Aliyun's are deleted by their status,
  waited for until a deadline (`deleteTimedOut`); Tencent's are stopped and deleted at once.
- The deployed system is reduced to the changes it makes at the providers while its
  cloud-plane is installed; one domain stands for the domains of a plane.  A request of the
  control-plane loads its snapshot (`loadSnapshot`) and writes the records later
  (`syncFrontDoorDNS`), also when the plane is uninstalled meanwhile; `late` remembers the
  planes whose records were written so.
- terraform destroy is blocked by instances in the network only: the CCN attachment of the
  Lighthouse is not one of its own VPC.

Assumed of what is not in the repository: a broken apply can save outputs that depend on no
resource; both CLIs refuse an empty region; stopping a stopped Tencent domain is no error.

## Runs

| run | instance | shows |
|---|---|---|
| `store` | two scenarios on 1 node of 2 units, 2 generations, 1 unlocked transaction: a service of two sizes from empty tables, and 2 services on a ready node; 564,342 states | `TypeOK`, `RunFollowsService`, `Placement`, `DeployingIsOwedAReport`, `WithinCapacity`, `StoreImplementsLifecycle`, `BooksStayExact` |
| `node_fleet` | five scenarios on 2 nodes and 2 instances, 2 unlocked transactions: a service with 1 fault and failing runs; one that is deleted; one that is updated while its node is on its way (2 generations); two that queue, the first perhaps for more than a node offers; one too large for the instance type; 124,780 states | `FleetTypeOK`, `OneNodePerGeneration`, `DrainingIsIdle`, `SchedulableByStatus`, `InstancesStayOwned`, `DrainsHold`, `NodesSettle`, `UnplacedRunsSettle` |
| `node_agent` | 1 service, 1 agent, 2 generations, 2 run ids, 1 fault; 321,648 states | `AgentTypeOK`, `RunningIsServed`, `ContainersStayTracked`, `RunsSettle` |
| `coordination` | two planes of one provider, three scenarios: one service created, updated, deleted and created again under 2 requests, 3 generations and 1 fault; namesakes on both planes; two services of one plane; 221,032 states | `CoordTypeOK`, `CNAMEsSurvive`, `DeletedStaysGone`, `RecordsAreOwned`, `DNSFollowsFrontDoor` |
| `front_door` | 2 hosts; no trouble, or the first host refused, outside or unverified; 3 changes, 1 fault; 117,468 states | `FrontDoorTypeOK`, `DomainsAreRemembered`, `DomainsAreManaged`, `RoutesReachCaddy`, `FrontDoorsComeUp`, `DomainsGoAway` |
| `minictl` | six scenarios of two planes, any number of destroys: an Aliyun and a Tencent plane with workers on both, 2 deploys, updates or e2e runs and 1 fault; with workers, domain and records on one of them, 1 deploy and 1 fault; two Tencent planes and two Aliyun planes with domains and records on both, no fault; two Aliyun planes with those on one and 1 fault; 417,170 states | `MinictlTypeOK`, `CleanAfterDestroy`, `RemainsCanBeFound`, `RecordPointsToFunction`, `DestroyedInTheEnd` |
| `store_revive_deleted` | counterexample | a heartbeat that read before the deletion brings a deleted node back |
| `store_leak_on_update` | counterexample | an update of a deploying run leaks a reservation |
| `store_resurrect` | counterexample | a repeated upsert revives a deleted service |
| `node_agent_update` | counterexample, no fault | an update leaves the old container running beside the new one |
| `coordination_orphan` | counterexample, no fault | a record is written after the cleanup and stays for ever |
| `minictl_partial` | counterexample | `DestroyReclaims`: after an apply that left partial outputs, no destroy gets to terraform destroy, against `doc/operations.md:227` |

Symmetry (store runs only, which check no liveness) permutes services, nodes and
instances, which the actions and the scenarios do not tell apart.  Deadlock is checked in the store,
front-door and minictl runs; in `node_fleet`, `node_agent` and the coordination
runs it is not, because there the bounds on generations, run ids and faults
can be used up, after which nothing remains to be done.

Bounds.  Two generations are enough for a superseded and a superseding work
item to be out together, and for a deletion between two upserts.  Two run ids
let a row be dropped and inserted again while the old work item is still out.
One transaction in flight is enough for an unlocked read to go stale; two let two
stale writes overtake each other.  Two units and requests of one and two make a node
fit both services, one, or neither.  Two nodes let a run move and let the loop
provision a second one for the same generation if it could; two services queue in
every order, with requests that fit a node, an instance type only, or neither.  One fault at any
step is one crash, lost message or failed call against everything else that may
happen; with two the same recoveries run one after the other, from states
the single fault already leads to.  Two requests overlap in every way two can; a
third one adds an older snapshot where the second already has one.  Two
hosts are one before and one behind the one in trouble.  Two planes, one of each
provider, run all branches of install and destroy side by side; two of one provider
delete each other's domains and records.  What a plane's services need (workers, front
doors) is chosen per scenario, because workers of one plane and records of another do
not meet.

## Exceptions the properties name

Some properties exclude behaviours the code really has, by name:

`BooksStayExact` says that `allocated` is the sum of what the node's runs
reserve after every transaction, except after those `BreaksBooks` names:

1. an update that supersedes a *deploying* run, or revives a run waiting to be
   stopped, gives nothing back (`store_leak_on_update`);
2. an update of a *running* run gives the reservation back at once but leaves
   the run pinned; dropping the pinned run (a deletion, or the node going
   offline) gives it back a second time;
3. failing a *deploying* run from the node loop's stale candidate, or a run
   waiting to be stopped, gives nothing back;
4. deleting a node with reservations sets its counter to 0.

`ContainersStayTracked`: `Abandons` lists the steps after which no row and no
work item names a running container: an update or a deletion of a run that is not
running; a report about the service that is for another generation, refused, or says
failed; a late report about the service; a fault.

`DrainingIsIdle` speaks of rows that say draining.  A heartbeat that read
before `PrepareNodeDeletion` writes the row ready and schedulable again; agents then claim
on a node whose instance is being deleted.  It is the unlocked read of
`store_revive_deleted`, one status earlier, and the one exception of `DrainsHold`.  A pending
update or deletion pinned to a drained node stays pending: `MarkStaleNodeHeartbeatsOffline`
passes over draining and deleted rows.

`OneNodePerGeneration` speaks of a generation of a service, not of its run row: an update
while the node of the generation before is provisioned gets a node of its own, and so does a
run whose node has registered and not yet sent a heartbeat (`node.go:338-401`).

`RunsSettle`: a run may wait for ever when its work item or report is lost
(`Forgotten`; nothing repeats them), when a late report is still out (`Late`), or when leaked
reservations fill the node (`CrowdedOut`).

`UnplacedRunsSettle`: `HeldBack`, only the oldest pending run decides about capacity, and one
that no new node helps (its request fits the instance type but not what an agent offers of
it, or it is pinned to a node that does not take it) holds back itself and those behind
it.  Besides, the property speaks of behaviours in which a row for another node is
left again and again (`RowsLeft`), a bound of the model.

`DNSFollowsFrontDoor`: `Blocked`, a record that belongs to somebody else ends
every synchronisation of the plane at that service: a namesake's CNAME, one left behind, or
the verification record while any other service of the provider has it, be it one that is
listed later and whose turn to give it back never comes.

`CleanAfterDestroy`: `late`, a request of the control-plane with an older snapshot may write
records after the destroy has removed them (`plane_sync.go:109`); the next destroy removes
them.  `DestroyedInTheEnd`: a plane with partial outputs keeps its network
(`minictl_partial`).

`RoutesReachCaddy`: `drifted`, a Caddy that restarts alone keeps old routes until
the routes change, since the sink trusts its fingerprint.  `FrontDoorsComeUp` and
`DomainsGoAway`: `Stuck`, a host whose error ends every pass before the others; and a domain
that was stopped for a deletion that then failed is not started again.

## Fairness

`RunStore` alone has none; what is checked of it is safety.

- `NodeReconciler`: the loop runs again and again (its ticker), live agents
  register, heartbeat and report, rows grow old and silent nodes are noticed: weak
  fairness.  A claim is strongly fair: an agent polls every few seconds, but a
  node may flap between two polls.
- `NodeAgent`: both loops and the worker's steps are weakly fair, as they are
  loops with tickers and timeouts; answers of open heartbeats are.  Sending a
  heartbeat and getting a claimable run are strongly fair, because the other loop's
  registration can disable them in between.  Nothing says a caller changes or deletes
  a service; a deletion once begun finishes.
- `Coordination`: a request goes on (weak); every plane is looked at again and again
  (strong, as all slots may be busy), because pages, lists and metrics scrapes do so.
- `FrontDoor`: passes go on (weak); a domain that the provider configures gets
  online (weak); a verification that is asked for again and again succeeds (strong).
- `Minictl`: steps of a command happen, released workers disappear, requests of the
  control-plane end (weak), and the operator repeats destroy as `doc/operations.md:227` says
  (weak).  The deadline of a deletion comes even when the domain is added again and again
  (strong).

## Proofs

All theorems hold for every value of the constants that the named assumptions
allow: finite sets of services, positive requests, natural capacities and bounds, NULLs
outside their column's values, well-formed scenarios.

**`RunStoreProofs`.**  `IInv` is inductive:

    IInv == TypeOK /\ RunFollowsService /\ Placement /\ DeployingIsOwedAReport
            /\ SchedulableByStatus /\ WithinCapacity

The parts need each other.  A claim keeps `WithinCapacity` because the row is
complete (`Placement`) and so has a request; a report keeps
`DeployingIsOwedAReport` because the row it settles is the only one with its
service; a deletion keeps `Placement` because a running row names node and
container; the node going offline only shrinks the counter because its load is
a number (`LoadIsNat`, by the finite-set theorems on union and product).  There
is one lemma per transaction, and `NodesOnlyShrink` and `RowReplaced` carry what
the transactions of one kind have in common.

**`RunStoreLifecycleProofs`** proves that every step of the store is a step of
`ServiceLifecycle` or a stutter.  It needs
`ServicesKnown`: a missing service has generation 0, and a deletion
in flight is of a service that exists.

**`RunStoreBooksProofs`** proves `BooksStayExact`.  Loads are cardinalities, so
`LoadOfOneMore` (one run more is its request more) comes from the cardinality of unions
and products.  A transaction on one run moves the load of a node by that run's share
alone (`OneRow`); what is left per transaction is that the counter moves by the same
share.  That a run that is being stopped is reserved and not merely pinned needs
`Placement` and, for nodes going offline, `ServicesKnown`.

**`NodeReconcilerProofs`** builds on the first.  `FleetRunsTheStore` shows that
every step of the fleet is a transaction of the store or leaves it alone, so what
is proved of `RunStore` holds under the loop, the agents and crashes.  The
inductive invariant `FleetInv` adds to `IInv`:

- `LoopInv`: the types of the loop, `NamedRows` (a row of the loop has the name made
  of its run), `InHand` (the row in hand is one of the loop's, has no instance before
  it is bound, and names a deleted instance or none when it is marked) and
  `OneNodePerGeneration`;
- `DrainInv`: `HeartbeatsInFlight` (a node has one open heartbeat; one that has read
  "draining" is of a row that is still draining or has lost its instance) and
  `DrainingIsIdle`.

`InstancesStayOwned` and `DrainsHold` follow step by step: every step that drops an instance
from a row comes after its deletion or is a fault, and one that ends a drain is that or the
write of a heartbeat that read ready.  `FleetTypeCorrect` adds `RestTypes` (the types of
the variables the loop does not read) and `AsListed` (a row the pass has listed keeps the
instance it was listed with until its turn comes), and that `older` stays a strict total
order of the runs there are: one transaction inserts at most one.
`FleetImplementsLifecycle` and `FleetKeepsBooks` carry the refinement and the books over
to the fleet.

**`NodeAgentProofs`**: `AgentInv` is inductive:

    AgentInv == IInv /\ AgentTypes /\ ResetOnce /\ WorkInv

- `AgentTypes`: the types, and that what is claimed, held or mailed is of the agent's node;
- `ResetOnce`: who resets holds the lock in a process that has not reset yet, and
  work is in progress only in a process that has; so no reset removes what the same
  process has started, whichever loop gets to it first;
- `WorkInv`: `RowsAreServed` (a container a row counts on is there, and nobody is about
  to stop it), `WorkIsServed` and `MailIsServed` (so is what the worker, or a late report,
  will call running, and no two of them speak of the same one), `CurrentItem` and
  `OrphanItem` (the worker's item is that of the row's claim, or its run is gone and the
  service has no other live one) and `StoppedIsGone`.

`RunningIsServed` is not inductive without them: a row becomes running by a report whose
container was started many steps before, while the row was updated, dropped and
inserted again.  `ContainersAreTracked` follows step by step from `AgentInv`.

`AgentSpec => Spec` does **not** hold: the agent may deliver a report whose item is no
longer in `issued`, because an equal item, handed out after a stale deletion had lowered the
generation (`store_resurrect`), was reported in its place.  The lemmas about the
store are therefore stated of `Transaction`, a step of the store or the report of any
work item, also one never handed out.  `IInv`, the lifecycle and the books survive even
that: `AgentKeepsStore`, `AgentImplementsLifecycle`, `AgentKeepsBooks`.

**`CoordinationProofs`**: `CInv` says that requests are well-formed where they stand
(something left to synchronise, something seen before it is sent), that
generations stay within the bound and that a CNAME has the host of its owner, a
verification record the provider of its owner's plane.
`NextItemIsToDo` gets the next service of a snapshot from the well-foundedness of < on
the naturals.  `RecordsOfActiveServicesStay` then follows because `EnsureRecord` never
overwrites and removals check the owner, `DeletionsAreFinal` because a service
that is no longer listed reaches no request (`Unaware`).

`RecordsStayOwned` is the refinement of `RecordOwnership`: every step is one of its steps
on the mapped state, or leaves it alone.  It needs `KInv` besides: what a request
is about, or still has to synchronise, has been accepted by its plane (`Known`), so that a
record written late, from an old snapshot, is still one of a registered service.  An ending
request may end a cleanup that another one is still in for the same service; so
`leaving` is a set of services that each step may or may not shrink.

**`FrontDoorProofs`**: `FInv` is the types, `TodoOfRoutes` (the hosts left to do are
those its kind of work is for), `HostInHand` (the host in hand has its
row before its domain is asked for, and loses the row after the domain) and `DomainsAreRemembered`.
`DomainsManaged` is the refinement of `ManagedDomains`: what a pass has found out about its
host (no domain yet, online, gone) still holds when it acts on it, as only the provider
moves a domain behind its back, and only forwards.

**`MinictlProofs`**: `MInv` adds to the checked invariants `Where` (which goroutine
may be at which step of which command), `OutputsPlanned` (a deploy goes on with full
outputs, and an installed plane has them), `PartsInOrder` (the control-plane's parts appear and disappear
in order), `DestroyProgress` (what a destroy has already removed at each step, for every
plane, and that it does not come back, whatever the other planes and the deployed system
do, but for records of a plane in `late`) and `CleanAndIdle`.

Every safety property that a passing run checks is also a theorem.  Only model-checked,
because temporal reasoning under fairness is outside TLAPS, are the liveness properties:
`NodesSettle`, `UnplacedRunsSettle`, `RunsSettle`, `DNSFollowsFrontDoor`, `RoutesReachCaddy`,
`FrontDoorsComeUp`, `DomainsGoAway` and `DestroyedInTheEnd`.  What the refinements show is
safety too: the abstract specifications have no fairness.

## Not modelled

- the web console, HTTP routing and sessions: no state beyond a signed cookie;
- configuration, mTLS and bearer transport, generated protobuf code: nothing
  that outlives a call;
- templates, certificate contents, image and zone selection: data that no property
  tells apart;
- what e2e does with the deployed system through a browser;
- telemetry, logs and the workload proxy of the agent;
- the channel that wakes the node loop early: the loop may run at any time anyway;
- row-lock order inside Postgres: an aborted transaction is a step not taken.
