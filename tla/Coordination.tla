----------------------------- MODULE Coordination -----------------------------
(***************************************************************************)
(* The control-plane's coordination package: requests that create, update, *)
(* delete and look at services on the cloud-planes, and the DNSPod records *)
(* that every request keeps in step with the front doors it sees.          *)
(*                                                                         *)
(* The control-plane keeps nothing: a request reads a snapshot of a plane, *)
(* writes the DNS records the snapshot calls for, one call after the other, *)
(* sends its own change, and refreshes once more.  Requests overlap, and   *)
(* any call may fail, be carried out without an answer, or be the last of  *)
(* a function instance that is stopped.  A request to all planes is one    *)
(* request per plane: ListPlaneSnapshotViews takes them one after another. *)
(*                                                                         *)
(* Of a record's value nothing is kept: it follows from the owner.  Only   *)
(* the services table of each plane is seen here; its two-statement        *)
(* DeleteService is the subject of RunStore, here it is one step.          *)
(***************************************************************************)
EXTENDS Integers, FiniteSets, Sequences

CONSTANTS
  Planes, Hosts,
  Providers, Provider,  \* the CDN provider of every plane
  Slots,         \* requests that may be under way at a time
  MaxServices,   \* services of a scenario
  Scenarios,     \* bounds that are explored together, each for itself
  NoPlane, NoOwner

\* place: the plane and the host of every service callers may create, oldest first;
\* slots: the requests under way at a time; generations: the last one an update may
\* send; faults: failed calls and stopped instances.
IsScenario(x) ==
  /\ x.place \in Seq(Planes \X Hosts) /\ Len(x.place) \in 1..MaxServices
  /\ x.slots \subseteq Slots /\ x.generations \in Nat \ {0} /\ x.faults \in Nat

ASSUME CoordinationAssumption ==
  /\ \A x \in Scenarios : IsScenario(x)
  /\ NoPlane \notin Planes /\ NoOwner \notin Nat

ASSUME ProviderAssumption == Provider \in [Planes -> Providers]

VARIABLES
  scenario,  \* chosen once
  rows,      \* the services tables: [Ids -> Row]
  dns,       \* the DNSPod zone: [Names -> the service its remark names]
  requests,  \* [Slots -> Request]
  faults

coordVars == <<scenario, rows, dns, requests, faults>>

Ids == DOMAIN scenario.place

\* SaveServiceFrontDoor writes all columns, so a row has a verification or a CNAME.
FrontDoors == {"none", "verification", "cname"}

\* A deletion may go one beyond the last generation of an update.
Row == [desired: {"absent", "active", "deleted"}, generation: 0..(scenario.generations + 1),
        frontDoor: FrontDoors]
NoRow == [desired |-> "absent", generation |-> 0, frontDoor |-> "none"]

Plane(id) == scenario.place[id][1]
Host(id) == scenario.place[id][2]

\* Host and Purpose of a managedDNSRecord.  A CNAME has the service's host; a provider
\* verifies the root domain, by one record for the services of all its planes.
Names == (Hosts \X {"cname"}) \cup (Providers \X {"verification"})

\* A service of a snapshot that still needs DNS calls.
Todo == [id: Ids, want: {"verification", "cname"}]

Request == [op: {"none", "create", "update", "delete", "view"},
            pc: {"idle", "load", "sync", "send", "cleanup"},
            plane: Planes \cup {NoPlane}, id: Ids \cup {0}, generation: 0..(scenario.generations + 1), todo: SUBSET Todo]
Idle == [op |-> "none", pc |-> "idle", plane |-> NoPlane, id |-> 0,
         generation |-> 0, todo |-> {}]

Active(id) == rows[id].desired = "active"

Fault == faults < scenario.faults /\ faults' = faults + 1
NoFault == UNCHANGED faults

Continue(r, request) == requests' = [requests EXCEPT ![r] = request]
End(r) == Continue(r, Idle)

\* bestEffortRefreshServiceDNS: look at the plane once more, and end.
Refresh(r) ==
  Continue(r, [Idle EXCEPT !.op = "view", !.pc = "load", !.plane = requests[r].plane])

-----------------------------------------------------------------------------
(* Requests arrive. *)

Begin(r, request) ==
  /\ r \in scenario.slots /\ requests[r] = Idle
  /\ Continue(r, request)
  /\ NoFault /\ UNCHANGED <<scenario, rows, dns>>

\* The id is new, and younger than those of the plane's earlier services.
Create(r, id) ==
  /\ rows[id].desired = "absent"
  /\ \A i \in 1..(id - 1) : Plane(i) = Plane(id) => rows[i].desired # "absent"
  /\ \A x \in Slots : requests[x].id # id
  /\ Begin(r, [Idle EXCEPT !.op = "create", !.pc = "send", !.plane = Plane(id), !.id = id,
                           !.generation = 1])

\* Both begin with Get, for a service the caller has seen.
Change(r, op, id) ==
  /\ rows[id].desired # "absent"
  /\ Begin(r, [Idle EXCEPT !.op = op, !.pc = "load", !.plane = Plane(id), !.id = id])

\* A list, a page or a metrics scrape looks at a plane.
View(r, p) == Begin(r, [Idle EXCEPT !.op = "view", !.pc = "load", !.plane = p])

-----------------------------------------------------------------------------
(* GetPlaneSnapshotView: load the snapshot, then syncFrontDoorDNS. *)

ListServices_WithTombstones(p) == {id \in Ids : Plane(id) = p /\ rows[id].desired # "absent"}

ListServices(p) == {id \in Ids : Plane(id) = p /\ Active(id)}

WithinBound(q) == q.op = "update" => q.generation <= scenario.generations

AfterSync_SendsUnseen(q) ==
  IF q.op \in {"update", "delete"} /\ WithinBound(q)
    THEN [q EXCEPT !.pc = "send", !.todo = {}] ELSE Idle

\* The change is sent if Get has found the service.
AfterSync(q) ==
  IF q.op \in {"update", "delete"} /\ q.generation > 0 /\ WithinBound(q)
    THEN [q EXCEPT !.pc = "send", !.todo = {}] ELSE Idle

NextTodo(r, todo) ==
  LET q == [requests[r] EXCEPT !.todo = todo, !.pc = "sync"] IN
  Continue(r, IF todo = {} THEN AfterSync(q) ELSE q)

collectSnapshot(r) ==
  LET q == requests[r]
      listed == ListServices(q.plane)
      seen == IF q.id \in listed THEN rows[q.id].generation + 1 ELSE 0
      next == [q EXCEPT !.pc = "sync", !.generation = seen,
                 !.todo = {[id |-> id, want |-> rows[id].frontDoor] :
                             id \in {i \in listed : rows[i].frontDoor # "none"}}]
  IN /\ q.pc = "load"
     /\ \/ Continue(r, IF next.todo = {} THEN AfterSync(next) ELSE next) /\ NoFault
        \/ End(r) /\ Fault
     /\ UNCHANGED <<scenario, rows, dns>>

Name(id, purpose) == <<IF purpose = "cname" THEN Host(id) ELSE Provider[Plane(id)], purpose>>

CanHave_Unowned(id, name) == TRUE

\* ensureAgainstExistingRecords refuses a record whose remark names somebody else: a
\* namesake's CNAME, or the verification record while another service has it.
CanHave(id, name) == dns[name] \in {NoOwner, id}

\* The zone after EnsureRecord; a lost race to create ends in the same check, so its
\* calls are one step.
EnsureRecord(zone, id, name) == [zone EXCEPT ![name] = id]

DeleteServiceRecords_AnyOwner(zone, id, purposes) ==
  [name \in Names |-> IF name[2] \in purposes /\ name = Name(id, name[2]) THEN NoOwner ELSE zone[name]]

DeleteServiceRecords(zone, id, purposes) ==
  [name \in Names |-> IF zone[name] = id /\ name[2] \in purposes THEN NoOwner ELSE zone[name]]

\* A service without a CNAME gets its verification record; one with a CNAME gets that
\* record and loses the verification.
Synced(t) ==
  LET ensured == EnsureRecord(dns, t.id, Name(t.id, t.want)) IN
  IF t.want = "cname" THEN DeleteServiceRecords(ensured, t.id, {"verification"}) ELSE ensured

NextItem(q) == CHOOSE t \in q.todo : \A u \in q.todo : t.id <= u.id

Rest_StopsAtVerification(q, t) == IF t.want = "verification" THEN {} ELSE q.todo \ {t}

Rest(q, t) == q.todo \ {t}

\* The calls for one service.  Any error ends the loop over the services: a record of
\* somebody else, or a call that failed before or after it took effect.
syncFrontDoorDNS(r) ==
  LET q == requests[r]
      t == NextItem(q)
      name == Name(t.id, t.want)
  IN /\ q.pc = "sync"
     /\ IF CanHave(t.id, name)
          THEN \/ dns' = Synced(t) /\ NextTodo(r, Rest(q, t)) /\ NoFault
               \/ /\ dns' \in {dns, EnsureRecord(dns, t.id, name)}
                  /\ NextTodo(r, {}) /\ Fault
          ELSE NextTodo(r, {}) /\ NoFault /\ UNCHANGED dns
     /\ UNCHANGED <<scenario, rows>>

-----------------------------------------------------------------------------
(* The change is sent to the plane. *)

\* UNIQUE(host) of the plane's table, tombstones included.
HostTaken(id) ==
  \E i \in Ids : scenario.place[i] = scenario.place[id] /\ rows[i].desired # "absent"

InsertService(id) ==
  rows' = [rows EXCEPT ![id] = [desired |-> "active", generation |-> 1, frontDoor |-> "none"]]

\* The handler answers OK also when the store keeps what it has.
UpsertService(q) ==
  rows' = IF \/ rows[q.id].generation < q.generation
             \/ rows[q.id].generation = q.generation /\ Active(q.id)
            THEN [rows EXCEPT ![q.id].generation = q.generation, ![q.id].desired = "active"]
            ELSE rows

\* The row is there: Get has found it, and rows stay as tombstones.
DeleteService(q) ==
  rows' = [rows EXCEPT ![q.id].desired = "deleted",
             ![q.id].generation = IF @ < q.generation THEN q.generation ELSE @]

Apply(q) ==
  CASE q.op = "create" -> ~HostTaken(q.id) /\ InsertService(q.id)
    [] q.op = "update" -> UpsertService(q)
    [] q.op = "delete" -> DeleteService(q)

\* sendServiceSpecToPlane and deleteRemoteService: carried out and answered; refused;
\* carried out without an answer; or lost.
send(r) ==
  LET q == requests[r] IN
  /\ q.pc = "send"
  /\ \/ /\ Apply(q) /\ NoFault
        /\ IF q.op = "delete" THEN Continue(r, [q EXCEPT !.pc = "cleanup"]) ELSE Refresh(r)
     \/ q.op = "create" /\ HostTaken(q.id) /\ End(r) /\ NoFault /\ UNCHANGED rows
     \/ Apply(q) /\ End(r) /\ Fault
     \/ UNCHANGED rows /\ End(r) /\ Fault
  /\ UNCHANGED <<scenario, dns>>

\* A failed cleanup is logged; the request goes on and answers that it has succeeded.
cleanupServiceDNS(r) ==
  LET q == requests[r] IN
  /\ q.pc = "cleanup"
  /\ \/ dns' = DeleteServiceRecords(dns, q.id, {"verification", "cname"}) /\ NoFault
     \/ /\ \E purposes \in {{}, {"verification"}, {"cname"}} :
             dns' = DeleteServiceRecords(dns, q.id, purposes)
        /\ Fault
  /\ Refresh(r)
  /\ UNCHANGED <<scenario, rows>>

-----------------------------------------------------------------------------
(* Everything else. *)

\* The plane's front-door loop saves what its provider says of an active service and
\* clears the columns of any; what it may still save for a tombstone nobody reads.
FrontDoorLoop(id) ==
  /\ rows[id].desired # "absent"
  /\ \E status \in IF Active(id) THEN FrontDoors ELSE {"none"} :
       rows' = [rows EXCEPT ![id].frontDoor = status]
  /\ NoFault /\ UNCHANGED <<scenario, dns, requests>>

\* The function instance stops in the middle of a request.
InstanceStops(r) ==
  /\ requests[r] # Idle
  /\ End(r) /\ Fault
  /\ UNCHANGED <<scenario, rows, dns>>

CoordInit ==
  /\ scenario \in Scenarios
  /\ rows = [id \in Ids |-> NoRow]
  /\ dns = [name \in Names |-> NoOwner]
  /\ requests = [r \in Slots |-> Idle]
  /\ faults = 0

RequestStep(r) == collectSnapshot(r) \/ syncFrontDoorDNS(r) \/ send(r) \/ cleanupServiceDNS(r)

CoordNext ==
  \/ \E r \in Slots : RequestStep(r)
  \/ \E r \in Slots, id \in Ids : Create(r, id)
  \/ \E r \in Slots, id \in Ids : Change(r, "update", id) \/ Change(r, "delete", id)
  \/ \E r \in Slots, p \in Planes : View(r, p)
  \/ \E id \in Ids : FrontDoorLoop(id)
  \/ \E r \in Slots : InstanceStops(r)

\* Every request comes to its end, and every plane is looked at again and again.
\* Nobody promises that a service is changed or that a front door gets anywhere.
CoordFairness ==
  /\ \A r \in Slots : WF_coordVars(RequestStep(r))
  /\ \A p \in Planes : SF_coordVars(\E r \in Slots : View(r, p))

CoordSpec == CoordInit /\ [][CoordNext]_coordVars /\ CoordFairness

-----------------------------------------------------------------------------
(* Properties. *)

\* Every variable has its type, a record has the name that its owner's CNAME or its
\* owner's provider gives it, and a request only sends a change of what it has found in
\* its own snapshot.
CoordTypeOK ==
  /\ scenario \in Scenarios /\ rows \in [Ids -> Row]
  /\ dns \in [Names -> Ids \cup {NoOwner}]
  /\ requests \in [Slots -> Request] /\ faults \in 0..scenario.faults
  /\ \A name \in Names : dns[name] # NoOwner => name = Name(dns[name], name[2])
  /\ \A r \in Slots : requests[r].pc \in {"send", "cleanup"} => requests[r].generation > 0

Has(id, purpose) == dns[Name(id, purpose)] = id

\* An active service keeps its CNAME record: no sweep of its verification, no
\* cleanup of a namesake on another plane and no request with an older snapshot
\* takes it away, only the cleanup of its own deletion.
CNAMEsSurvive ==
  [][\A id \in Ids :
       /\ Active(id) /\ Has(id, "cname")
       /\ \A r \in Slots : ~(requests[r].pc = "cleanup" /\ requests[r].id = id)
       => Has(id, "cname")']_coordVars

\* Nothing is left of a deletion and nobody under way has seen the service before.
Gone(id) ==
  /\ rows[id].desired = "deleted"
  /\ \A name \in Names : dns[name] # id
  /\ \A r \in Slots :
       /\ requests[r].id = id => requests[r].generation = 0
       /\ \A t \in requests[r].todo : t.id # id

\* Then it stays so: no later request brings the service or one of its records back,
\* also one that was told to update it.
DeletedStaysGone == [][\A id \in Ids : Gone(id) => Gone(id)']_coordVars

Ownership == INSTANCE RecordOwnership WITH
  place <- scenario.place,
  desired <- [id \in Ids |-> rows[id].desired],
  leaving <- {requests[r].id : r \in {x \in Slots : requests[x].pc = "cleanup"}},
  owner <- dns

\* However requests with older snapshots overlap, and wherever they stop, no record goes
\* from one service to another, or to nobody, but through a cleanup of its owner's
\* deletion, and only services the planes have accepted get one.
RecordsAreOwned == Ownership!Spec

\* A service of the same plane, listed no later than id, wants a record of somebody else:
\* the CNAME of a namesake on another plane or of a service that was left behind, or the
\* provider's verification record while any other service has it, be it id itself, whose
\* own turn to give it back never comes.
Blocked(id) ==
  /\ id \in Ids
  /\ \E i \in 1..id :
    /\ Active(i) /\ Plane(i) = Plane(id) /\ rows[i].frontDoor # "none"
    /\ ~CanHave(i, Name(i, rows[i].frontDoor))

\* The record of a front door that stays gets there and its verification record goes
\* away, whatever failed or was overtaken before and whoever had the verification record,
\* unless a record of somebody else keeps stopping the synchronisations of the plane.
DNSFollowsFrontDoor ==
  \A id \in 1..MaxServices :
    <>[](id \in Ids /\ Active(id) /\ rows[id].frontDoor = "cname")
      => \/ <>[](id \in Ids /\ Has(id, "cname") /\ ~Has(id, "verification"))
         \/ []<>Blocked(id)

\* operations.md:200 "the runtime node, CDN and DNS records are cleaned up" once the
\* services are deleted.  A request that loaded its snapshot before the deletion
\* writes the records after cleanupServiceDNS, and no later request lists the service.
DeletedHasNoRecords ==
  \A id \in Ids :
    /\ rows[id].desired = "deleted"
    /\ \A r \in Slots : requests[r] = Idle
    => \A name \in Names : dns[name] # id
=============================================================================
