-------------------------- MODULE CoordinationProofs --------------------------
(* Theorems about the coordination of services and their DNS records, for every *)
(* number of planes, hosts, services and requests under way.                    *)
EXTENDS Coordination, WellFoundedInduction, TLAPS

\* A request has something to do where it stands, and a service to do it for.
SoundRequest(q) ==
  /\ q \in Request
  /\ q.op \in {"create", "update", "delete"} => q.id \in Ids
  /\ q.pc = "sync" => q.todo # {}
  /\ q.pc \in {"send", "cleanup"} => q.op \in {"create", "update", "delete"} /\ q.generation > 0
  /\ q.pc = "send" => WithinBound(q)

\* Updates stay within the bound, so a deletion is at most one beyond it.
SoundRows ==
  /\ rows \in [Ids -> Row]
  /\ \A id \in Ids : Active(id) => rows[id].generation <= scenario.generations

\* A zone only has records under the name that is their owner's: its host, or the
\* verification of its plane's provider.
SoundZone(zone) ==
  /\ zone \in [Names -> Ids \cup {NoOwner}]
  /\ \A name \in Names : zone[name] # NoOwner => name = Name(zone[name], name[2])

SoundRequests == requests \in [Slots -> Request] /\ \A r \in Slots : SoundRequest(requests[r])

\* The inductive invariant.
CInv ==
  /\ scenario \in Scenarios /\ faults \in 0..scenario.faults
  /\ SoundRows /\ SoundZone(dns) /\ SoundRequests

-----------------------------------------------------------------------------
USE CoordinationAssumption
USE DEF FrontDoors

(* Facts about the scenario. *)

LEMMA ScenarioType ==
  ASSUME scenario \in Scenarios
  PROVE  /\ Ids \subseteq Nat \ {0}
         /\ scenario.generations \in Nat \ {0} /\ scenario.faults \in Nat
         /\ \A id \in Ids : Plane(id) \in Planes /\ Host(id) \in Hosts
         /\ \A id \in Ids, purpose \in {"verification", "cname"} :
              Name(id, purpose) \in Names /\ Name(id, purpose)[2] = purpose
         /\ NoOwner \notin Ids
<1>1. scenario.place \in Seq(Planes \X Hosts) /\ Len(scenario.place) \in Nat
  BY DEF IsScenario
<1>2. Ids = 1..Len(scenario.place)
  BY <1>1 DEF Ids
<1>3. \A id \in Ids : scenario.place[id] \in Planes \X Hosts
  BY <1>1, <1>2
<1>4. \A id \in Ids : Plane(id) \in Planes /\ Host(id) \in Hosts
  BY <1>3 DEF Plane, Host
<1>5. \A id \in Ids, purpose \in {"verification", "cname"} :
        Name(id, purpose) \in Names /\ Name(id, purpose)[2] = purpose
  BY <1>4, ProviderAssumption DEF Name, Names
<1> QED
  BY <1>2, <1>4, <1>5 DEF IsScenario

\* The loop over the services of a snapshot has a next one as long as some are left.
LEMMA NextItemIsToDo ==
  ASSUME scenario \in Scenarios, NEW q, q.todo \subseteq Todo, q.todo # {}
  PROVE  NextItem(q) \in q.todo
<1> DEFINE S == {t.id : t \in q.todo}
           R == OpToRel(<, Nat)
<1>1. S \subseteq Nat /\ S # {}
  BY ScenarioType DEF Todo
<1>2. PICK x \in S : \A y \in S : ~ (<<y, x>> \in R)
  <2>1. IsWellFoundedOn(R, Nat)
    BY NatLessThanWellFounded, Zenon
  <2> HIDE DEF R, S
  <2> QED
    BY <1>1, <2>1, WFMin, Zenon
<1>3. ASSUME NEW y \in S PROVE x <= y
  <2>1. <<y, x>> \in Nat \X Nat /\ <<y, x>>[1] = y /\ <<y, x>>[2] = x
    BY <1>1
  <2>2. y < x => <<y, x>> \in R
    BY <2>1, Zenon DEF OpToRel
  <2>3. ~ (y < x)
    BY <1>2, <2>2, Zenon
  <2> QED
    BY <1>1, <2>3
<1>4. PICK t \in q.todo : t.id = x
  OBVIOUS
<1>5. \A u \in q.todo : t.id <= u.id
  BY <1>3, <1>4
<1> QED
  BY <1>5 DEF NextItem

\* Expanded once and for all.
LEMMA IdleIsRequest ==
  ASSUME scenario \in Scenarios
  PROVE  /\ Idle \in Request /\ Idle.pc = "idle" /\ Idle.op = "none" /\ Idle.id = 0
         /\ Idle.generation = 0 /\ Idle.todo = {}
BY ScenarioType DEF Idle, Request

-----------------------------------------------------------------------------
(* Requests go on. *)

LEMMA Continues ==
  ASSUME CInv, NEW r \in Slots, NEW q, SoundRequest(q), Continue(r, q), UNCHANGED scenario
  PROVE  SoundRequests'
<1>1. \A x : SoundRequest(x)' <=> SoundRequest(x)
  <2>1. Ids' = Ids /\ Todo' = Todo /\ Request' = Request
    BY DEF Ids, Todo, Request
  <2>2. \A x : WithinBound(x)' <=> WithinBound(x)
    BY DEF WithinBound
  <2> QED
    BY <2>1, <2>2 DEF SoundRequest
<1>2. requests' = [requests EXCEPT ![r] = q] /\ q \in Request
  BY DEF Continue, SoundRequest
<1>3. Request' = Request
  BY DEF Ids, Todo, Request
<1> QED
  BY <1>1, <1>2, <1>3 DEF CInv, SoundRequests

LEMMA RequestsStay ==
  ASSUME CInv, UNCHANGED <<scenario, requests>>
  PROVE  SoundRequests'
<1>1. Ids' = Ids /\ Todo' = Todo /\ Request' = Request
  BY DEF Ids, Todo, Request
<1>2. \A x : WithinBound(x)' <=> WithinBound(x)
  BY DEF WithinBound
<1> QED
  BY <1>1, <1>2 DEF CInv, SoundRequests, SoundRequest

LEMMA RowsStay ==
  ASSUME CInv, UNCHANGED <<scenario, rows>>
  PROVE  SoundRows'
BY DEF CInv, SoundRows, Ids, Row, Active

LEMMA ZoneStays ==
  ASSUME UNCHANGED scenario, NEW zone, SoundZone(zone)
  PROVE  SoundZone(zone)'
BY DEF SoundZone, Ids, Names, Name, Plane, Host

LEMMA IdleIsSound ==
  ASSUME scenario \in Scenarios
  PROVE  SoundRequest(Idle)
BY IdleIsRequest DEF SoundRequest

LEMMA Ends ==
  ASSUME CInv, NEW r \in Slots, End(r), UNCHANGED scenario
  PROVE  SoundRequests'
BY IdleIsSound, Continues DEF CInv, End

LEMMA Refreshes ==
  ASSUME CInv, NEW r \in Slots, Refresh(r), UNCHANGED scenario
  PROVE  SoundRequests'
<1> DEFINE p == requests[r].plane
           q == [Idle EXCEPT !.op = "view", !.pc = "load", !.plane = p]
<1>1. p \in Planes \cup {NoPlane}
  BY DEF CInv, SoundRequests, Request
<1> HIDE DEF p
<1>2. q \in Request /\ q.op = "view" /\ q.pc = "load"
  BY <1>1, IdleIsRequest DEF CInv, Request
<1> HIDE DEF q
<1>3. SoundRequest(q)
  BY <1>2 DEF SoundRequest
<1> QED
  BY <1>3, Continues DEF Refresh, p, q

\* After its synchronisation a request sends its change or ends.
LEMMA AfterSyncIsSound ==
  ASSUME scenario \in Scenarios, NEW q \in Request,
         q.op \in {"create", "update", "delete"} => q.id \in Ids
  PROVE  SoundRequest(AfterSync(q))
<1>1. CASE q.op \in {"update", "delete"} /\ q.generation > 0 /\ WithinBound(q)
  <2> DEFINE sent == [q EXCEPT !.pc = "send", !.todo = {}]
  <2>1. /\ sent \in Request /\ sent.op = q.op /\ sent.id = q.id /\ sent.generation = q.generation
        /\ sent.pc = "send"
    BY DEF Request
  <2>2. WithinBound(sent)
    BY <1>1, <2>1 DEF WithinBound
  <2>3. AfterSync(q) = sent
    BY <1>1 DEF AfterSync
  <2> HIDE DEF sent
  <2> QED
    BY <1>1, <2>1, <2>2, <2>3 DEF SoundRequest
<1>2. CASE ~(q.op \in {"update", "delete"} /\ q.generation > 0 /\ WithinBound(q))
  BY <1>2, IdleIsSound DEF AfterSync
<1> QED
  BY <1>1, <1>2

LEMMA NextTodoIsSound ==
  ASSUME CInv, NEW r \in Slots, NEW todo \in SUBSET Todo, NextTodo(r, todo), UNCHANGED scenario
  PROVE  SoundRequests'
<1> DEFINE q == [requests[r] EXCEPT !.todo = todo, !.pc = "sync"]
<1>1. requests[r] \in Request /\ SoundRequest(requests[r])
  BY DEF CInv, SoundRequests
<1>2. q \in Request /\ q.todo = todo /\ q.pc = "sync" /\ q.op = requests[r].op /\ q.id = requests[r].id
  BY <1>1 DEF Request
<1>3. Continue(r, IF todo = {} THEN AfterSync(q) ELSE q)
  BY DEF NextTodo
<1> HIDE DEF q
<1>4. SoundRequest(AfterSync(q))
  BY <1>1, <1>2, AfterSyncIsSound DEF CInv, SoundRequest
<1>5. todo # {} => SoundRequest(q)
  BY <1>1, <1>2 DEF SoundRequest
<1> QED
  BY <1>3, <1>4, <1>5, Continues

(* The zone. *)

LEMMA EnsuringIsSound ==
  ASSUME scenario \in Scenarios, NEW zone, SoundZone(zone), NEW id \in Ids,
         NEW purpose \in {"verification", "cname"}
  PROVE  SoundZone(EnsureRecord(zone, id, Name(id, purpose)))
<1>1. Name(id, purpose) \in Names /\ Name(id, purpose)[2] = purpose
  BY ScenarioType
<1> QED
  BY <1>1 DEF SoundZone, EnsureRecord

LEMMA DeletingIsSound ==
  ASSUME NEW zone, SoundZone(zone), NEW id, NEW purposes
  PROVE  SoundZone(DeleteServiceRecords(zone, id, purposes))
BY DEF SoundZone, DeleteServiceRecords

-----------------------------------------------------------------------------
(* One lemma per step. *)

LEMMA FaultsStayBounded ==
  ASSUME CInv, UNCHANGED scenario, Fault \/ NoFault
  PROVE  faults' \in 0..scenario'.faults
BY ScenarioType DEF CInv, Fault, NoFault

LEMMA BeginInv ==
  ASSUME CInv, NEW r \in Slots, NEW q, SoundRequest(q), Begin(r, q)
  PROVE  CInv'
<1>1. SoundRequests'
  BY Continues DEF Begin
<1>2. SoundRows' /\ SoundZone(dns)'
  BY RowsStay, ZoneStays DEF CInv, Begin, SoundZone, Ids, Names, Name, Plane, Host
<1> QED
  BY <1>1, <1>2, FaultsStayBounded DEF CInv, Begin

LEMMA CreateInv ==
  ASSUME CInv, NEW r \in Slots, NEW id \in Ids, Create(r, id)
  PROVE  CInv'
<1> DEFINE q == [Idle EXCEPT !.op = "create", !.pc = "send", !.plane = Plane(id), !.id = id,
                             !.generation = 1]
<1>1. Plane(id) \in Planes /\ 1 \in 0..(scenario.generations + 1)
  BY ScenarioType DEF CInv
<1>2. /\ q \in Request /\ q.op = "create" /\ q.pc = "send" /\ q.id = id /\ q.generation = 1
  BY <1>1, IdleIsRequest DEF CInv, Request
<1> HIDE DEF q
<1>3. SoundRequest(q)
  BY <1>2 DEF SoundRequest, WithinBound
<1> QED
  BY <1>3, BeginInv DEF Create, q

LEMMA ChangeInv ==
  ASSUME CInv, NEW r \in Slots, NEW op \in {"update", "delete"}, NEW id \in Ids, Change(r, op, id)
  PROVE  CInv'
<1> DEFINE q == [Idle EXCEPT !.op = op, !.pc = "load", !.plane = Plane(id), !.id = id]
<1>1. Plane(id) \in Planes
  BY ScenarioType DEF CInv
<1>2. q \in Request /\ q.pc = "load" /\ q.id = id
  BY <1>1, IdleIsRequest DEF CInv, Request
<1> HIDE DEF q
<1>3. SoundRequest(q)
  BY <1>2 DEF SoundRequest
<1> QED
  BY <1>3, BeginInv DEF Change, q

LEMMA ViewInv ==
  ASSUME CInv, NEW r \in Slots, NEW p \in Planes, View(r, p)
  PROVE  CInv'
<1> DEFINE q == [Idle EXCEPT !.op = "view", !.pc = "load", !.plane = p]
<1>1. q \in Request /\ q.pc = "load" /\ q.op = "view"
  BY IdleIsRequest DEF CInv, Request
<1> HIDE DEF q
<1>2. SoundRequest(q)
  BY <1>1 DEF SoundRequest
<1> QED
  BY <1>2, BeginInv DEF View, q

LEMMA CollectSnapshotInv ==
  ASSUME CInv, NEW r \in Slots, collectSnapshot(r)
  PROVE  CInv'
<1> DEFINE q == requests[r]
           listed == ListServices(q.plane)
           seen == IF q.id \in listed THEN rows[q.id].generation + 1 ELSE 0
           todo == {[id |-> id, want |-> rows[id].frontDoor] :
                      id \in {i \in listed : rows[i].frontDoor # "none"}}
           next == [q EXCEPT !.pc = "sync", !.generation = seen, !.todo = todo]
<1>1. q \in Request /\ SoundRequest(q)
  BY DEF CInv, SoundRequests
<1>2. seen \in 0..(scenario.generations + 1)
  BY ScenarioType DEF CInv, SoundRows, ListServices, Row
<1>3. todo \in SUBSET Todo
  BY DEF CInv, SoundRows, ListServices, Row, Todo
<1>4. \/ Continue(r, IF next.todo = {} THEN AfterSync(next) ELSE next)
      \/ End(r)
  BY DEF collectSnapshot
<1> HIDE DEF seen, todo
<1>5. /\ next \in Request /\ next.pc = "sync" /\ next.todo = todo
      /\ next.op = q.op /\ next.id = q.id
  BY <1>1, <1>2, <1>3 DEF Request
<1> HIDE DEF next
<1>6. SoundRequest(AfterSync(next))
  BY <1>1, <1>5, AfterSyncIsSound DEF CInv, SoundRequest
<1>7. next.todo # {} => SoundRequest(next)
  BY <1>1, <1>5 DEF SoundRequest
<1>8. UNCHANGED <<scenario, rows, dns>> /\ (Fault \/ NoFault)
  BY DEF collectSnapshot
<1>9. SoundRequests'
  BY <1>4, <1>6, <1>7, <1>8, Continues, Ends
<1>10. SoundRows' /\ SoundZone(dns)'
  BY <1>8, RowsStay DEF CInv, SoundZone, Ids, Names, Name, Plane, Host
<1> QED
  BY <1>8, <1>9, <1>10, FaultsStayBounded DEF CInv

LEMMA SyncFrontDoorDNSInv ==
  ASSUME CInv, NEW r \in Slots, syncFrontDoorDNS(r)
  PROVE  CInv'
<1> DEFINE q == requests[r]
           t == NextItem(q)
           name == Name(t.id, t.want)
<1>1. q.todo \in SUBSET Todo /\ q.todo # {} /\ q.pc = "sync"
  BY DEF CInv, SoundRequests, SoundRequest, Request, syncFrontDoorDNS
<1>2. t \in q.todo
  BY <1>1, NextItemIsToDo DEF CInv
<1>3. t.id \in Ids /\ t.want \in {"verification", "cname"}
  BY <1>1, <1>2 DEF Todo
<1>4. UNCHANGED <<scenario, rows>> /\ (Fault \/ NoFault)
  BY DEF syncFrontDoorDNS
<1>5. Rest(q, t) \in SUBSET Todo /\ {} \in SUBSET Todo
  BY <1>1 DEF Rest
<1>6. NextTodo(r, Rest(q, t)) \/ NextTodo(r, {})
  BY DEF syncFrontDoorDNS
<1>7. dns' \in {dns, Synced(t), EnsureRecord(dns, t.id, name)}
  BY DEF syncFrontDoorDNS
<1> HIDE DEF q, t, name
<1>8. SoundRequests'
  BY <1>4, <1>5, <1>6, NextTodoIsSound
<1>9. SoundZone(EnsureRecord(dns, t.id, name))
  BY <1>3, EnsuringIsSound DEF CInv, name
<1>10. SoundZone(Synced(t))
  BY <1>9, DeletingIsSound DEF Synced, name
<1>11. SoundZone(dns')
  BY <1>7, <1>9, <1>10 DEF CInv
<1>12. SoundZone(dns)'
  BY <1>4, <1>11 DEF SoundZone, Ids, Names, Name, Plane, Host
<1>13. SoundRows'
  BY <1>4, RowsStay
<1> QED
  BY <1>4, <1>8, <1>12, <1>13, FaultsStayBounded DEF CInv

LEMMA ApplyIsSound ==
  ASSUME CInv, NEW q, SoundRequest(q), q.pc = "send", Apply(q), UNCHANGED scenario
  PROVE  SoundRows'
<1>1. /\ q.id \in Ids /\ q.generation \in 1..(scenario.generations + 1)
      /\ q.op \in {"create", "update", "delete"}
      /\ q.op = "update" => q.generation <= scenario.generations
  BY ScenarioType DEF CInv, SoundRequest, WithinBound, Request
<1>2. Ids' = Ids /\ Row' = Row /\ scenario' = scenario
  BY DEF Ids, Row
<1>3. rows[q.id] \in Row /\ scenario.generations \in Nat \ {0} /\ rows[q.id].generation \in 0..(scenario.generations + 1)
  BY <1>1, ScenarioType DEF CInv, SoundRows, Row
<1>4. rows' = rows \/
      \E row \in Row : /\ rows' = [rows EXCEPT ![q.id] = row]
                       /\ row.desired = "active" => row.generation <= scenario.generations
  <2>1. CASE q.op = "create"
    <3>1. rows' = [rows EXCEPT ![q.id] = [desired |-> "active", generation |-> 1, frontDoor |-> "none"]]
      BY <2>1 DEF Apply, InsertService
    <3>2. /\ [desired |-> "active", generation |-> 1, frontDoor |-> "none"] \in Row
          /\ 1 <= scenario.generations
      BY <1>3 DEF Row
    <3> QED
      BY <3>1, <3>2
  <2>2. CASE q.op = "update"
    <3>1. \/ rows' = rows
          \/ rows' = [rows EXCEPT ![q.id] = [@ EXCEPT !.generation = q.generation, !.desired = "active"]]
      BY <1>1, <1>3, <2>2 DEF Apply, UpsertService, CInv, SoundRows
    <3>2. /\ [rows[q.id] EXCEPT !.generation = q.generation, !.desired = "active"] \in Row
          /\ q.generation \in 0..(scenario.generations + 1)
      <4>1. q.generation \in 0..(scenario.generations + 1)
        BY <1>1, <1>3
      <4> QED
        BY <1>3, <4>1 DEF Row
    <3> QED
      BY <1>1, <1>3, <2>2, <3>1, <3>2 DEF Row
  <2>3. CASE q.op = "delete"
    <3> DEFINE g == IF rows[q.id].generation < q.generation THEN q.generation ELSE rows[q.id].generation
    <3>1. rows' = [rows EXCEPT ![q.id] = [@ EXCEPT !.desired = "deleted", !.generation = g]]
      BY <1>1, <1>3, <2>3 DEF Apply, DeleteService, CInv, SoundRows, Row
    <3>2. g \in 0..(scenario.generations + 1)
      BY <1>1, <1>3
    <3> HIDE DEF g
    <3>3. [rows[q.id] EXCEPT !.desired = "deleted", !.generation = g] \in Row
      BY <1>3, <3>2 DEF Row
    <3> QED
      BY <1>3, <3>1, <3>3 DEF Row
  <2> QED
    BY <1>1, <2>1, <2>2, <2>3
<1> QED
  BY <1>1, <1>2, <1>4 DEF CInv, SoundRows, Active

LEMMA SendInv ==
  ASSUME CInv, NEW r \in Slots, send(r)
  PROVE  CInv'
<1> DEFINE q == requests[r]
<1>1. SoundRequest(q) /\ q \in Request /\ q.pc = "send" /\ UNCHANGED <<scenario, dns>>
      /\ (Fault \/ NoFault)
  BY DEF CInv, SoundRequests, send
<1>2. Apply(q) \/ UNCHANGED rows
  BY DEF send
<1>3. Refresh(r) \/ End(r) \/ (q.op = "delete" /\ Continue(r, [q EXCEPT !.pc = "cleanup"]))
  BY DEF send
<1> HIDE DEF q
<1>4. SoundRows'
  BY <1>1, <1>2, ApplyIsSound, RowsStay
<1>5. SoundRequest([q EXCEPT !.pc = "cleanup"])
  <2> DEFINE c == [q EXCEPT !.pc = "cleanup"]
  <2>1. c \in Request /\ c.op = q.op /\ c.id = q.id /\ c.generation = q.generation /\ c.pc = "cleanup"
    BY <1>1 DEF Request
  <2> QED
    BY <1>1, <2>1 DEF SoundRequest
<1>6. SoundRequests'
  BY <1>1, <1>3, <1>5, Refreshes, Ends, Continues
<1>7. SoundZone(dns)'
  BY <1>1 DEF CInv, SoundZone, Ids, Names, Name, Plane, Host
<1> QED
  BY <1>1, <1>4, <1>6, <1>7, FaultsStayBounded DEF CInv

LEMMA CleanupServiceDNSInv ==
  ASSUME CInv, NEW r \in Slots, cleanupServiceDNS(r)
  PROVE  CInv'
<1>1. UNCHANGED <<scenario, rows>> /\ (Fault \/ NoFault) /\ Refresh(r)
      /\ \E purposes : dns' = DeleteServiceRecords(dns, requests[r].id, purposes)
  BY DEF cleanupServiceDNS
<1>2. SoundZone(dns')
  BY <1>1, DeletingIsSound DEF CInv
<1>3. SoundZone(dns)'
  BY <1>1, <1>2 DEF SoundZone, Ids, Names, Name, Plane, Host
<1>4. SoundRows' /\ SoundRequests'
  BY <1>1, RowsStay, Refreshes
<1> QED
  BY <1>1, <1>3, <1>4, FaultsStayBounded DEF CInv

LEMMA FrontDoorLoopInv ==
  ASSUME CInv, NEW id \in Ids, FrontDoorLoop(id)
  PROVE  CInv'
<1>1. UNCHANGED <<scenario, dns, requests>> /\ NoFault
  BY DEF FrontDoorLoop
<1>2. PICK status \in FrontDoors : rows' = [rows EXCEPT ![id].frontDoor = status]
  BY DEF FrontDoorLoop
<1>3. rows[id] \in Row /\ [rows[id] EXCEPT !.frontDoor = status] \in Row
  BY DEF CInv, SoundRows, Row
<1>4. Ids' = Ids /\ Row' = Row
  BY <1>1 DEF Ids, Row
<1>5. \A i \in Ids : rows'[i].desired = rows[i].desired /\ rows'[i].generation = rows[i].generation
  BY <1>2, <1>3 DEF CInv, SoundRows, Row
<1>6. rows' \in [Ids -> Row]
  BY <1>2, <1>3 DEF CInv, SoundRows
<1>7. SoundRows'
  BY <1>1, <1>4, <1>5, <1>6 DEF CInv, SoundRows, Active
<1>8. SoundZone(dns)' /\ SoundRequests'
  BY <1>1, RequestsStay DEF CInv, SoundZone, Ids, Names, Name, Plane, Host
<1> QED
  BY <1>1, <1>7, <1>8, FaultsStayBounded DEF CInv

LEMMA InstanceStopsInv ==
  ASSUME CInv, NEW r \in Slots, InstanceStops(r)
  PROVE  CInv'
<1>1. UNCHANGED <<scenario, rows, dns>> /\ Fault /\ End(r)
  BY DEF InstanceStops
<1>2. SoundZone(dns)' /\ SoundRows' /\ SoundRequests'
  BY <1>1, Ends, RowsStay DEF CInv, SoundZone, Ids, Names, Name, Plane, Host
<1> QED
  BY <1>1, <1>2, FaultsStayBounded DEF CInv

-----------------------------------------------------------------------------
LEMMA CInvInit == CoordInit => CInv
<1> SUFFICES ASSUME CoordInit PROVE CInv
  OBVIOUS
<1>1. scenario \in Scenarios /\ faults \in 0..scenario.faults
  BY ScenarioType DEF CoordInit
<1>2. SoundRows
  BY <1>1, ScenarioType DEF CoordInit, SoundRows, Row, NoRow, Active
<1>3. SoundZone(dns)
  BY DEF CoordInit, SoundZone
<1>4. SoundRequests
  BY <1>1, IdleIsRequest, IdleIsSound DEF CoordInit, SoundRequests
<1> QED
  BY <1>1, <1>2, <1>3, <1>4 DEF CInv

LEMMA CInvStep == CInv /\ [CoordNext]_coordVars => CInv'
<1> SUFFICES ASSUME CInv, [CoordNext]_coordVars PROVE CInv'
  OBVIOUS
<1>1. CASE UNCHANGED coordVars
  <2>1. UNCHANGED <<scenario, rows, dns, requests, faults>>
    BY <1>1 DEF coordVars
  <2>2. SoundRows' /\ SoundRequests' /\ SoundZone(dns)'
    BY <2>1, RowsStay, RequestsStay DEF CInv, SoundZone, Ids, Names, Name, Plane, Host
  <2> QED
    BY <2>1, <2>2 DEF CInv
<1> QED
  BY <1>1, CreateInv, ChangeInv, ViewInv, CollectSnapshotInv, SyncFrontDoorDNSInv, SendInv,
     CleanupServiceDNSInv, FrontDoorLoopInv, InstanceStopsInv DEF CoordNext, RequestStep

\* The inductive invariant holds however requests of the control-plane overlap and fail.
THEOREM CoordinationInvariance == CoordSpec => []CInv
BY CInvInit, CInvStep, PTL DEF CoordSpec

LEMMA InvariantGivesTypes == CInv => CoordTypeOK
BY DEF CInv, SoundRows, SoundZone, SoundRequests, SoundRequest, CoordTypeOK

\* Every variable has its type; a CNAME is of a service with that host and a verification
\* record of a service on a plane of that provider, whoever contends for it; and
\* sendServiceSpecToPlane and deleteRemoteService only send what the request has seen.
THEOREM CoordTypeCorrect == CoordSpec => []CoordTypeOK
BY CoordinationInvariance, InvariantGivesTypes, PTL

-----------------------------------------------------------------------------
(* CNAME records stay. *)

LEMMA SyncKeepsCNAME ==
  ASSUME CInv, NEW id \in Ids, Has(id, "cname"), NEW r \in Slots, syncFrontDoorDNS(r)
  PROVE  Has(id, "cname")'
<1> DEFINE q == requests[r]
           t == NextItem(q)
           name == Name(t.id, t.want)
           mine == Name(id, "cname")
<1>1. UNCHANGED scenario /\ mine' = mine
  BY DEF syncFrontDoorDNS, Name, Plane, Host
<1>2. mine \in Names /\ mine[2] = "cname" /\ dns[mine] = id /\ id # NoOwner
  BY ScenarioType DEF CInv, Has
<1>3. \/ dns' = dns
      \/ CanHave(t.id, name) /\ dns' = Synced(t)
      \/ CanHave(t.id, name) /\ dns' = EnsureRecord(dns, t.id, name)
  BY Zenon DEF syncFrontDoorDNS
<1> HIDE DEF t, q, mine
<1>4. CanHave(t.id, name) => EnsureRecord(dns, t.id, name)[mine] = id
  BY <1>2 DEF CanHave, EnsureRecord, CInv, SoundZone
<1>5. CanHave(t.id, name) => Synced(t)[mine] = id
  BY <1>2, <1>4 DEF Synced, DeleteServiceRecords
<1>6. dns'[mine] = id
  BY <1>2, <1>3, <1>4, <1>5
<1> QED
  BY <1>1, <1>6 DEF Has, mine

LEMMA CleanupKeepsCNAME ==
  ASSUME CInv, NEW id \in Ids, Has(id, "cname"), NEW r \in Slots, cleanupServiceDNS(r),
         requests[r].id # id
  PROVE  Has(id, "cname")'
<1>1. UNCHANGED scenario
      /\ \E purposes : dns' = DeleteServiceRecords(dns, requests[r].id, purposes)
  BY DEF cleanupServiceDNS
<1>2. Name(id, "cname") \in Names
  BY ScenarioType DEF CInv
<1>3. dns'[Name(id, "cname")] = id
  BY <1>1, <1>2 DEF DeleteServiceRecords, Has
<1> QED
  BY <1>1, <1>3 DEF Has, Name, Plane, Host

LEMMA CNAMEStep ==
  ASSUME CInv, [CoordNext]_coordVars, NEW id \in Ids, Has(id, "cname"),
         \A r \in Slots : ~(requests[r].pc = "cleanup" /\ requests[r].id = id)
  PROVE  Has(id, "cname")'
<1>1. ASSUME UNCHANGED <<scenario, dns>> PROVE Has(id, "cname")'
  BY <1>1 DEF Has, Name, Plane, Host
<1>2. ASSUME NEW r \in Slots, cleanupServiceDNS(r) PROVE Has(id, "cname")'
  BY <1>2, CleanupKeepsCNAME DEF cleanupServiceDNS
<1>3. \/ UNCHANGED <<scenario, dns>>
      \/ \E r \in Slots : syncFrontDoorDNS(r) \/ cleanupServiceDNS(r)
  BY DEF CoordNext, RequestStep, coordVars, collectSnapshot, send, Create, Change, View, Begin,
         FrontDoorLoop, InstanceStops
<1> QED
  BY <1>1, <1>2, <1>3, SyncKeepsCNAME

\* However requests overlap and fail, the CNAME record of an active service stays until
\* the cleanup of its own deletion: EnsureRecord never overwrites a record of somebody
\* else, and DeleteServiceRecords only removes those its remark names.
THEOREM RecordsOfActiveServicesStay == CoordSpec => CNAMEsSurvive
<1> DEFINE A == \A id \in Ids :
                  /\ Active(id) /\ Has(id, "cname")
                  /\ \A r \in Slots : ~(requests[r].pc = "cleanup" /\ requests[r].id = id)
                  => Has(id, "cname")'
<1>1. CInv /\ [CoordNext]_coordVars => A
  BY CNAMEStep
<1> HIDE DEF A
<1>2. CoordSpec => [][A]_coordVars
  BY <1>1, CoordinationInvariance, PTL DEF CoordSpec
<1> QED
  BY <1>2 DEF CNAMEsSurvive, A

-----------------------------------------------------------------------------
(* What is deleted and cleaned up stays so. *)

\* The request knows nothing of the service.
Unaware(q, id) == (q.id = id => q.generation = 0) /\ \A t \in q.todo : t.id # id

LEMMA GoneStays ==
  ASSUME CInv, NEW id \in Ids, Gone(id), UNCHANGED scenario,
         rows'[id].desired = "deleted", \A name \in Names : dns'[name] # id,
         \/ UNCHANGED requests
         \/ \E r \in Slots : \E q : Continue(r, q) /\ Unaware(q, id)
  PROVE  Gone(id)'
<1>1. Names' = Names /\ \A q : Unaware(q, id)' <=> Unaware(q, id)
  BY DEF Names, Unaware
<1>2. \A r \in Slots : Unaware(requests[r], id)
  BY DEF Gone, Unaware
<1>3. \A r \in Slots : Unaware(requests'[r], id)
  BY <1>2 DEF Continue, CInv, SoundRequests
<1> QED
  BY <1>1, <1>3 DEF Gone, Unaware

LEMMA EndsUnaware ==
  ASSUME scenario \in Scenarios, NEW id \in Ids
  PROVE  Unaware(Idle, id)
BY IdleIsRequest DEF Unaware

LEMMA RefreshesUnaware ==
  ASSUME scenario \in Scenarios, NEW id \in Ids, NEW r \in Slots, Refresh(r)
  PROVE  \E q : Continue(r, q) /\ Unaware(q, id)
<1> DEFINE p == requests[r].plane
           q == [Idle EXCEPT !.op = "view", !.pc = "load", !.plane = p]
<1> HIDE DEF p
<1>1. q.id = 0 /\ q.todo = {} /\ q.generation = 0
  BY IdleIsRequest DEF Request
<1> HIDE DEF q
<1>2. Unaware(q, id)
  BY <1>1 DEF Unaware
<1> QED
  BY <1>2 DEF Refresh, q, p

LEMMA SyncedUnaware ==
  ASSUME scenario \in Scenarios, NEW id \in Ids, NEW q \in Request, Unaware(q, id)
  PROVE  Unaware(AfterSync(q), id)
<1>1. CASE q.op \in {"update", "delete"} /\ q.generation > 0 /\ WithinBound(q)
  <2>1. /\ [q EXCEPT !.pc = "send", !.todo = {}].id = q.id
        /\ [q EXCEPT !.pc = "send", !.todo = {}].generation = q.generation
        /\ [q EXCEPT !.pc = "send", !.todo = {}].todo = {}
    BY DEF Request
  <2> QED
    BY <1>1, <2>1 DEF AfterSync, Unaware
<1>2. CASE ~(q.op \in {"update", "delete"} /\ q.generation > 0 /\ WithinBound(q))
  BY <1>2, EndsUnaware DEF AfterSync
<1> QED
  BY <1>1, <1>2

LEMMA NextTodoUnaware ==
  ASSUME CInv, NEW id \in Ids, NEW r \in Slots, Gone(id),
         NEW todo \in SUBSET requests[r].todo, NextTodo(r, todo)
  PROVE  \E q : Continue(r, q) /\ Unaware(q, id)
<1> DEFINE q == [requests[r] EXCEPT !.todo = todo, !.pc = "sync"]
<1>1. requests[r] \in Request /\ Unaware(requests[r], id)
  BY DEF CInv, SoundRequests, Gone, Unaware
<1>2. /\ q \in Request /\ q.todo = todo /\ q.id = requests[r].id
      /\ q.generation = requests[r].generation
  BY <1>1 DEF Request
<1>3. Continue(r, IF todo = {} THEN AfterSync(q) ELSE q)
  BY DEF NextTodo
<1> HIDE DEF q
<1>4. Unaware(q, id)
  BY <1>1, <1>2 DEF Unaware
<1>5. Unaware(AfterSync(q), id)
  BY <1>2, <1>4, SyncedUnaware DEF CInv
<1> QED
  BY <1>3, <1>4, <1>5

LEMMA CollectsUnaware ==
  ASSUME CInv, NEW id \in Ids, NEW r \in Slots, Gone(id), collectSnapshot(r)
  PROVE  \E q : Continue(r, q) /\ Unaware(q, id)
<1> DEFINE q == requests[r]
           listed == ListServices(q.plane)
           seen == IF q.id \in listed THEN rows[q.id].generation + 1 ELSE 0
           todo == {[id |-> i, want |-> rows[i].frontDoor] :
                      i \in {i \in listed : rows[i].frontDoor # "none"}}
           next == [q EXCEPT !.pc = "sync", !.generation = seen, !.todo = todo]
<1>1. q \in Request
  BY DEF CInv, SoundRequests
<1>2. id \notin listed
  BY DEF Gone, ListServices, Active
<1>3. q.id = id => seen = 0
  BY <1>2
<1>4. \A t \in todo : t.id # id
  BY <1>2
<1>5. seen \in 0..(scenario.generations + 1)
  BY ScenarioType DEF CInv, SoundRows, ListServices, Row
<1>6. todo \in SUBSET Todo
  BY DEF CInv, SoundRows, ListServices, Row, Todo
<1>7. \/ Continue(r, IF next.todo = {} THEN AfterSync(next) ELSE next)
      \/ End(r)
  BY DEF collectSnapshot
<1> HIDE DEF seen, todo, listed
<1>8. next \in Request /\ next.todo = todo /\ next.id = q.id /\ next.generation = seen
  BY <1>1, <1>5, <1>6 DEF Request
<1> HIDE DEF next
<1>9. Unaware(next, id)
  BY <1>3, <1>4, <1>8 DEF Unaware
<1>10. Unaware(AfterSync(next), id)
  BY <1>8, <1>9, SyncedUnaware DEF CInv
<1> QED
  BY <1>7, <1>9, <1>10, EndsUnaware DEF CInv, End

LEMMA CollectKeepsGone ==
  ASSUME CInv, NEW id \in Ids, NEW r \in Slots, Gone(id), collectSnapshot(r)
  PROVE  Gone(id)'
<1>1. UNCHANGED <<scenario, rows, dns>>
  BY DEF collectSnapshot
<1> QED
  BY <1>1, CollectsUnaware, GoneStays DEF Gone

LEMMA SyncKeepsGone ==
  ASSUME CInv, NEW id \in Ids, NEW r \in Slots, Gone(id), syncFrontDoorDNS(r)
  PROVE  Gone(id)'
<1> DEFINE q == requests[r]
           t == NextItem(q)
           name == Name(t.id, t.want)
<1>1. q.todo \in SUBSET Todo /\ q.todo # {}
  BY DEF CInv, SoundRequests, SoundRequest, Request, syncFrontDoorDNS
<1>2. t \in q.todo
  BY <1>1, NextItemIsToDo DEF CInv
<1>3. t.id # id
  BY <1>2 DEF Gone
<1>4. UNCHANGED <<scenario, rows>> /\ (NextTodo(r, Rest(q, t)) \/ NextTodo(r, {}))
  BY DEF syncFrontDoorDNS
<1>5. dns' \in {dns, Synced(t), EnsureRecord(dns, t.id, name)}
  BY DEF syncFrontDoorDNS
<1>6. \E x : Continue(r, x) /\ Unaware(x, id)
  BY <1>4, NextTodoUnaware DEF Rest
<1>7. \A n \in Names : dns[n] # id
  BY DEF Gone
<1> HIDE DEF t, q, name
<1>8. \A n \in Names : EnsureRecord(dns, t.id, name)[n] # id
  BY <1>3, <1>7 DEF EnsureRecord, CInv, SoundZone
<1>9. \A n \in Names : Synced(t)[n] # id
  BY <1>8, ScenarioType DEF CInv, Synced, DeleteServiceRecords, name
<1>10. \A n \in Names : dns'[n] # id
  BY <1>5, <1>7, <1>8, <1>9
<1> QED
  BY <1>4, <1>6, <1>10, GoneStays DEF Gone

LEMMA SendKeepsGone ==
  ASSUME CInv, NEW id \in Ids, NEW r \in Slots, Gone(id), send(r)
  PROVE  Gone(id)'
<1> DEFINE q == requests[r]
<1>1. /\ SoundRequest(q) /\ q \in Request /\ q.pc = "send" /\ UNCHANGED <<scenario, dns>>
      /\ Unaware(q, id)
  BY DEF CInv, SoundRequests, send, Gone, Unaware
<1>2. q.id # id
  BY <1>1 DEF SoundRequest, Unaware
<1>3. Apply(q) \/ UNCHANGED rows
  BY DEF send
<1>4. Refresh(r) \/ End(r) \/ Continue(r, [q EXCEPT !.pc = "cleanup"])
  BY DEF send
<1> HIDE DEF q
<1>5. rows'[id] = rows[id]
  BY <1>1, <1>2, <1>3
     DEF Apply, InsertService, UpsertService, DeleteService, SoundRequest, CInv, SoundRows
<1>6. Unaware([q EXCEPT !.pc = "cleanup"], id)
  <2>1. /\ [q EXCEPT !.pc = "cleanup"].id = q.id
        /\ [q EXCEPT !.pc = "cleanup"].generation = q.generation
        /\ [q EXCEPT !.pc = "cleanup"].todo = q.todo
    BY <1>1 DEF Request
  <2> QED
    BY <1>1, <2>1 DEF Unaware
<1>7. \E x : Continue(r, x) /\ Unaware(x, id)
  BY <1>4, <1>6, RefreshesUnaware, EndsUnaware DEF CInv, End
<1> QED
  BY <1>1, <1>5, <1>7, GoneStays DEF Gone

LEMMA CleanupKeepsGone ==
  ASSUME CInv, NEW id \in Ids, NEW r \in Slots, Gone(id), cleanupServiceDNS(r)
  PROVE  Gone(id)'
<1>1. UNCHANGED <<scenario, rows>> /\ Refresh(r)
      /\ \E purposes : dns' = DeleteServiceRecords(dns, requests[r].id, purposes)
  BY DEF cleanupServiceDNS
<1>2. \A name \in Names : dns'[name] # id
  BY <1>1, ScenarioType DEF CInv, Gone, DeleteServiceRecords
<1>3. \E q : Continue(r, q) /\ Unaware(q, id)
  BY <1>1, RefreshesUnaware DEF CInv
<1> QED
  BY <1>1, <1>2, <1>3, GoneStays DEF Gone

LEMMA BeginKeepsGone ==
  ASSUME CInv, NEW id \in Ids, NEW r \in Slots, Gone(id), NEW q, Unaware(q, id), Begin(r, q)
  PROVE  Gone(id)'
<1>1. UNCHANGED <<scenario, rows, dns>> /\ Continue(r, q)
  BY DEF Begin
<1> QED
  BY <1>1, GoneStays DEF Gone

LEMMA ArrivalsKeepGone ==
  ASSUME CInv, NEW id \in Ids, NEW r \in Slots, Gone(id), NEW i \in Ids, NEW p \in Planes,
         Create(r, i) \/ Change(r, "update", i) \/ Change(r, "delete", i) \/ View(r, p)
  PROVE  Gone(id)'
<1>1. Idle \in Request /\ Idle.id = 0 /\ Idle.generation = 0 /\ Idle.todo = {}
  BY IdleIsRequest DEF CInv
<1>2. CASE Create(r, i)
  <2> DEFINE pl == Plane(i)
             q == [Idle EXCEPT !.op = "create", !.pc = "send", !.plane = pl, !.id = i,
                               !.generation = 1]
  <2>1. i # id
    BY <1>2 DEF Create, Gone
  <2> HIDE DEF pl
  <2>2. q.id = i /\ q.todo = {}
    BY <1>1 DEF Request
  <2> HIDE DEF q
  <2>3. Unaware(q, id)
    BY <2>1, <2>2 DEF Unaware
  <2> QED
    BY <1>2, <2>3, BeginKeepsGone DEF Create, q, pl
<1>3. ASSUME NEW op, Change(r, op, i) PROVE Gone(id)'
  <2> DEFINE pl == Plane(i)
             q == [Idle EXCEPT !.op = op, !.pc = "load", !.plane = pl, !.id = i]
  <2> HIDE DEF pl
  <2>1. q.generation = 0 /\ q.todo = {}
    BY <1>1 DEF Request
  <2> HIDE DEF q
  <2>2. Unaware(q, id)
    BY <2>1 DEF Unaware
  <2> QED
    BY <1>3, <2>2, BeginKeepsGone DEF Change, q, pl
<1>4. CASE View(r, p)
  <2> DEFINE q == [Idle EXCEPT !.op = "view", !.pc = "load", !.plane = p]
  <2>1. q.generation = 0 /\ q.todo = {}
    BY <1>1 DEF Request
  <2> HIDE DEF q
  <2>2. Unaware(q, id)
    BY <2>1 DEF Unaware
  <2> QED
    BY <1>4, <2>2, BeginKeepsGone DEF View, q
<1> QED
  BY <1>2, <1>3, <1>4

LEMMA OthersKeepGone ==
  ASSUME CInv, NEW id \in Ids, Gone(id),
         \/ \E i \in Ids : FrontDoorLoop(i)
         \/ \E r \in Slots : InstanceStops(r)
         \/ UNCHANGED coordVars
  PROVE  Gone(id)'
<1>1. ASSUME NEW i \in Ids, FrontDoorLoop(i) PROVE Gone(id)'
  <2>1. UNCHANGED <<scenario, dns, requests>>
    BY <1>1 DEF FrontDoorLoop
  <2>2. PICK status : rows' = [rows EXCEPT ![i].frontDoor = status]
    BY <1>1 DEF FrontDoorLoop
  <2>3. rows'[id].desired = rows[id].desired
    BY <2>2 DEF CInv, SoundRows, Row
  <2> QED
    BY <2>1, <2>3, GoneStays DEF Gone
<1>2. ASSUME NEW r \in Slots, InstanceStops(r) PROVE Gone(id)'
  <2>1. UNCHANGED <<scenario, rows, dns>> /\ Continue(r, Idle)
    BY <1>2 DEF InstanceStops, End
  <2> QED
    BY <2>1, EndsUnaware, GoneStays DEF CInv, Gone
<1>3. CASE UNCHANGED coordVars
  BY <1>3, GoneStays DEF coordVars, Gone
<1> QED
  BY <1>1, <1>2, <1>3

LEMMA GoneStep ==
  ASSUME CInv, [CoordNext]_coordVars, NEW id \in Ids, Gone(id)
  PROVE  Gone(id)'
<1>1. Planes # {}
  BY ScenarioType DEF CInv
<1> QED
  BY <1>1, CollectKeepsGone, SyncKeepsGone, SendKeepsGone, CleanupKeepsGone, ArrivalsKeepGone,
     OthersKeepGone DEF CoordNext, RequestStep

\* Once a service is deleted, its records are gone and no request under way has seen it,
\* no later request brings the service or a record back, whatever fails.
THEOREM DeletionsAreFinal == CoordSpec => DeletedStaysGone
<1> DEFINE A == \A id \in Ids : Gone(id) => Gone(id)'
<1>1. CInv /\ [CoordNext]_coordVars => A
  BY GoneStep
<1> HIDE DEF A
<1>2. CoordSpec => [][A]_coordVars
  BY <1>1, CoordinationInvariance, PTL DEF CoordSpec
<1> QED
  BY <1>2 DEF DeletedStaysGone, A


-----------------------------------------------------------------------------
(* Records are owned. *)

\* What a request is about has been accepted by its plane.
Known(q) ==
  /\ q.op \in {"update", "delete"} => rows[q.id].desired # "absent"
  /\ \A t \in q.todo : rows[t.id].desired # "absent"

KInv == \A r \in Slots : Known(requests[r])

\* The request goes on with something else than a cleanup.
Goes(r, q) == Continue(r, q) /\ Known(q) /\ q.pc # "cleanup"

LEMMA EndGoes ==
  ASSUME CInv, NEW r \in Slots, End(r)
  PROVE  \E q : Goes(r, q)
BY IdleIsRequest DEF CInv, End, Goes, Known

LEMMA RefreshGoes ==
  ASSUME CInv, NEW r \in Slots, Refresh(r)
  PROVE  \E q : Goes(r, q)
<1> DEFINE p == requests[r].plane
           q == [Idle EXCEPT !.op = "view", !.pc = "load", !.plane = p]
<1> HIDE DEF p
<1>1. q.op = "view" /\ q.todo = {} /\ q.pc = "load"
  BY IdleIsRequest DEF Request, CInv
<1> HIDE DEF q
<1>2. Continue(r, q)
  BY DEF Refresh, q, p
<1> QED
  BY <1>1, <1>2 DEF Goes, Known

LEMMA AfterSyncKnown ==
  ASSUME CInv, NEW q \in Request, Known(q)
  PROVE  Known(AfterSync(q)) /\ AfterSync(q).pc # "cleanup"
<1> DEFINE sent == [q EXCEPT !.pc = "send", !.todo = {}]
<1>1. sent.pc = "send" /\ sent.op = q.op /\ sent.id = q.id /\ sent.todo = {}
  BY DEF Request
<1>2. AfterSync(q) \in {sent, Idle}
  BY DEF AfterSync
<1> HIDE DEF sent
<1> QED
  BY <1>1, <1>2, IdleIsRequest DEF CInv, Known

LEMMA NextTodoGoes ==
  ASSUME CInv, KInv, NEW r \in Slots, NEW todo \in SUBSET requests[r].todo, NextTodo(r, todo)
  PROVE  \E q : Goes(r, q)
<1> DEFINE q == [requests[r] EXCEPT !.todo = todo, !.pc = "sync"]
<1>1. requests[r] \in Request /\ Known(requests[r])
  BY DEF CInv, KInv, SoundRequests
<1>2. /\ q \in Request /\ q.todo = todo /\ q.id = requests[r].id
      /\ q.op = requests[r].op /\ q.pc = "sync"
  BY <1>1 DEF Request
<1>3. Continue(r, IF todo = {} THEN AfterSync(q) ELSE q)
  BY DEF NextTodo
<1> HIDE DEF q
<1>4. Known(q)
  BY <1>1, <1>2 DEF Known
<1> QED
  BY <1>2, <1>3, <1>4, AfterSyncKnown DEF Goes

LEMMA CollectGoes ==
  ASSUME CInv, KInv, NEW r \in Slots, collectSnapshot(r)
  PROVE  \E q : Goes(r, q)
<1> DEFINE q == requests[r]
           listed == ListServices(q.plane)
           seen == IF q.id \in listed THEN rows[q.id].generation + 1 ELSE 0
           todo == {[id |-> i, want |-> rows[i].frontDoor] :
                      i \in {i \in listed : rows[i].frontDoor # "none"}}
           next == [q EXCEPT !.pc = "sync", !.generation = seen, !.todo = todo]
<1>1. q \in Request /\ Known(q)
  BY DEF CInv, KInv, SoundRequests
<1>2. \A i \in listed : rows[i].desired # "absent"
  BY DEF ListServices, Active
<1>3. \A t \in todo : rows[t.id].desired # "absent"
  BY <1>2
<1>4. seen \in 0..(scenario.generations + 1)
  BY ScenarioType DEF CInv, SoundRows, ListServices, Row
<1>5. todo \in SUBSET Todo
  BY DEF CInv, SoundRows, ListServices, Row, Todo
<1>6. \/ Continue(r, IF next.todo = {} THEN AfterSync(next) ELSE next)
      \/ End(r)
  BY DEF collectSnapshot
<1> HIDE DEF seen, todo, listed
<1>7. /\ next \in Request /\ next.todo = todo /\ next.id = q.id /\ next.op = q.op
      /\ next.pc = "sync"
  BY <1>1, <1>4, <1>5 DEF Request
<1> HIDE DEF next
<1>8. Known(next)
  BY <1>1, <1>3, <1>7 DEF Known
<1> QED
  BY <1>6, <1>7, <1>8, AfterSyncKnown, EndGoes DEF Goes

LEMMA BeginGoes ==
  ASSUME CInv, NEW r \in Slots, NEW q, Begin(r, q), Known(q), q.pc # "cleanup"
  PROVE  Goes(r, q) /\ UNCHANGED <<scenario, rows, dns>> /\ requests[r].pc # "cleanup"
BY IdleIsRequest DEF CInv, Begin, Goes

LEMMA ArrivalsGo ==
  ASSUME CInv, NEW r \in Slots, NEW id \in Ids, NEW p \in Planes,
         Create(r, id) \/ Change(r, "update", id) \/ Change(r, "delete", id) \/ View(r, p)
  PROVE  /\ \E q : Goes(r, q)
         /\ UNCHANGED <<scenario, rows, dns>> /\ requests[r].pc # "cleanup"
<1> DEFINE create == [Idle EXCEPT !.op = "create", !.pc = "send", !.plane = Plane(id), !.id = id,
                                  !.generation = 1]
           change(op) == [Idle EXCEPT !.op = op, !.pc = "load", !.plane = Plane(id), !.id = id]
           view == [Idle EXCEPT !.op = "view", !.pc = "load", !.plane = p]
<1>1. Idle \in Request /\ Idle.todo = {}
  BY IdleIsRequest DEF CInv
<1>2. /\ create.op = "create" /\ create.todo = {} /\ create.pc = "send"
      /\ view.op = "view" /\ view.todo = {} /\ view.pc = "load"
      /\ \A op : /\ change(op).op = op /\ change(op).id = id /\ change(op).todo = {}
                 /\ change(op).pc = "load"
  BY <1>1 DEF Request
<1>3. \/ Begin(r, create)
      \/ rows[id].desired # "absent" /\ \E op : Begin(r, change(op))
      \/ Begin(r, view)
  BY DEF Create, Change, View
<1> HIDE DEF create, view, change
<1>4. /\ Known(create) /\ Known(view)
      /\ rows[id].desired # "absent" => \A op : Known(change(op))
  BY <1>2 DEF Known
<1> QED
  BY <1>2, <1>3, <1>4, BeginGoes

\* The abstract state the mapping computes.
Desired == [id \in Ids |-> rows[id].desired]
Leaving == {requests[r].id : r \in {x \in Slots : requests[x].pc = "cleanup"}}

LEMMA Mapped ==
  /\ Ownership!vars = <<scenario.place, Desired, Leaving, dns>>
  /\ Ownership!vars' = <<scenario'.place, Desired', Leaving', dns'>>
BY DEF Ownership!vars, Desired, Leaving

LEMMA DesiredStays ==
  ASSUME UNCHANGED scenario, \A id \in Ids : rows'[id].desired = rows[id].desired
  PROVE  Desired' = Desired
BY DEF Desired, Ids

LEMMA DesiredExcept ==
  ASSUME UNCHANGED scenario, NEW id \in Ids, NEW state, rows'[id].desired = state,
         \A i \in Ids \ {id} : rows'[i].desired = rows[i].desired
  PROVE  Desired' = [Desired EXCEPT ![id] = state]
BY DEF Desired, Ids

LEMMA LeavingStays ==
  ASSUME CInv, NEW r \in Slots, NEW q, Goes(r, q), requests[r].pc # "cleanup"
  PROVE  Leaving' = Leaving
<1>1. requests'[r] = q /\ \A x \in Slots \ {r} : requests'[x] = requests[x]
  BY DEF Goes, Continue, CInv, SoundRequests
<1>2. \A x \in Slots : requests'[x].pc = "cleanup" <=> requests[x].pc = "cleanup"
  BY <1>1 DEF Goes
<1>3. \A x \in Slots : requests[x].pc = "cleanup" => requests'[x].id = requests[x].id
  BY <1>1
<1> QED
  BY <1>2, <1>3 DEF Leaving

LEMMA LeavingShrinks ==
  ASSUME CInv, NEW r \in Slots, NEW q, Goes(r, q), requests[r].pc = "cleanup"
  PROVE  requests[r].id \in Leaving /\ Leaving' \in {Leaving, Leaving \ {requests[r].id}}
<1>1. requests'[r] = q /\ \A x \in Slots \ {r} : requests'[x] = requests[x]
  BY DEF Goes, Continue, CInv, SoundRequests
<1>2. q.pc # "cleanup"
  BY DEF Goes
<1>3. Leaving' \subseteq Leaving
  BY <1>1, <1>2 DEF Leaving
<1>4. \A id \in Leaving \ {requests[r].id} : id \in Leaving'
  BY <1>1 DEF Leaving
<1>5. requests[r].id \in Leaving
  BY DEF Leaving
<1> QED
  BY <1>3, <1>4, <1>5

LEMMA LeavingGrows ==
  ASSUME CInv, NEW r \in Slots, NEW q, Continue(r, q), q.pc = "cleanup",
         requests[r].pc # "cleanup"
  PROVE  Leaving' = Leaving \cup {q.id}
<1>1. requests'[r] = q /\ \A x \in Slots \ {r} : requests'[x] = requests[x]
  BY DEF Continue, CInv, SoundRequests
<1> QED
  BY <1>1 DEF Leaving

-----------------------------------------------------------------------------
(* Every step of a request is one of the ownership or a stutter. *)

LEMMA SyncRefines ==
  ASSUME CInv, KInv, NEW r \in Slots, syncFrontDoorDNS(r)
  PROVE  Ownership!Next \/ UNCHANGED <<scenario, Desired, Leaving, dns>>
<1> DEFINE q == requests[r]
           t == NextItem(q)
           name == Name(t.id, t.want)
<1>1. q.todo \in SUBSET Todo /\ q.todo # {} /\ q.pc = "sync" /\ Known(q)
  BY DEF CInv, KInv, SoundRequests, SoundRequest, Request, syncFrontDoorDNS
<1>2. t \in q.todo
  BY <1>1, NextItemIsToDo DEF CInv
<1>3. t.id \in Ids /\ t.want \in {"verification", "cname"} /\ rows[t.id].desired # "absent"
  BY <1>1, <1>2 DEF Todo, Known
<1>4. UNCHANGED <<scenario, rows>> /\ (NextTodo(r, Rest(q, t)) \/ NextTodo(r, {}))
  BY DEF syncFrontDoorDNS
<1>5. \E x : Goes(r, x)
  BY <1>4, NextTodoGoes DEF Rest
<1>6. UNCHANGED <<scenario, Desired, Leaving>>
  BY <1>1, <1>4, <1>5, LeavingStays, DesiredStays
<1>7. \/ dns' = dns
      \/ CanHave(t.id, name) /\ dns' = Synced(t)
      \/ CanHave(t.id, name) /\ dns' = EnsureRecord(dns, t.id, name)
  BY Zenon DEF syncFrontDoorDNS
<1> HIDE DEF t, q
<1>8. CASE CanHave(t.id, name) /\ dns' \in {Synced(t), EnsureRecord(dns, t.id, name)}
  <2>1. Ownership!NameFor(t.id, t.want) = name
    BY DEF Ownership!NameFor, Name, Plane, Host
  <2>2. Desired[t.id] # "absent" /\ dns[name] \in {NoOwner, t.id}
    BY <1>3, <1>8 DEF Desired, CanHave
  <2>3. DeleteServiceRecords(EnsureRecord(dns, t.id, name), t.id, {"verification"})
          = Ownership!Without([dns EXCEPT ![name] = t.id], t.id, {"verification"})
    BY DEF Ownership!Without, Ownership!Names, Names, EnsureRecord, DeleteServiceRecords
  <2>4. \/ dns' = [dns EXCEPT ![name] = t.id]
        \/ /\ t.want = "cname"
           /\ dns' = Ownership!Without([dns EXCEPT ![name] = t.id], t.id, {"verification"})
    BY <1>8, <2>3 DEF Synced, EnsureRecord
  <2>5. Ownership!Claim(t.id, t.want)
    BY <1>6, <2>1, <2>2, <2>4 DEF Ownership!Claim, Desired, Leaving
  <2> QED
    BY <1>3, <2>5 DEF Ownership!Next, Ownership!Purposes, Ids
<1> QED
  BY <1>6, <1>7, <1>8

\* A cleanup, whatever it gets done.
LEMMA Releases ==
  ASSUME NEW svc \in Ids, UNCHANGED scenario, Desired' = Desired,
         svc \in Leaving, Leaving' \in {Leaving, Leaving \ {svc}},
         NEW purposes \in SUBSET {"verification", "cname"},
         dns' = DeleteServiceRecords(dns, svc, purposes)
  PROVE  Ownership!Release(svc)
<1>1. purposes \in SUBSET Ownership!Purposes
  BY DEF Ownership!Purposes
<1>2. dns' = Ownership!Without(dns, svc, purposes)
  BY DEF Ownership!Without, Ownership!Names, Ownership!Purposes, Names, DeleteServiceRecords
<1>3. \E p \in SUBSET Ownership!Purposes : dns' = Ownership!Without(dns, svc, p)
  BY <1>1, <1>2
<1> QED
  BY <1>3, Zenon DEF Ownership!Release, Desired, Leaving

LEMMA CleanupRefines ==
  ASSUME CInv, KInv, NEW r \in Slots, cleanupServiceDNS(r)
  PROVE  Ownership!Next
<1>1. /\ UNCHANGED <<scenario, rows>> /\ Refresh(r) /\ requests[r].pc = "cleanup"
      /\ \E purposes \in SUBSET {"verification", "cname"} :
           dns' = DeleteServiceRecords(dns, requests[r].id, purposes)
  BY DEF cleanupServiceDNS
<1>2. PICK svc \in Ids : svc = requests[r].id
  BY <1>1 DEF CInv, SoundRequests, SoundRequest
<1>3. Desired' = Desired
  BY <1>1, DesiredStays
<1>4. svc \in Leaving /\ Leaving' \in {Leaving, Leaving \ {svc}}
  BY <1>1, <1>2, RefreshGoes, LeavingShrinks
<1>5. Ownership!Release(svc)
  BY <1>1, <1>2, <1>3, <1>4, Releases
<1> QED
  BY <1>2, <1>5 DEF Ownership!Next, Ids

LEMMA StopRefines ==
  ASSUME CInv, NEW r \in Slots, InstanceStops(r)
  PROVE  Ownership!Next \/ UNCHANGED <<scenario, Desired, Leaving, dns>>
<1>1. UNCHANGED <<scenario, rows, dns>> /\ \E q : Goes(r, q)
  BY EndGoes DEF InstanceStops
<1>2. Desired' = Desired
  BY <1>1, DesiredStays
<1>3. CASE requests[r].pc # "cleanup"
  BY <1>1, <1>2, <1>3, LeavingStays
<1>4. CASE requests[r].pc = "cleanup"
  <2>1. PICK svc \in Ids : svc = requests[r].id
    BY <1>4 DEF CInv, SoundRequests, SoundRequest
  <2>2. svc \in Leaving /\ Leaving' \in {Leaving, Leaving \ {svc}}
    BY <1>1, <1>4, <2>1, LeavingShrinks
  <2>3. dns' = DeleteServiceRecords(dns, svc, {})
    BY <1>1 DEF CInv, SoundZone, DeleteServiceRecords
  <2>4. Ownership!Release(svc)
    BY <1>1, <1>2, <2>1, <2>2, <2>3, Releases
  <2> QED
    BY <2>1, <2>4 DEF Ownership!Next, Ids
<1> QED
  BY <1>3, <1>4

\* What a change does to the table of its plane.
LEMMA ApplyRefines ==
  ASSUME CInv, KInv, NEW r \in Slots, requests[r].pc = "send", Apply(requests[r]),
         UNCHANGED <<scenario, dns>>,
         Leaving' = Leaving \/ (requests[r].op = "delete" /\ Leaving' = Leaving \cup {requests[r].id})
  PROVE  /\ Ownership!Next \/ UNCHANGED <<scenario, Desired, Leaving, dns>>
         /\ \A i \in Ids : rows[i].desired # "absent" => rows'[i].desired # "absent"
<1> DEFINE q == requests[r]
<1>0. PICK svc \in Ids : svc = q.id
  BY DEF CInv, SoundRequests, SoundRequest
<1>1. /\ svc = q.id /\ svc \in Ids /\ q.op \in {"create", "update", "delete"} /\ Known(q)
      /\ rows[svc] \in Row /\ rows \in [Ids -> Row]
  BY <1>0 DEF CInv, KInv, SoundRequests, SoundRequest, SoundRows
<1> HIDE DEF q
<1>2. CASE q.op = "create"
  <2>1. ~HostTaken(svc) /\ rows' = [rows EXCEPT ![svc] =
                              [desired |-> "active", generation |-> 1, frontDoor |-> "none"]]
    BY <1>1, <1>2 DEF Apply, InsertService, q
  <2>2. rows'[svc].desired = "active" /\ \A i \in Ids \ {svc} : rows'[i] = rows[i]
    BY <1>1, <2>1
  <2>3. Desired' = [Desired EXCEPT ![svc] = "active"]
    BY <1>1, <2>2, DesiredExcept
  <2>4. \A i \in Ids : scenario.place[i] = scenario.place[svc] => rows[i].desired = "absent"
    BY <2>1 DEF HostTaken
  <2>5. Leaving' = Leaving
    BY <1>2 DEF q
  <2>6. Ownership!Register(svc)
    BY <2>3, <2>4, <2>5 DEF Ownership!Register, Ownership!RowsOnly, Desired, Leaving, Ids
  <2> QED
    BY <1>1, <2>2, <2>6 DEF Ownership!Next, Ids
<1>3. CASE q.op = "update"
  <2>1. \/ rows' = rows
        \/ rows' = [rows EXCEPT ![svc] = [@ EXCEPT !.generation = q.generation, !.desired = "active"]]
    BY <1>1, <1>3 DEF Apply, UpsertService, q
  <2>2. \A i \in Ids \ {svc} : rows'[i] = rows[i]
    BY <1>1, <2>1
  <2>3. rows'[svc].desired \in {rows[svc].desired, "active"}
    BY <1>1, <2>1 DEF Row
  <2>4. rows[svc].desired \in {"active", "deleted"}
    BY <1>1, <1>3 DEF Known, Row
  <2>5. Leaving' = Leaving
    BY <1>3 DEF q
  <2>6. CASE rows'[svc].desired = rows[svc].desired
    BY <2>2, <2>4, <2>5, <2>6, DesiredStays
  <2>7. CASE rows[svc].desired = "deleted" /\ rows'[svc].desired = "active"
    <3>1. Desired' = [Desired EXCEPT ![svc] = "active"]
      BY <1>1, <2>2, <2>7, DesiredExcept
    <3>2. Ownership!Reactivate(svc)
      BY <1>1, <2>5, <2>7, <3>1 DEF Ownership!Reactivate, Ownership!RowsOnly, Desired, Leaving
    <3> QED
      BY <1>1, <2>2, <2>7, <3>2 DEF Ownership!Next, Ids
  <2> QED
    BY <2>3, <2>4, <2>6, <2>7
<1>4. CASE q.op = "delete"
  <2>1. \E g : rows' = [rows EXCEPT ![svc] = [@ EXCEPT !.desired = "deleted", !.generation = g]]
    BY <1>1, <1>4 DEF Apply, DeleteService, Row, q
  <2>2. rows'[svc].desired = "deleted" /\ \A i \in Ids \ {svc} : rows'[i] = rows[i]
    BY <1>1, <2>1 DEF Row
  <2>3. Desired' = [Desired EXCEPT ![svc] = "deleted"]
    BY <1>1, <2>2, DesiredExcept
  <2>4. Leaving' \in {Leaving, Leaving \cup {svc}}
    BY <1>1 DEF q
  <2>5. rows[svc].desired # "absent"
    BY <1>1, <1>4 DEF Known
  <2>6. Ownership!Retire(svc)
    BY <1>1, <2>3, <2>4, <2>5 DEF Ownership!Retire, Desired, Leaving
  <2> QED
    BY <1>1, <2>2, <2>6 DEF Ownership!Next, Ids
<1> QED
  BY <1>1, <1>2, <1>3, <1>4

LEMMA SendRefines ==
  ASSUME CInv, KInv, NEW r \in Slots, send(r)
  PROVE  /\ Ownership!Next \/ UNCHANGED <<scenario, Desired, Leaving, dns>>
         /\ \A i \in Ids : rows[i].desired # "absent" => rows'[i].desired # "absent"
         /\ \E q : Continue(r, q) /\ Known(q)
<1> DEFINE q == requests[r]
           c == [q EXCEPT !.pc = "cleanup"]
<1>1. q.pc = "send" /\ q \in Request /\ Known(q) /\ UNCHANGED <<scenario, dns>>
  BY DEF CInv, KInv, SoundRequests, send
<1>2. \/ Apply(q) /\ (Refresh(r) \/ End(r) \/ (q.op = "delete" /\ Continue(r, c)))
      \/ UNCHANGED rows /\ End(r)
  BY DEF send
<1>3. c.pc = "cleanup" /\ c.op = q.op /\ c.id = q.id /\ c.todo = q.todo
  BY <1>1 DEF Request
<1> HIDE DEF c
<1>4. Known(c)
  BY <1>1, <1>3 DEF Known
<1>5. CASE Refresh(r) \/ End(r)
  <2>1. \E x : Goes(r, x)
    BY <1>5, EndGoes, RefreshGoes
  <2>2. Leaving' = Leaving /\ \E x : Continue(r, x) /\ Known(x)
    BY <1>1, <2>1, LeavingStays DEF Goes
  <2>3. CASE UNCHANGED rows
    BY <1>1, <2>2, <2>3, DesiredStays
  <2>4. CASE Apply(q)
    BY <1>1, <2>2, <2>4, ApplyRefines
  <2> QED
    BY <1>2, <2>3, <2>4
<1>6. CASE Apply(q) /\ q.op = "delete" /\ Continue(r, c)
  <2>1. Leaving' = Leaving \cup {q.id}
    BY <1>1, <1>3, <1>6, LeavingGrows
  <2> QED
    BY <1>1, <1>4, <1>6, <2>1, ApplyRefines
<1> QED
  BY <1>2, <1>5, <1>6

LEMMA KnownStays ==
  ASSUME CInv, KInv, CInv', UNCHANGED scenario,
         \A i \in Ids : rows[i].desired # "absent" => rows'[i].desired # "absent",
         \/ UNCHANGED requests
         \/ \E r \in Slots : \E q : Continue(r, q) /\ Known(q)
  PROVE  KInv'
<1>1. \A r \in Slots : Known(requests'[r])
  BY DEF Continue, CInv, KInv, SoundRequests
<1>2. Ids' = Ids /\ Todo' = Todo
  BY DEF Ids, Todo
<1>3. \A r \in Slots : /\ requests'[r].op \in {"update", "delete"} => requests'[r].id \in Ids
                       /\ \A t \in requests'[r].todo : t.id \in Ids
  BY <1>2 DEF CInv, SoundRequests, SoundRequest, Request, Todo
<1> QED
  BY <1>1, <1>3 DEF KInv, Known

LEMMA OwnershipStep ==
  ASSUME CInv, KInv, [CoordNext]_coordVars
  PROVE  KInv' /\ [Ownership!Next]_Ownership!vars
<1> DEFINE stutter == UNCHANGED <<scenario, Desired, Leaving, dns>>
           grows == \A i \in Ids : rows[i].desired # "absent" => rows'[i].desired # "absent"
           known == UNCHANGED requests \/ \E r \in Slots : \E q : Continue(r, q) /\ Known(q)
<1>1. stutter => UNCHANGED Ownership!vars
  BY Mapped
<1>2. CInv' /\ UNCHANGED scenario
  BY CInvStep DEF CoordNext, RequestStep, coordVars, collectSnapshot, send, Create, Change,
     View, Begin, FrontDoorLoop, InstanceStops, syncFrontDoorDNS, cleanupServiceDNS
<1>3. SUFFICES grows /\ known /\ (Ownership!Next \/ stutter)
  BY <1>1, <1>2, KnownStays
<1>4. ASSUME UNCHANGED <<scenario, rows, dns>>, NEW r \in Slots, requests[r].pc # "cleanup",
             \E q : Goes(r, q)
      PROVE  grows /\ known /\ stutter
  BY <1>4, LeavingStays, DesiredStays DEF Goes
<1>5. ASSUME NEW r \in Slots, collectSnapshot(r) PROVE grows /\ known /\ stutter
  <2>1. UNCHANGED <<scenario, rows, dns>> /\ requests[r].pc # "cleanup"
    BY <1>5 DEF collectSnapshot
  <2>2. \E q : Goes(r, q)
    BY <1>5, CollectGoes
  <2> QED
    BY <1>4, <2>1, <2>2
<1>6. ASSUME NEW r \in Slots, syncFrontDoorDNS(r)
      PROVE  grows /\ known /\ (Ownership!Next \/ stutter)
  <2>1. UNCHANGED rows /\ (NextTodo(r, Rest(requests[r], NextItem(requests[r]))) \/ NextTodo(r, {}))
    BY <1>6 DEF syncFrontDoorDNS
  <2>2. \E q : Goes(r, q)
    BY <2>1, NextTodoGoes DEF Rest
  <2>3. Ownership!Next \/ stutter
    BY <1>6, SyncRefines
  <2> QED
    BY <2>1, <2>2, <2>3 DEF Goes
<1>7. ASSUME NEW r \in Slots, send(r) PROVE grows /\ known /\ (Ownership!Next \/ stutter)
  BY <1>7, SendRefines
<1>8. ASSUME NEW r \in Slots, cleanupServiceDNS(r) PROVE grows /\ known /\ Ownership!Next
  <2>1. UNCHANGED rows /\ Refresh(r)
    BY <1>8 DEF cleanupServiceDNS
  <2>2. \E q : Goes(r, q)
    BY <2>1, RefreshGoes
  <2> QED
    BY <1>8, <2>1, <2>2, CleanupRefines DEF Goes
<1>9. ASSUME NEW r \in Slots, NEW id \in Ids, NEW p \in Planes,
             Create(r, id) \/ Change(r, "update", id) \/ Change(r, "delete", id) \/ View(r, p)
      PROVE  grows /\ known /\ stutter
  BY <1>4, <1>9, ArrivalsGo
<1>10. ASSUME NEW id \in Ids, FrontDoorLoop(id) PROVE grows /\ known /\ stutter
  <2>1. UNCHANGED <<scenario, dns, requests>> /\ \A i \in Ids : rows'[i].desired = rows[i].desired
    BY <1>10 DEF FrontDoorLoop, CInv, SoundRows, Row
  <2> QED
    BY <2>1, DesiredStays DEF Leaving
<1>11. ASSUME NEW r \in Slots, InstanceStops(r)
       PROVE  grows /\ known /\ (Ownership!Next \/ stutter)
  <2>1. UNCHANGED rows /\ \E q : Goes(r, q)
    BY <1>11, EndGoes DEF InstanceStops
  <2>2. Ownership!Next \/ stutter
    BY <1>11, StopRefines
  <2> QED
    BY <2>1, <2>2 DEF Goes
<1>12. CASE UNCHANGED coordVars
  BY <1>12, DesiredStays DEF coordVars, Leaving
<1>13. Planes # {} /\ Ids # {}
  <2>1. scenario.place \in Seq(Planes \X Hosts) /\ Len(scenario.place) \in Nat \ {0}
    BY DEF CInv, IsScenario
  <2>2. 1 \in Ids
    BY <2>1 DEF Ids
  <2> QED
    BY <2>2, ScenarioType DEF CInv
<1> QED
  BY <1>5, <1>6, <1>7, <1>8, <1>9, <1>10, <1>11, <1>12, <1>13 DEF CoordNext, RequestStep

\* The zone is shared by every request of every function instance, each with its own
\* snapshot, and the verification record by the services of a provider; still a record
\* only changes hands when its owner gives it back: the verification once it has a CNAME,
\* the rest through the cleanup of its deletion.
THEOREM RecordsStayOwned == CoordSpec => RecordsAreOwned
<1>1. CoordInit => Ownership!Init
  BY DEF CoordInit, Ownership!Init, Ownership!Names, Ownership!Purposes, NoRow, Idle, Names, Ids
<1>2. CoordInit => KInv
  <2> SUFFICES ASSUME CoordInit PROVE KInv
    OBVIOUS
  <2>1. \A r \in Slots : requests[r] = Idle
    BY DEF CoordInit
  <2> QED
    BY <2>1 DEF KInv, Known, Idle
<1>3. CInv /\ KInv /\ [CoordNext]_coordVars => KInv' /\ [Ownership!Next]_Ownership!vars
  BY OwnershipStep
<1> QED
  BY <1>1, <1>2, <1>3, CoordinationInvariance, PTL
     DEF CoordSpec, RecordsAreOwned, Ownership!Spec
===============================================================================
