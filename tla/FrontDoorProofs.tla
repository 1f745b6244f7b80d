---------------------------- MODULE FrontDoorProofs ----------------------------
(* Theorems about the ingress loop, for every number of hosts and nodes. *)
EXTENDS FrontDoor, WellFoundedInduction, TLAPS

\* sortedHosts always has a first host.
LEMMA FirstHost ==
  ASSUME NEW S \in SUBSET Hosts, S # {}
  PROVE  Min(S) \in S
<1> DEFINE R == OpToRel(<, Nat)
<1>1. S \subseteq Nat
  BY FrontDoorAssumption
<1>2. PICK x \in S : \A y \in S : ~ (<<y, x>> \in R)
  <2>1. IsWellFoundedOn(R, Nat)
    BY NatLessThanWellFounded, Zenon
  <2> HIDE DEF R
  <2> QED
    BY <1>1, <2>1, WFMin, Zenon
<1>3. ASSUME NEW y \in S PROVE x <= y
  <2>1. <<y, x>> \in Nat \X Nat /\ <<y, x>>[1] = y /\ <<y, x>>[2] = x
    BY <1>1
  <2>2. y < x => <<y, x>> \in R
    BY <2>1, Zenon DEF OpToRel
  <2>3. ~ (y < x)
    BY <1>2, <2>2, Zenon
  <2> QED
    BY <1>1, <2>3
<1> QED
  BY <1>3 DEF Min

\* The hosts a pass has still to do are those of its kind of work.
TodoOfRoutes ==
  /\ pass.pc \in {"nodes", "prepare", "ensure", "save", "delete", "clear"} => pass.todo # {}
  /\ pass.pc \in {"prepare", "ensure", "save"} => pass.todo \subseteq Desired
  /\ pass.pc \in {"delete", "clear"} => pass.todo \cap Desired = {}
  /\ pass.pc \in {"prepare", "ensure", "save", "delete", "clear"} => Desired \cap trouble.outside = {}

\* What the pass has found out or done about its host still holds: the domain is asked
\* for when its verification is saved, its CNAME is saved when there is one, and it is
\* forgotten when it is gone.
HostInHand ==
  /\ pass.pc = "ensure" =>
       rows[Host] # "none" /\ (cdn[Host] = "absent" => rows[Host] = "verification")
  /\ pass.pc = "save" => cdn[Host] \in {"online", "stopped"}
  /\ pass.pc = "delete" => Host \notin trouble.outside
  /\ pass.pc = "clear" => cdn[Host] = "absent" \/ Host \in trouble.outside

\* The types alone.
Types ==
  /\ trouble \in Troubles /\ sources \in Config /\ ready \subseteq Nodes
  /\ rows \in [Hosts -> FrontDoors] /\ cdn \in [Hosts -> Domains]
  /\ caddy \in Config /\ fingerprint \in Config \cup {NoConfig} /\ drifted \in BOOLEAN
  /\ pass \in Pass /\ changes \in 0..MaxChanges /\ faults \in 0..MaxFaults

\* The inductive invariant.
FInv == Types /\ TodoOfRoutes /\ HostInHand /\ DomainsAreRemembered

-----------------------------------------------------------------------------
USE FrontDoorAssumption
USE DEF IsTrouble, Config, Source, NoRoutes, FrontDoors, Domains, Pass, Idle, Desired, Fault,
        NoFault, Goto, End, NodesOnly, CaddyOnly, StoreOnly

\* The host a pass is at is one it has to do.
LEMMA HostIsToDo ==
  ASSUME Types, pass.todo # {}
  PROVE  Host \in pass.todo /\ Host \in Hosts
BY FirstHost DEF Host, Types


\* Going on to the stale hosts: delete or, outside the base domain, only forget.
LEMMA StaleKeeps ==
  ASSUME pass \in Pass, NEW todo \in SUBSET Hosts, Stale(todo), UNCHANGED trouble,
         todo \cap Desired = {}, Desired \cap trouble.outside = {}
  PROVE  pass' \in Pass /\ TodoOfRoutes' /\ HostInHand'
<1>1. CASE todo = {}
  BY <1>1 DEF Stale, TodoOfRoutes, HostInHand
<1>2. CASE todo # {}
  <2>1. pass' = [pass EXCEPT !.pc = FirstCall(Min(todo)), !.todo = todo]
    BY <1>2 DEF Stale
  <2>2. /\ FirstCall(Min(todo)) \in {"clear", "delete"}
        /\ FirstCall(Min(todo)) = "clear" <=> Min(todo) \in trouble.outside
    BY DEF FirstCall
  <2>3. /\ pass' \in Pass /\ pass'.todo = todo /\ pass'.routes = pass.routes
        /\ pass'.pc = FirstCall(Min(todo))
    BY <2>1, <2>2
  <2>4. TodoOfRoutes'
    BY <1>2, <2>2, <2>3 DEF TodoOfRoutes
  <2>5. HostInHand'
    BY <2>2, <2>3 DEF HostInHand, Host
  <2> QED
    BY <2>3, <2>4, <2>5
<1> QED
  BY <1>1, <1>2

\* Going on to the next route, or to the stale hosts after the last one.
LEMMA NextHostKeeps ==
  ASSUME pass \in Pass, TodoOfRoutes, pass.pc \in {"prepare", "ensure", "save"},
         NextHost, UNCHANGED trouble
  PROVE  pass' \in Pass /\ TodoOfRoutes' /\ HostInHand'
<1>1. CASE pass.todo \ {Host} = {}
  <2>1. Stale(StaleHosts) /\ Desired \cap trouble.outside = {}
    BY <1>1 DEF NextHost, TodoOfRoutes
  <2>2. StaleHosts \in SUBSET Hosts /\ StaleHosts \cap Desired = {}
    BY <2>1 DEF StaleHosts
  <2> QED
    BY <2>1, <2>2, StaleKeeps
<1>2. CASE pass.todo \ {Host} # {}
  <2>1. pass' = [pass EXCEPT !.pc = "prepare", !.todo = @ \ {Host}]
    BY <1>2 DEF NextHost
  <2>2. /\ pass' \in Pass /\ pass'.todo = pass.todo \ {Host} /\ pass'.routes = pass.routes
        /\ pass'.pc = "prepare"
    BY <2>1
  <2> QED
    BY <1>2, <2>2 DEF TodoOfRoutes, HostInHand
<1> QED
  BY <1>1, <1>2

\* A pass that ends holds nothing.
LEMMA EndKeeps ==
  ASSUME End
  PROVE  pass' \in Pass /\ TodoOfRoutes' /\ HostInHand'
BY DEF TodoOfRoutes, HostInHand

-----------------------------------------------------------------------------
(* One lemma per step of a pass. *)

LEMMA ListIngressRouteSourcesInv ==
  ASSUME FInv, ListIngressRouteSources
  PROVE  FInv'
<1>1. Types'
  <2>1. Idle \in Pass /\ sources \in Config /\ WithBackend(sources) \in SUBSET Hosts
    BY DEF FInv, Types, WithBackend
  <2>2. pass' \in Pass
    BY <2>1 DEF FInv, Types, ListIngressRouteSources
  <2>3. faults' \in 0..MaxFaults
    BY DEF FInv, Types, ListIngressRouteSources
  <2> HIDE DEF Config, Pass, Idle, Domains, FrontDoors, End
  <2> QED
    BY <2>2, <2>3 DEF FInv, Types, ListIngressRouteSources
<1>2. TodoOfRoutes' /\ HostInHand'
  <2>1. CASE pass' = [pass EXCEPT !.pc = IF WithBackend(sources) = {} THEN "caddy" ELSE "nodes",
                        !.routes = sources, !.todo = WithBackend(sources)]
    <3>1. pass'.pc \in {"caddy", "nodes"} /\ (pass'.pc = "nodes" => pass'.todo # {})
      BY <2>1 DEF FInv, Types
    <3> QED
      BY <3>1 DEF TodoOfRoutes, HostInHand
  <2> QED
    BY <2>1, EndKeeps DEF ListIngressRouteSources
<1>3. DomainsAreRemembered'
  BY DEF FInv, ListIngressRouteSources, DomainsAreRemembered
<1> QED
  BY <1>1, <1>2, <1>3 DEF FInv

LEMMA GetNodeInv ==
  ASSUME FInv, GetNode
  PROVE  FInv'
<1>1. Host \in pass.todo /\ Host \in Hosts
  BY HostIsToDo DEF FInv, GetNode, TodoOfRoutes
<1>2. pass' \in Pass /\ TodoOfRoutes' /\ HostInHand'
  <2>1. CASE pass' = [pass EXCEPT !.todo = @ \ {Host},
                        !.pc = IF pass.todo = {Host} THEN "caddy" ELSE @,
                        !.routes[Host] = IF @ \in ready THEN @ ELSE NoNode]
    <3>1. pass.routes \in Config /\ [pass.routes EXCEPT ![Host] = IF @ \in ready THEN @ ELSE NoNode] \in Config
      BY DEF FInv, Types
    <3>2. /\ pass' \in Pass /\ pass'.todo = pass.todo \ {Host}
          /\ pass'.pc = IF pass.todo = {Host} THEN "caddy" ELSE "nodes"
      BY <2>1, <3>1 DEF FInv, Types, GetNode
    <3>3. pass'.pc = "nodes" => pass'.todo # {}
      BY <1>1, <3>2
    <3> QED
      BY <3>2, <3>3 DEF TodoOfRoutes, HostInHand
  <2> QED
    BY <2>1, EndKeeps DEF GetNode
<1>3. DomainsAreRemembered'
  BY DEF FInv, GetNode, DomainsAreRemembered
<1>4. Types'
  BY <1>2 DEF FInv, Types, GetNode
<1> QED
  BY <1>2, <1>3, <1>4 DEF FInv

LEMMA SyncCaddyInv ==
  ASSUME FInv, SyncCaddy
  PROVE  FInv'
<1>1. pass' \in Pass /\ TodoOfRoutes' /\ HostInHand'
  <2>1. CASE Goto("managed")
    <3>1. pass' \in Pass /\ pass'.pc = "managed"
      BY <2>1 DEF FInv, Types
    <3> QED
      BY <3>1 DEF TodoOfRoutes, HostInHand
  <2> QED
    BY <2>1, EndKeeps DEF SyncCaddy
<1>3. pass.routes \in Config /\ caddy' \in Config /\ fingerprint' \in Config \cup {NoConfig}
  <2>1. pass.routes \in Config
    BY DEF FInv, Types
  <2> QED
    BY <2>1 DEF FInv, Types, SyncCaddy, AfterFailedLoad
<1>4. Types'
  <2>1. drifted' \in BOOLEAN
    BY DEF FInv, Types, SyncCaddy
  <2>2. faults' \in 0..MaxFaults
    BY DEF FInv, Types, SyncCaddy
  <2> HIDE DEF Config, Pass, Idle, Domains, FrontDoors, Goto, End
  <2> QED
    BY <1>1, <1>3, <2>1, <2>2 DEF FInv, Types, SyncCaddy
<1>2. DomainsAreRemembered'
  BY DEF FInv, SyncCaddy, DomainsAreRemembered
<1> QED
  BY <1>1, <1>2, <1>4 DEF FInv

LEMMA ListManagedInv ==
  ASSUME FInv, ListManaged
  PROVE  FInv'
<1> DEFINE managed == ListServiceFrontDoors
<1>1. pass \in Pass /\ managed \in SUBSET Hosts /\ UNCHANGED trouble
  BY DEF FInv, Types, ListManaged, ListServiceFrontDoors
<1>2. pass' \in Pass /\ TodoOfRoutes' /\ HostInHand'
  <2>1. CASE End
    BY <2>1, EndKeeps
  <2>2. CASE /\ Desired = {} /\ managed # {}
             /\ pass' = [pass EXCEPT !.managed = managed, !.todo = managed,
                                  !.pc = FirstCall(Min(managed))]
    <3>1. /\ FirstCall(Min(managed)) \in {"clear", "delete"}
          /\ FirstCall(Min(managed)) = "clear" <=> Min(managed) \in trouble.outside
      BY DEF FirstCall
    <3> HIDE DEF managed
    <3>2. /\ pass' \in Pass /\ pass'.todo = managed /\ pass'.routes = pass.routes
          /\ pass'.pc = FirstCall(Min(managed))
      BY <1>1, <2>2, <3>1
    <3>3. Desired' = {}
      BY <2>2, <3>2
    <3> QED
      BY <1>1, <2>2, <3>1, <3>2, <3>3 DEF TodoOfRoutes, HostInHand, Host
  <2>3. CASE /\ Desired # {} /\ Desired \cap trouble.outside = {}
             /\ pass' = [pass EXCEPT !.managed = managed, !.todo = Desired, !.pc = "prepare"]
    <3> HIDE DEF managed
    <3>1. /\ pass' \in Pass /\ pass'.todo = Desired /\ pass'.routes = pass.routes
          /\ pass'.pc = "prepare"
      BY <1>1, <2>3
    <3> QED
      BY <1>1, <2>3, <3>1 DEF TodoOfRoutes, HostInHand
  <2> QED
    BY <2>1, <2>2, <2>3 DEF ListManaged
<1>3. DomainsAreRemembered'
  BY DEF FInv, ListManaged, DomainsAreRemembered
<1>4. Types'
  BY <1>2 DEF FInv, Types, ListManaged
<1> QED
  BY <1>2, <1>3, <1>4 DEF FInv

LEMMA PrepareExistingInv ==
  ASSUME FInv, PrepareExisting
  PROVE  FInv'
<1>1. Host \in pass.todo /\ Host \in Hosts \ trouble.outside /\ rows[Host] # "none"
  <2>1. Host \in pass.todo /\ Host \in Hosts
    BY HostIsToDo DEF FInv, PrepareExisting, TodoOfRoutes
  <2> QED
    BY <2>1 DEF FInv, PrepareExisting, TodoOfRoutes, DomainsAreRemembered
<1>2. pass' \in Pass /\ TodoOfRoutes' /\ HostInHand'
  <2>1. CASE Goto("ensure")
    <3>1. pass' \in Pass /\ pass'.todo = pass.todo /\ pass'.routes = pass.routes /\ pass'.pc = "ensure"
      BY <2>1 DEF FInv, Types
    <3> QED
      BY <1>1, <3>1 DEF FInv, PrepareExisting, TodoOfRoutes, HostInHand, Host
  <2> QED
    BY <2>1, EndKeeps DEF PrepareExisting
<1>3. DomainsAreRemembered'
  BY DEF FInv, PrepareExisting, DomainsAreRemembered
<1>4. Types'
  BY <1>2 DEF FInv, Types, PrepareExisting
<1> QED
  BY <1>2, <1>3, <1>4 DEF FInv

LEMMA PreparePendingInv ==
  ASSUME FInv, PreparePending
  PROVE  FInv'
<1>1. pass' \in Pass /\ TodoOfRoutes' /\ HostInHand'
  BY NextHostKeeps, EndKeeps DEF FInv, Types, PreparePending, AfterPending
<1>2. rows' \in [Hosts -> FrontDoors] /\ (\A h \in Hosts : rows[h] # "none" => rows'[h] # "none")
  BY DEF FInv, Types, PreparePending, SavedVerification
<1>3. DomainsAreRemembered'
  BY <1>2 DEF FInv, PreparePending, DomainsAreRemembered
<1>4. Types'
  BY <1>1, <1>2 DEF FInv, Types, PreparePending
<1> QED
  BY <1>1, <1>3, <1>4 DEF FInv

LEMMA PrepareVerifiedInv ==
  ASSUME FInv, NEW h \in Hosts, PrepareVerified(h)
  PROVE  FInv'
<1>1. pass' \in Pass /\ pass'.todo = pass.todo /\ pass'.routes = pass.routes /\ pass'.pc = "ensure"
  BY DEF FInv, Types, PrepareVerified
<1>2. rows' = [rows EXCEPT ![h] = "verification"] /\ Host = h
  BY DEF PrepareVerified, SavedVerification
<1>3. rows' \in [Hosts -> FrontDoors] /\ rows'[h] = "verification"
  BY <1>2 DEF FInv, Types, FrontDoors
<1>4. TodoOfRoutes' /\ HostInHand'
  BY <1>1, <1>2, <1>3 DEF FInv, PrepareVerified, StoreOnly, NodesOnly, TodoOfRoutes, HostInHand, Host
<1>5. Types' /\ DomainsAreRemembered'
  BY <1>1, <1>2, <1>3 DEF FInv, Types, PrepareVerified, StoreOnly, NodesOnly, DomainsAreRemembered
<1> QED
  BY <1>4, <1>5 DEF FInv

LEMMA EnsureDomainInv ==
  ASSUME FInv, EnsureDomain
  PROVE  FInv'
<1>1. Host \in Hosts /\ rows[Host] # "none"
  BY HostIsToDo DEF FInv, EnsureDomain, TodoOfRoutes, HostInHand
<1>2. pass' \in Pass /\ TodoOfRoutes' /\ HostInHand'
  <2>1. CASE Goto("save") /\ cdn[Host] \in {"online", "stopped"} /\ UNCHANGED cdn
    <3>1. pass' \in Pass /\ pass'.todo = pass.todo /\ pass'.routes = pass.routes /\ pass'.pc = "save"
      BY <2>1 DEF FInv, Types
    <3> QED
      BY <2>1, <3>1 DEF FInv, EnsureDomain, TodoOfRoutes, HostInHand, Host
  <2>2. CASE NextHost
    BY <2>2, NextHostKeeps DEF FInv, Types, EnsureDomain
  <2> QED
    BY <2>1, <2>2, EndKeeps DEF EnsureDomain
<1>3. cdn' \in [Hosts -> Domains] /\ (\A h \in Hosts \ {Host} : cdn'[h] = cdn[h])
  BY <1>1 DEF FInv, Types, EnsureDomain
<1>4. DomainsAreRemembered'
  BY <1>1, <1>3 DEF FInv, EnsureDomain, DomainsAreRemembered
<1>5. Types'
  BY <1>2, <1>3 DEF FInv, Types, EnsureDomain
<1> QED
  BY <1>2, <1>4, <1>5 DEF FInv

LEMMA SaveCNAMEInv ==
  ASSUME FInv, SaveCNAME
  PROVE  FInv'
<1>1. pass' \in Pass /\ TodoOfRoutes' /\ HostInHand'
  BY NextHostKeeps, EndKeeps DEF FInv, Types, SaveCNAME
<1>2. rows' \in [Hosts -> FrontDoors] /\ (\A h \in Hosts : rows[h] # "none" => rows'[h] # "none")
  BY DEF FInv, Types, SaveCNAME
<1>3. DomainsAreRemembered'
  BY <1>2 DEF FInv, SaveCNAME, DomainsAreRemembered
<1>4. Types'
  BY <1>1, <1>2 DEF FInv, Types, SaveCNAME
<1> QED
  BY <1>1, <1>3, <1>4 DEF FInv

LEMMA DeleteDomainInv ==
  ASSUME FInv, DeleteDomain
  PROVE  FInv'
<1>1. Host \in Hosts
  BY HostIsToDo DEF FInv, DeleteDomain, TodoOfRoutes
<1>2. pass' \in Pass /\ TodoOfRoutes' /\ HostInHand'
  <2>1. CASE Goto("clear") /\ cdn' = [cdn EXCEPT ![Host] = "absent"]
    <3>1. pass' \in Pass /\ pass'.todo = pass.todo /\ pass'.routes = pass.routes /\ pass'.pc = "clear"
      BY <2>1 DEF FInv, Types
    <3>2. cdn'[Host] = "absent"
      BY <1>1, <2>1 DEF FInv, Types
    <3> QED
      BY <3>1, <3>2 DEF FInv, DeleteDomain, TodoOfRoutes, HostInHand, Host
  <2> QED
    BY <2>1, EndKeeps DEF DeleteDomain, AfterFailedDelete
<1>3. cdn' \in [Hosts -> Domains] /\ (\A h \in Hosts : cdn[h] = "absent" => cdn'[h] = "absent")
  BY <1>1 DEF FInv, Types, DeleteDomain
<1>4. DomainsAreRemembered'
  BY <1>3 DEF FInv, DeleteDomain, DomainsAreRemembered
<1>5. Types'
  BY <1>2, <1>3 DEF FInv, Types, DeleteDomain
<1> QED
  BY <1>2, <1>4, <1>5 DEF FInv

LEMMA ClearServiceFrontDoorInv ==
  ASSUME FInv, ClearServiceFrontDoor
  PROVE  FInv'
<1>1. Host \in Hosts /\ (cdn[Host] = "absent" \/ Host \in trouble.outside)
  BY HostIsToDo DEF FInv, ClearServiceFrontDoor, TodoOfRoutes, HostInHand
<1>2. pass' \in Pass /\ TodoOfRoutes' /\ HostInHand'
  <2>1. CASE Stale(pass.todo \ {Host})
    <3>1. /\ pass.todo \ {Host} \in SUBSET Hosts /\ (pass.todo \ {Host}) \cap Desired = {}
          /\ Desired \cap trouble.outside = {} /\ UNCHANGED trouble /\ pass \in Pass
      BY DEF FInv, Types, ClearServiceFrontDoor, TodoOfRoutes
    <3> QED
      BY <2>1, <3>1, StaleKeeps
  <2> QED
    BY <2>1, EndKeeps DEF ClearServiceFrontDoor
<1>3. rows' \in [Hosts -> FrontDoors] /\ (\A h \in Hosts \ {Host} : rows'[h] = rows[h])
  BY <1>1 DEF FInv, Types, ClearServiceFrontDoor
<1>4. DomainsAreRemembered'
  BY <1>1, <1>3 DEF FInv, ClearServiceFrontDoor, DomainsAreRemembered
<1>5. Types'
  BY <1>2, <1>3 DEF FInv, Types, ClearServiceFrontDoor
<1> QED
  BY <1>2, <1>4, <1>5 DEF FInv

-----------------------------------------------------------------------------
(* What happens beside the pass. *)

LEMMA ServiceChangesInv ==
  ASSUME FInv, NEW h \in Hosts, ServiceChanges(h)
  PROVE  FInv'
<1>1. Types'
  BY DEF FInv, Types, ServiceChanges, Changed
<1>2. TodoOfRoutes' /\ HostInHand' /\ DomainsAreRemembered'
  BY DEF FInv, ServiceChanges, TodoOfRoutes, HostInHand, Host, DomainsAreRemembered
<1> QED
  BY <1>1, <1>2 DEF FInv

LEMMA NodeChangesInv ==
  ASSUME FInv, NEW n \in Nodes, NodeChanges(n)
  PROVE  FInv'
<1>1. Types'
  BY DEF FInv, Types, NodeChanges, Changed
<1>2. TodoOfRoutes' /\ HostInHand' /\ DomainsAreRemembered'
  BY DEF FInv, NodeChanges, TodoOfRoutes, HostInHand, Host, DomainsAreRemembered
<1> QED
  BY <1>1, <1>2 DEF FInv

LEMMA DomainGetsOnlineInv ==
  ASSUME FInv, NEW h \in Hosts, DomainGetsOnline(h)
  PROVE  FInv'
<1>1. /\ cdn' \in [Hosts -> Domains]
      /\ \A g \in Hosts : /\ cdn[g] = "absent" <=> cdn'[g] = "absent"
                          /\ cdn[g] \in {"online", "stopped"} => cdn'[g] = cdn[g]
  BY DEF FInv, Types, DomainGetsOnline
<1>2. Types'
  BY <1>1 DEF FInv, Types, DomainGetsOnline
<1>3. HostInHand'
  <2>1. pass.pc \in {"ensure", "save", "clear"} => Host \in Hosts
    BY HostIsToDo DEF FInv, TodoOfRoutes
  <2> QED
    BY <1>1, <2>1 DEF FInv, DomainGetsOnline, HostInHand, Host
<1>4. TodoOfRoutes' /\ DomainsAreRemembered'
  BY <1>1 DEF FInv, DomainGetsOnline, TodoOfRoutes, DomainsAreRemembered
<1> QED
  BY <1>2, <1>3, <1>4 DEF FInv

LEMMA RestartsInv ==
  ASSUME FInv, CloudPlaneRestart \/ CaddyRestart
  PROVE  FInv'
<1>1. Types'
  <2>1. Idle \in Pass /\ NoRoutes \in Config
    OBVIOUS
  <2>2. caddy' \in Config /\ fingerprint' \in Config \cup {NoConfig} /\ drifted' \in BOOLEAN
    BY <2>1 DEF FInv, Types, CloudPlaneRestart, CaddyRestart
  <2>3. pass' \in Pass /\ faults' \in 0..MaxFaults
    BY <2>1 DEF FInv, Types, CloudPlaneRestart, CaddyRestart
  <2> HIDE DEF Config, Pass, Idle, Domains, FrontDoors
  <2> QED
    BY <2>2, <2>3 DEF FInv, Types, CloudPlaneRestart, CaddyRestart
<1>2. TodoOfRoutes' /\ HostInHand' /\ DomainsAreRemembered'
  BY DEF FInv, CloudPlaneRestart, CaddyRestart, TodoOfRoutes, HostInHand, Host, DomainsAreRemembered
<1> QED
  BY <1>1, <1>2 DEF FInv

-----------------------------------------------------------------------------
LEMMA FInvInit == FrontDoorInit => FInv
<1> SUFFICES ASSUME FrontDoorInit PROVE FInv
  OBVIOUS
<1>1. Idle \in Pass /\ NoRoutes \in Config
  OBVIOUS
<1>2. Types
  <2>1. rows \in [Hosts -> FrontDoors]
    BY DEF FrontDoorInit
  <2>2. cdn \in [Hosts -> Domains]
    BY DEF FrontDoorInit
  <2>3. changes \in 0..MaxChanges /\ faults \in 0..MaxFaults
    BY DEF FrontDoorInit
  <2> HIDE DEF Config, Pass, Idle, Domains, FrontDoors, NoRoutes
  <2> QED
    BY <1>1, <2>1, <2>2, <2>3 DEF FrontDoorInit, Types
<1>3. TodoOfRoutes /\ HostInHand
  BY DEF FrontDoorInit, TodoOfRoutes, HostInHand
<1>4. DomainsAreRemembered
  BY DEF FrontDoorInit, DomainsAreRemembered
<1> QED
  BY <1>2, <1>3, <1>4 DEF FInv

LEMMA FInvStep == FInv /\ [FrontDoorNext]_frontDoorVars => FInv'
<1> SUFFICES ASSUME FInv, [FrontDoorNext]_frontDoorVars PROVE FInv'
  OBVIOUS
<1>1. CASE PassStep
  BY <1>1, ListIngressRouteSourcesInv, GetNodeInv, SyncCaddyInv, ListManagedInv,
     PrepareExistingInv, PreparePendingInv, PrepareVerifiedInv, EnsureDomainInv,
     SaveCNAMEInv, DeleteDomainInv, ClearServiceFrontDoorInv DEF PassStep
<1>2. CASE UNCHANGED frontDoorVars
  BY <1>2 DEF FInv, frontDoorVars, Types, TodoOfRoutes, HostInHand, Host, DomainsAreRemembered
<1> QED
  BY <1>1, <1>2, ServiceChangesInv, NodeChangesInv, DomainGetsOnlineInv, RestartsInv
     DEF FrontDoorNext

\* The inductive invariant holds through every pass of SyncRoutes and its restarts.
THEOREM FrontDoorInvariance == FrontDoorSpec => []FInv
<1> QED
  BY FInvInit, FInvStep, PTL DEF FrontDoorSpec

\* Every variable has its type; DeleteDomain is only called for hosts without a route,
\* and SaveServiceFrontDoor only for domains the CDN has.
THEOREM FrontDoorTypeCorrect == FrontDoorSpec => []FrontDoorTypeOK
<1>1. FInv => FrontDoorTypeOK
  <2> SUFFICES ASSUME FInv PROVE FrontDoorTypeOK
    OBVIOUS
  <2>1. pass.pc \in {"delete", "clear"} => pass.routes[Host] = NoRoute
    BY HostIsToDo DEF FInv, TodoOfRoutes
  <2> QED
    BY <2>1 DEF FInv, Types, TodoOfRoutes, HostInHand, FrontDoorTypeOK
<1> QED
  BY <1>1, FrontDoorInvariance, PTL

\* Whatever call of SyncRoutes fails, and whenever the cloud-plane stops, the store names
\* every domain of the base domain that the CDN may have: none is left behind unknown.
THEOREM DomainsRemembered == FrontDoorSpec => []DomainsAreRemembered
<1>1. FInv => DomainsAreRemembered
  BY DEF FInv
<1> QED
  BY <1>1, FrontDoorInvariance, PTL

-----------------------------------------------------------------------------
(* Columns and domains go together. *)

\* The abstract state, as the instance spells it.
LEMMA Mapped ==
  /\ Managed!vars = <<trouble.outside, rows, cdn>>
  /\ Managed!vars' = <<trouble'.outside, rows', cdn'>>
BY DEF Managed!vars

LEMMA PreparePendingRefines ==
  ASSUME FInv, PreparePending
  PROVE  Managed!Ask(Host) \/ UNCHANGED <<trouble, rows, cdn>>
<1>1. /\ UNCHANGED <<trouble, cdn>> /\ cdn[Host] = "absent"
      /\ rows' = SavedVerification \/ UNCHANGED rows
  BY DEF PreparePending
<1>2. Host \notin trouble.outside
  BY HostIsToDo DEF FInv, TodoOfRoutes, PreparePending
<1> QED
  BY <1>1, <1>2 DEF SavedVerification, Managed!Ask, Managed!Record

LEMMA PrepareVerifiedRefines ==
  ASSUME FInv, NEW h \in Hosts, PrepareVerified(h)
  PROVE  Managed!Ask(h)
<1>1. h \notin trouble.outside /\ rows' = [rows EXCEPT ![h] = "verification"]
  BY HostIsToDo DEF FInv, TodoOfRoutes, HostInHand, PrepareVerified, SavedVerification
<1> QED
  BY <1>1 DEF PrepareVerified, Managed!Ask, Managed!Record, StoreOnly, NodesOnly

LEMMA EnsureDomainRefines ==
  ASSUME FInv, EnsureDomain
  PROVE  Managed!Add(Host) \/ UNCHANGED <<trouble, rows, cdn>>
<1>1. /\ UNCHANGED <<trouble, rows>>
      /\ \/ UNCHANGED cdn
         \/ cdn[Host] = "absent" /\ cdn' = [cdn EXCEPT ![Host] = "configuring"]
  BY DEF EnsureDomain
<1>2. /\ Host \notin trouble.outside
      /\ cdn[Host] = "absent" => rows[Host] = "verification"
  BY HostIsToDo DEF FInv, TodoOfRoutes, HostInHand, EnsureDomain
<1> QED
  BY <1>1, <1>2 DEF Managed!Add, Managed!Domain

LEMMA SaveCNAMERefines ==
  ASSUME FInv, SaveCNAME
  PROVE  Managed!Publish(Host) \/ UNCHANGED <<trouble, rows, cdn>>
<1>1. /\ UNCHANGED <<trouble, cdn>>
      /\ UNCHANGED rows \/ rows' = [rows EXCEPT ![Host] = "cname"]
  BY DEF SaveCNAME
<1>2. Host \notin trouble.outside /\ cdn[Host] \in {"online", "stopped"}
  BY HostIsToDo DEF FInv, TodoOfRoutes, HostInHand, SaveCNAME
<1> QED
  BY <1>1, <1>2 DEF Managed!Publish, Managed!Record

LEMMA DeleteDomainRefines ==
  ASSUME FInv, DeleteDomain
  PROVE  Managed!Stop(Host) \/ Managed!Delete(Host) \/ UNCHANGED <<trouble, rows, cdn>>
<1>1. Host \in Hosts \ trouble.outside
  BY HostIsToDo DEF FInv, TodoOfRoutes, HostInHand, DeleteDomain
<1>2. UNCHANGED <<trouble, rows>>
  BY DEF DeleteDomain
<1>3. \E status \in {cdn[Host], "absent", "stopped"} :
        /\ cdn' = [cdn EXCEPT ![Host] = status]
        /\ status = "stopped" /\ cdn[Host] # "stopped" => cdn[Host] # "absent"
  BY DEF DeleteDomain
<1>4. cdn = [cdn EXCEPT ![Host] = cdn[Host]]
  BY <1>1 DEF FInv, Types
<1>5. cdn[Host] # "absent" => rows[Host] # "none"
  BY <1>1 DEF FInv, DomainsAreRemembered
<1> QED
  BY <1>1, <1>2, <1>3, <1>4, <1>5 DEF Managed!Stop, Managed!Delete, Managed!Domain

LEMMA ClearServiceFrontDoorRefines ==
  ASSUME FInv, ClearServiceFrontDoor
  PROVE  Managed!Forget(Host) \/ UNCHANGED <<trouble, rows, cdn>>
<1>1. /\ UNCHANGED <<trouble, cdn>>
      /\ UNCHANGED rows \/ rows' = [rows EXCEPT ![Host] = "none"]
  BY DEF ClearServiceFrontDoor
<1>2. cdn[Host] = "absent" \/ Host \in trouble.outside
  BY DEF FInv, HostInHand, ClearServiceFrontDoor
<1> QED
  BY <1>1, <1>2 DEF Managed!Forget, Managed!Record

LEMMA FrontDoorStepRefines ==
  ASSUME FInv, [FrontDoorNext]_frontDoorVars
  PROVE  [Managed!Next]_Managed!vars
<1>1. ASSUME UNCHANGED <<trouble, rows, cdn>> PROVE UNCHANGED Managed!vars
  BY <1>1, Mapped
<1>2. pass.pc \in {"prepare", "ensure", "save", "delete", "clear"} => Host \in Hosts
  BY HostIsToDo DEF FInv, TodoOfRoutes
<1>3. CASE PreparePending
  BY <1>1, <1>2, <1>3, PreparePendingRefines DEF PreparePending, Managed!Next
<1>4. CASE EnsureDomain
  BY <1>1, <1>2, <1>4, EnsureDomainRefines DEF EnsureDomain, Managed!Next
<1>5. CASE SaveCNAME
  BY <1>1, <1>2, <1>5, SaveCNAMERefines DEF SaveCNAME, Managed!Next
<1>6. CASE DeleteDomain
  BY <1>1, <1>2, <1>6, DeleteDomainRefines DEF DeleteDomain, Managed!Next
<1>7. CASE ClearServiceFrontDoor
  BY <1>1, <1>2, <1>7, ClearServiceFrontDoorRefines DEF ClearServiceFrontDoor, Managed!Next
<1>8. ASSUME NEW h \in Hosts, DomainGetsOnline(h) PROVE Managed!Next
  <2>1. Managed!GetOnline(h)
    BY <1>8 DEF DomainGetsOnline, Managed!GetOnline, Managed!Domain
  <2> QED
    BY <2>1 DEF Managed!Next
<1>9. CASE \/ ListIngressRouteSources \/ GetNode \/ SyncCaddy \/ ListManaged
           \/ PrepareExisting \/ (\E h \in Hosts : ServiceChanges(h))
           \/ (\E n \in Nodes : NodeChanges(n)) \/ CloudPlaneRestart \/ CaddyRestart \/ UNCHANGED frontDoorVars
  <2>1. UNCHANGED <<trouble, rows, cdn>>
    BY <1>9 DEF ListIngressRouteSources, GetNode, SyncCaddy, ListManaged, PrepareExisting,
       ServiceChanges, NodeChanges, CloudPlaneRestart, CaddyRestart, frontDoorVars
  <2> QED
    BY <1>1, <2>1
<1>10. ASSUME NEW h \in Hosts, PrepareVerified(h) PROVE Managed!Next
  BY <1>10, PrepareVerifiedRefines DEF Managed!Next
<1> QED
  BY <1>10, <1>3, <1>4, <1>5, <1>6, <1>7, <1>8, <1>9 DEF FrontDoorNext, PassStep

\* A pass acts on what it read some calls ago, and ends at any of them; still the columns
\* of a host come before its domain and go after it, a CNAME is only saved for a domain
\* the CDN has got done with, and those outside the base domain are never touched.
THEOREM DomainsManaged == FrontDoorSpec => DomainsAreManaged
<1>1. FrontDoorInit => Managed!Init
  BY DEF FrontDoorInit, Managed!Init
<1>2. FInv /\ [FrontDoorNext]_frontDoorVars => [Managed!Next]_Managed!vars
  BY FrontDoorStepRefines
<1> QED
  BY <1>1, <1>2, FrontDoorInvariance, PTL
     DEF FrontDoorSpec, DomainsAreManaged, Managed!Spec
================================================================================
