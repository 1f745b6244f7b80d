------------------------------ MODULE FrontDoor ------------------------------
(***************************************************************************)
(* The cloud-plane's ingress loop: routes are built from the store, loaded *)
(* into the Caddy beside the cloud-plane, and then, host by host, every    *)
(* route gets a domain at the provider's CDN and every domain that is no   *)
(* longer routed is deleted.  What the CDN says of a domain is kept in the *)
(* front-door columns of the services row, which is also the only list of  *)
(* domains to delete.                                                      *)
(*                                                                         *)
(* A pass is sequential and ends at its first error; the next one starts   *)
(* from the beginning.  The services change while a pass runs, the process *)
(* and Caddy may restart, and a call may fail before or after it took      *)
(* effect.  A host stands for its service (UNIQUE(host), tombstones        *)
(* included); both sinks are configured.  The verification record is one   *)
(* per root domain, so a host may be verified the first time it is asked.  *)
(***************************************************************************)
EXTENDS Integers, FiniteSets, FiniteSetsExt

CONSTANTS
  Hosts,       \* in the order of their names
  Nodes, NoNode, NoRoute, NoConfig,
  Troubles,    \* lasting difficulties, explored each for itself
  MaxChanges,  \* of services and nodes
  MaxFaults    \* failed calls and restarts

\* refused: hosts whose domain the CDN does not accept, whoever owns it; outside: hosts
\* stored under a base domain that was configured before; unverified: hosts the
\* CDN never finds verified, as when the control-plane cannot publish the record.
IsTrouble(x) == {x.refused, x.outside, x.unverified} \subseteq SUBSET Hosts

ASSUME FrontDoorAssumption ==
  /\ Hosts \subseteq Nat /\ IsFiniteSet(Hosts)
  /\ {NoNode, NoRoute} \cap Nodes = {} /\ NoNode # NoRoute
  /\ \A x \in Troubles : IsTrouble(x)
  /\ MaxChanges \in Nat /\ MaxFaults \in Nat

VARIABLES
  trouble,      \* chosen once
  sources,      \* active public services: NoRoute, NoNode, or the node of the running run
  ready,        \* nodes with status ready and a private IP
  rows,         \* the front-door columns
  cdn,          \* the provider's domains
  caddy,        \* the routes Caddy serves
  fingerprint,  \* Sink.lastAppliedFingerprint: what it was computed from
  drifted,      \* Caddy changed or restarted and the sink was not told (history)
  pass,         \* reconcileOnce: where it is and what it has read
  changes, faults

frontDoorVars == <<trouble, sources, ready, rows, cdn, caddy, fingerprint, drifted, pass, changes, faults>>

Source == Nodes \cup {NoNode, NoRoute}
Config == [Hosts -> Source]
NoRoutes == [h \in Hosts |-> NoRoute]

FrontDoors == {"none", "verification", "cname"}

\* configuring: accepted and still without a CNAME; stopped: no longer served.
Domains == {"absent", "configuring", "online", "stopped"}

Pass == [pc: {"idle", "nodes", "caddy", "managed", "prepare", "ensure", "save", "delete", "clear"},
         routes: Config, managed: SUBSET Hosts, todo: SUBSET Hosts]
Idle == [pc |-> "idle", routes |-> NoRoutes, managed |-> {}, todo |-> {}]

\* The host the pass is at: sortedHosts, and ORDER BY host for the stale ones.
Host == Min(pass.todo)
Desired == {h \in Hosts : pass.routes[h] # NoRoute}

Fault == faults < MaxFaults /\ faults' = faults + 1
NoFault == UNCHANGED faults

Goto(pc) == pass' = [pass EXCEPT !.pc = pc]
End == pass' = Idle

StaleHosts_All == pass.managed

\* Managed domains without a route; those outside the base domain are only forgotten.
StaleHosts == pass.managed \ (Desired \ trouble.outside)

FirstCall_Deletes(h) == "delete"

FirstCall(h) == IF h \in trouble.outside THEN "clear" ELSE "delete"

Stale(todo) ==
  IF todo = {} THEN End
  ELSE pass' = [pass EXCEPT !.pc = FirstCall(Min(todo)), !.todo = todo]

\* The loop over the routes goes on, and is followed by the one over the managed hosts.
NextHost ==
  IF pass.todo \ {Host} = {} THEN Stale(StaleHosts)
  ELSE pass' = [pass EXCEPT !.pc = "prepare", !.todo = @ \ {Host}]

NodesOnly == UNCHANGED <<trouble, sources, ready, changes>>
CaddyOnly == NodesOnly /\ UNCHANGED <<rows, cdn>>
StoreOnly == NodesOnly /\ UNCHANGED <<caddy, fingerprint, drifted>>

-----------------------------------------------------------------------------
(* buildRoutes and the Caddy sink. *)

WithBackend(routes) == {h \in Hosts : routes[h] \in Nodes}

\* One query for all routes, then a look at the node of every backend.
ListIngressRouteSources ==
  /\ pass.pc = "idle"
  /\ \/ /\ pass' = [pass EXCEPT !.pc = IF WithBackend(sources) = {} THEN "caddy" ELSE "nodes",
                      !.routes = sources, !.todo = WithBackend(sources)]
        /\ NoFault
     \/ End /\ Fault
  /\ CaddyOnly /\ UNCHANGED <<caddy, fingerprint, drifted>>

\* A host whose node is not ready keeps its route without a backend.
GetNode ==
  /\ pass.pc = "nodes"
  /\ \/ /\ pass' = [pass EXCEPT !.todo = @ \ {Host},
                      !.pc = IF pass.todo = {Host} THEN "caddy" ELSE @,
                      !.routes[Host] = IF @ \in ready THEN @ ELSE NoNode]
        /\ NoFault
     \/ End /\ Fault
  /\ CaddyOnly /\ UNCHANGED <<caddy, fingerprint, drifted>>

AfterFailedLoad_Remembered == pass.routes

\* The fingerprint is only set when Caddy has answered.
AfterFailedLoad == fingerprint

\* Nothing is loaded when the sink believes Caddy has it.  Caddy may apply a
\* configuration without its answer arriving.
SyncCaddy ==
  /\ pass.pc = "caddy"
  /\ \/ /\ fingerprint = pass.routes
        /\ Goto("managed") /\ NoFault /\ UNCHANGED <<caddy, fingerprint, drifted>>
     \/ /\ fingerprint # pass.routes
        /\ caddy' = pass.routes /\ fingerprint' = pass.routes /\ drifted' = FALSE
        /\ Goto("managed") /\ NoFault
     \/ /\ fingerprint # pass.routes
        /\ caddy' \in {caddy, pass.routes}
        /\ drifted' = (drifted \/ caddy' # caddy) /\ fingerprint' = AfterFailedLoad
        /\ End /\ Fault
  /\ CaddyOnly

-----------------------------------------------------------------------------
(* SyncRoutes of the front door. *)

ListServiceFrontDoors_CNAMEs == {h \in Hosts : rows[h] = "cname"}

ListServiceFrontDoors == {h \in Hosts : rows[h] # "none"}

\* A route outside the base domain is an error before anything is done.
ListManaged ==
  /\ pass.pc = "managed"
  /\ \/ /\ Desired \cap trouble.outside = {} /\ NoFault
        /\ IF Desired = {}
             THEN LET managed == ListServiceFrontDoors IN
                  IF managed = {} THEN End
                  ELSE pass' = [pass EXCEPT !.managed = managed, !.todo = managed,
                                  !.pc = FirstCall(Min(managed))]
             ELSE pass' = [pass EXCEPT !.managed = ListServiceFrontDoors, !.todo = Desired,
                             !.pc = "prepare"]
     \/ Desired \cap trouble.outside # {} /\ End /\ NoFault
     \/ End /\ Fault
  /\ StoreOnly /\ UNCHANGED <<rows, cdn>>

SavedVerification == [rows EXCEPT ![Host] = "verification"]

AfterPending_Ends == End

AfterPending == NextHost

\* An accepted domain needs no verification.
PrepareExisting ==
  /\ pass.pc = "prepare" /\ cdn[Host] # "absent"
  /\ \/ Goto("ensure") /\ NoFault
     \/ End /\ Fault
  /\ StoreOnly /\ UNCHANGED <<rows, cdn>>

\* The record to publish is saved in every pass; until the CDN finds it, on to the
\* next host.  An error comes before or after the record is known and saved.
PreparePending ==
  /\ pass.pc = "prepare" /\ cdn[Host] = "absent"
  /\ \/ rows' = SavedVerification /\ AfterPending /\ NoFault
     \/ rows' \in {rows, SavedVerification} /\ End /\ Fault
  /\ StoreOnly /\ UNCHANGED cdn

\* The CDN finds the record, that of an earlier pass or of another host of the root
\* domain; it is saved all the same before the domain is added.
PrepareVerified(h) ==
  /\ pass.pc = "prepare" /\ Host = h /\ cdn[h] = "absent"
  /\ h \notin trouble.unverified
  /\ rows' = SavedVerification
  /\ Goto("ensure") /\ NoFault
  /\ StoreOnly /\ UNCHANGED cdn

\* A domain is added, waited for, or has its CNAME, also one that was stopped: nothing
\* starts it again.  The provider may put off ("busy", no error) or refuse any of its
\* calls, setDomainConfig of Aliyun's among them.
EnsureDomain ==
  LET added == [cdn EXCEPT ![Host] = "configuring"] IN
  /\ pass.pc = "ensure"
  /\ \/ /\ cdn[Host] = "absent"
        /\ \/ Host \notin trouble.refused /\ cdn' = added /\ NextHost /\ NoFault
           \/ Host \in trouble.refused /\ End /\ NoFault /\ UNCHANGED cdn
           \/ Host \notin trouble.refused /\ cdn' \in {cdn, added} /\ End /\ Fault
     \/ cdn[Host] = "configuring" /\ NextHost /\ NoFault /\ UNCHANGED cdn
     \/ cdn[Host] \in {"online", "stopped"} /\ Goto("save") /\ NoFault /\ UNCHANGED cdn
     \/ (NextHost \/ End) /\ Fault /\ UNCHANGED cdn
  /\ StoreOnly /\ UNCHANGED rows

\* SaveServiceFrontDoor writes all columns: the verification goes.
SaveCNAME ==
  /\ pass.pc = "save"
  /\ \/ rows' = [rows EXCEPT ![Host] = "cname"] /\ NextHost /\ NoFault
     \/ UNCHANGED rows /\ End /\ Fault
  /\ StoreOnly /\ UNCHANGED cdn

AfterFailedDelete_Clears == Goto("clear")

AfterFailedDelete == End

\* Stop, then delete; an absent domain is fine for both.
DeleteDomain ==
  /\ pass.pc = "delete"
  /\ \/ cdn' = [cdn EXCEPT ![Host] = "absent"] /\ Goto("clear") /\ NoFault
     \/ /\ \E status \in {cdn[Host], "absent"} \cup (IF cdn[Host] = "absent" THEN {} ELSE {"stopped"}) :
             cdn' = [cdn EXCEPT ![Host] = status]
        /\ AfterFailedDelete /\ Fault
  /\ StoreOnly /\ UNCHANGED rows

ClearServiceFrontDoor ==
  /\ pass.pc = "clear"
  /\ \/ rows' = [rows EXCEPT ![Host] = "none"] /\ Stale(pass.todo \ {Host}) /\ NoFault
     \/ UNCHANGED rows /\ End /\ Fault
  /\ StoreOnly /\ UNCHANGED cdn

-----------------------------------------------------------------------------
(* Everything else. *)

Changed == changes < MaxChanges /\ changes' = changes + 1

\* A service is created, deleted, made public or private, placed, restarted or moved.
ServiceChanges(h) ==
  /\ \E source \in Source \ {sources[h]} : sources' = [sources EXCEPT ![h] = source]
  /\ Changed
  /\ UNCHANGED <<trouble, ready, rows, cdn, caddy, fingerprint, drifted, pass, faults>>

NodeChanges(n) ==
  /\ ready' = IF n \in ready THEN ready \ {n} ELSE ready \cup {n}
  /\ Changed
  /\ UNCHANGED <<trouble, sources, rows, cdn, caddy, fingerprint, drifted, pass, faults>>

\* The provider has configured the domain.
DomainGetsOnline(h) ==
  /\ cdn[h] = "configuring" /\ cdn' = [cdn EXCEPT ![h] = "online"]
  /\ UNCHANGED <<trouble, sources, ready, rows, caddy, fingerprint, drifted, pass, changes, faults>>

\* The process forgets what Caddy has.
CloudPlaneRestart ==
  /\ pass' = Idle /\ fingerprint' = NoConfig /\ drifted' = FALSE /\ Fault
  /\ CaddyOnly /\ UNCHANGED caddy

\* The container comes back with the Caddyfile of the installation.
CaddyRestart ==
  /\ caddy' = NoRoutes /\ drifted' = TRUE /\ Fault
  /\ CaddyOnly /\ UNCHANGED <<fingerprint, pass>>

FrontDoorInit ==
  /\ trouble \in Troubles
  /\ sources = NoRoutes /\ ready = Nodes
  /\ rows = [h \in Hosts |-> IF h \in trouble.outside THEN "cname" ELSE "none"]
  /\ cdn = [h \in Hosts |-> IF h \in trouble.outside THEN "online" ELSE "absent"]
  /\ caddy = NoRoutes /\ fingerprint = NoConfig /\ drifted = FALSE
  /\ pass = Idle /\ changes = 0 /\ faults = 0

PassStep ==
  \/ ListIngressRouteSources \/ GetNode \/ SyncCaddy \/ ListManaged
  \/ PrepareExisting \/ PreparePending \/ (\E h \in Hosts : PrepareVerified(h))
  \/ EnsureDomain \/ SaveCNAME \/ DeleteDomain \/ ClearServiceFrontDoor

FrontDoorNext ==
  \/ PassStep
  \/ \E h \in Hosts : ServiceChanges(h) \/ DomainGetsOnline(h)
  \/ \E n \in Nodes : NodeChanges(n)
  \/ CloudPlaneRestart \/ CaddyRestart

\* The loop goes on; a record that is asked for in pass after pass is found in one of
\* them, and the provider gets done with every domain it has accepted.
FrontDoorFairness ==
  /\ WF_frontDoorVars(PassStep)
  /\ \A h \in Hosts :
       SF_frontDoorVars(PrepareVerified(h)) /\ WF_frontDoorVars(DomainGetsOnline(h))

FrontDoorSpec == FrontDoorInit /\ [][FrontDoorNext]_frontDoorVars /\ FrontDoorFairness

-----------------------------------------------------------------------------
(* Properties. *)

\* Every variable has its type; a pass only stops and deletes a domain its routes do
\* not need, and a CNAME it saves is that of a domain the CDN still has.
FrontDoorTypeOK ==
  /\ trouble \in Troubles /\ sources \in Config /\ ready \subseteq Nodes
  /\ rows \in [Hosts -> FrontDoors] /\ cdn \in [Hosts -> Domains]
  /\ caddy \in Config /\ fingerprint \in Config \cup {NoConfig} /\ drifted \in BOOLEAN
  /\ pass \in Pass /\ changes \in 0..MaxChanges /\ faults \in 0..MaxFaults
  /\ pass.pc \in {"prepare", "ensure", "save", "delete", "clear"} => pass.todo # {}
  /\ pass.pc \in {"delete", "clear"} => pass.routes[Host] = NoRoute
  /\ pass.pc = "save" => cdn[Host] # "absent"

\* The store names every domain the CDN may have, whatever failed or stopped in
\* between, so that a later pass can delete it.  A domain outside the base domain is
\* given up on purpose.
DomainsAreRemembered ==
  \A h \in Hosts \ trouble.outside : cdn[h] # "absent" => rows[h] # "none"

Managed == INSTANCE ManagedDomains WITH
  outside <- trouble.outside, record <- rows, domain <- cdn

\* What a pass has found out about a host when it calls the CDN or the store still
\* holds: whatever failed before, a domain is added, published, deleted and forgotten in
\* the order of ManagedDomains, and none outside the base domain is touched.
DomainsAreManaged == Managed!Spec

\* Caddy gets to serve a running service on a ready node, and no longer serves one that
\* is gone, unless it was changed or restarted behind the sink.
RoutesReachCaddy ==
  \A h \in Hosts :
    /\ \A n \in Nodes : <>[](sources[h] = n /\ n \in ready) => (<>[](caddy[h] = n) \/ <>[]drifted)
    /\ <>[](sources[h] = NoRoute) => (<>[](caddy[h] = NoRoute) \/ <>[]drifted)

\* A route that makes every pass end in an error at the host g.
Stuck(g) ==
  /\ sources[g] # NoRoute
  /\ g \in trouble.outside \/ g \in trouble.refused \ trouble.unverified

\* A public service gets its CNAME and a domain that serves, also while another one
\* waits for its verification.  Not so behind a host that ends every pass, nor when the
\* domain was stopped for a deletion that failed before the service came back.
FrontDoorsComeUp ==
  \A h \in Hosts :
    <>[](sources[h] # NoRoute)
      => \/ <>[](rows[h] = "cname" /\ cdn[h] = "online")
         \/ h \in trouble.unverified
         \/ <>[](cdn[h] = "stopped")
         \/ []<>(\E g \in Hosts : Stuck(g) /\ (g <= h \/ g \in trouble.outside))

\* operations.md:200 expects the CDN clean after the services are deleted: a domain goes
\* away, and so do the columns, unless some host ends every pass before.
DomainsGoAway ==
  \A h \in Hosts :
    <>[](sources[h] = NoRoute)
      => \/ <>[](rows[h] = "none" /\ (cdn[h] = "absent" \/ h \in trouble.outside))
         \/ []<>(\E g \in Hosts : Stuck(g))
=============================================================================
