-------------------------------- MODULE Minictl --------------------------------
(***************************************************************************)
(* minictl (internal/ops): deploy, update, destroy and e2e on one machine, *)
(* the planes of the configuration in parallel, against Terraform, the     *)
(* platform hosts and the providers' APIs.  What the deployed system does  *)
(* by itself meanwhile (workers, CDN domains, DNS records) is reduced to   *)
(* its effect on those APIs.                                               *)
(*                                                                         *)
(* Every call can fail, with or without its effect, and the operator may   *)
(* interrupt a command at any step, which leaves of a call what its        *)
(* failure leaves; whatever is retried inside a call is one call.  The     *)
(* SSH host of every plane is configured (validateBase).                   *)
(***************************************************************************)
EXTENDS FiniteSets, Naturals

CONSTANTS
  Planes,    \* the configured planes
  Scenarios  \* their providers and the bounds, explored each for itself

\* deploys bounds the deploy, update and e2e commands, faults the failing calls and
\* interruptions; serving are the planes with services that need workers, fronted those
\* with services that have a host.
IsScenario(x) ==
  /\ x.provider \in [Planes -> {"aliyun", "tencent"}]
  /\ x.serving \subseteq Planes /\ x.fronted \subseteq Planes
  /\ x.deploys \in Nat /\ x.faults \in Nat

ASSUME MinictlAssumption == IsFiniteSet(Planes) /\ \A x \in Scenarios : IsScenario(x)

VARIABLES
  scenario,          \* chosen once
  command, e2e,      \* the running command, and whether e2e runs it
  main, at,          \* step of the main goroutine and of each plane's goroutine
  out, listed,       \* the outputs destroyPlane has read, the CDN domains it has listed
  succeeded,         \* the command that ended last, "none" if it failed
  network, outputs,  \* Terraform: each plane's resources, and the outputs in its state
  ccn, rules,        \* planes whose Lighthouse has its CCN attachment, its firewall rules
  installed,         \* planes whose host runs the cloud-plane
  workers, domain, records,  \* each plane's instances, CDN domain and DNS records
  requests,          \* planes whose snapshot a request of the control-plane works on
  late,              \* planes whose records were written since their uninstallation (history)
  scf,               \* the control-plane's image, function, DNS record and custom domain
  tls,               \* the certificate state file
  deploys, faults    \* commands begun and faults so far

run == <<scenario, command, e2e, main, out, listed, succeeded, deploys>>
infra == <<network, outputs>>
lighthouse == <<ccn, rules>>
runtime == <<workers, domain, records, requests, late>>
platform == <<scf, tls>>
minictlVars == <<run, at, infra, lighthouse, installed, runtime, platform, faults>>

Commands == {"none", "deploy", "update", "destroy"}
ControlPlaneParts == {"image", "function", "record", "binding"}
MainSteps == {"none", "build", "bootstrap", "check", "certificates", "health", "install",
              "planes"} \cup ControlPlaneParts
PlaneSteps == {"idle", "apply", "attach", "allow", "install", "output", "uninstall",
               "domains", "delete", "txt", "cnames", "workers", "rules", "ccn", "terraform",
               "done", "failed"}

\* partial: an apply that broke off has written the outputs that depend on no resource
\* (provider, platform_mode), without the platform, its region and the network.
Outputs == {"none", "partial", "full"}

\* The Tencent platform is a Lighthouse.
Tencent == {p \in Planes : scenario.provider[p] = "tencent"}
SameProvider(p) == {q \in Planes : scenario.provider[q] = scenario.provider[p]}

Fault == faults < scenario.faults /\ faults' = faults + 1
NoFault == UNCHANGED faults

-----------------------------------------------------------------------------
(* Commands and their goroutines. *)

FirstStep(c) == IF c = "destroy" THEN "output" ELSE "idle"
FirstMain(c) == CASE c = "deploy" -> "build" [] c = "update" -> "check"
                  [] c = "destroy" -> "planes" [] OTHER -> "none"

Begin(c) ==
  /\ command' = c /\ main' = FirstMain(c) /\ at' = [p \in Planes |-> FirstStep(c)]
  /\ out' = [p \in Planes |-> "none"] /\ listed' = [p \in Planes |-> {}]

\* e2e updates after a deploy that succeeded, and destroys whatever happened before; a
\* web test that fails ends like the check of the update.
FollowUp(ok) ==
  CASE ~e2e \/ command = "destroy" -> "none"
    [] command = "deploy" /\ ok -> "update"
    [] OTHER -> "destroy"

End(ok) ==
  /\ Begin(FollowUp(ok))
  /\ e2e' = (e2e /\ FollowUp(ok) # "none")
  /\ succeeded' = IF ok THEN command ELSE "none"
  /\ UNCHANGED <<scenario, deploys>>

start(c, whole) ==
  /\ command = "none"
  /\ IF c = "destroy" THEN UNCHANGED deploys
                      ELSE deploys < scenario.deploys /\ deploys' = deploys + 1
  /\ Begin(c) /\ e2e' = whole /\ succeeded' = "none"
  /\ NoFault /\ UNCHANGED <<scenario, infra, lighthouse, installed, runtime, platform>>

\* Ctrl-C, also of an e2e: nothing deferred runs.
interrupt ==
  /\ command # "none" /\ Fault
  /\ Begin("none") /\ e2e' = FALSE /\ succeeded' = "none"
  /\ UNCHANGED <<scenario, deploys, infra, lighthouse, installed, runtime, platform>>

Proceeds(p, next) == at' = [at EXCEPT ![p] = next] /\ NoFault
Breaks(p) == at' = [at EXCEPT ![p] = "failed"] /\ Fault
Ends(p, next) == Proceeds(p, next) \/ Breaks(p)
Broken(p) == at'[p] = "failed"

Waited_ForOne == \E p \in Planes : at[p] \in {"done", "failed"}
Waited == \A p \in Planes : at[p] \in {"done", "failed"}
PlaneErr_Dropped == FALSE
PlaneErr == \E p \in Planes : at[p] = "failed"

\* The main goroutine starts those of the planes at a step, or leaves them alone.
Planewise(next, step) ==
  /\ main' = next /\ at' = [p \in Planes |-> step]
  /\ UNCHANGED <<scenario, command, e2e, out, listed, succeeded, deploys>>

MainTo(next) ==
  main' = next /\ UNCHANGED <<scenario, command, e2e, at, out, listed, succeeded, deploys>>

MainFails == End(FALSE) /\ Fault

-----------------------------------------------------------------------------
(* Deploy: the infrastructure, the control-plane, then the cloud-planes. *)

\* Local work and read-only checks that decide whether a command goes on.
build ==
  /\ main = "build"
  /\ (Planewise("bootstrap", "apply") /\ NoFault) \/ MainFails
  /\ UNCHANGED <<infra, lighthouse, installed, runtime, platform>>

check ==
  /\ main = "check"
  /\ (MainTo("certificates") /\ NoFault) \/ MainFails
  /\ UNCHANGED <<infra, lighthouse, installed, runtime, platform>>

\* terraform init, workspace, apply and output.  An apply that breaks off leaves
\* resources and maybe some outputs; those of an earlier one stay.
apply(p) ==
  /\ at[p] = "apply"
  /\ \/ /\ Ends(p, IF p \in Tencent THEN "attach" ELSE "done")
        /\ network' = [network EXCEPT ![p] = "full"]
        /\ outputs' = [outputs EXCEPT ![p] = "full"]
     \/ /\ Breaks(p)
        /\ network' = [network EXCEPT ![p] = IF @ = "full" THEN @ ELSE "partial"]
        /\ outputs' \in {outputs, [outputs EXCEPT ![p] = IF @ = "full" THEN @ ELSE "partial"]}
  /\ UNCHANGED <<run, lighthouse, installed, runtime, platform>>

attachLighthouseCCN(p) ==
  /\ at[p] = "attach" /\ Ends(p, "allow")
  /\ ccn' = ccn \cup {p} \/ (Broken(p) /\ UNCHANGED ccn)
  /\ UNCHANGED <<run, infra, rules, installed, runtime, platform>>

ensureLighthouseFirewallRules(p) ==
  /\ at[p] = "allow" /\ Ends(p, "done")
  /\ rules' = rules \cup {p} \/ (Broken(p) /\ UNCHANGED rules)
  /\ UNCHANGED <<run, infra, ccn, installed, runtime, platform>>

bootstrap ==
  /\ main = "bootstrap" /\ Waited
  /\ IF PlaneErr THEN End(FALSE) ELSE MainTo("certificates")
  /\ NoFault /\ UNCHANGED <<infra, lighthouse, installed, runtime, platform>>

\* After the plans, which need no outputs.  Certificates are made, and made again, and
\* their file is rewritten in place; half written, it is a parse error for every later
\* command.
loadCertificateBundle ==
  /\ main = "certificates"
  /\ \/ tls # "torn" /\ MainTo("image") /\ tls' = "good" /\ NoFault
     \/ tls # "torn" /\ MainFails /\ tls' \in {tls, "torn"}
     \/ tls = "torn" /\ End(FALSE) /\ NoFault /\ UNCHANGED tls
  /\ UNCHANGED <<infra, lighthouse, installed, runtime, scf>>

\* A call about one part of the control-plane, after which scf is left.
Call(step, next, left) ==
  /\ main = step
  /\ \/ /\ scf' = left /\ NoFault
        /\ IF next = "none" THEN End(~PlaneErr) ELSE MainTo(next)
     \/ MainFails /\ scf' \in {scf, left}
  /\ UNCHANGED <<infra, lighthouse, installed, runtime, tls>>

Ensure(part, next) == command # "destroy" /\ Call(part, next, scf \cup {part})

buildAndPushControlPlaneImage == Ensure("image", "function")
upsertSCFFunction == Ensure("function", "record")
ensureSCFCustomDomain == Ensure("record", "binding")
ensureSCFCustomDomainBinding == Ensure("binding", "health")

waitForControlPlaneSCF ==
  /\ main = "health"
  /\ \/ command = "update" /\ End(TRUE) /\ NoFault
     \/ command = "deploy" /\ Planewise("install", "install") /\ NoFault
     \/ MainFails
  /\ UNCHANGED <<infra, lighthouse, installed, runtime, platform>>

\* Its files need the outputs of the plane, which bootstrap has read.
installCloudPlane(p) ==
  /\ at[p] = "install" /\ Ends(p, "done")
  /\ installed' = installed \cup {p} \/ (Broken(p) /\ UNCHANGED installed)
  /\ UNCHANGED <<run, infra, lighthouse, runtime, platform>>

install ==
  /\ main = "install" /\ Waited /\ End(~PlaneErr)
  /\ NoFault /\ UNCHANGED <<infra, lighthouse, installed, runtime, platform>>

-----------------------------------------------------------------------------
(* Destroy: each plane, then the control-plane whatever became of the planes. *)

RunsOn == UNCHANGED <<scenario, command, e2e, main, succeeded, deploys>>

tryTerraformOutput(p) ==
  /\ at[p] = "output" /\ Ends(p, "uninstall")
  /\ out' = [out EXCEPT ![p] = outputs[p]]
  /\ RunsOn /\ UNCHANGED <<listed, infra, lighthouse, installed, runtime, platform>>

\* Partial outputs name no region, and without one the domains of Tencent's CDN are
\* passed over; without any outputs provider and region are the configured ones.
AfterUninstall(p) == IF p \in Tencent /\ out[p] = "partial" THEN "txt" ELSE "domains"

Uninstalled(p) == installed' = installed \ {p} /\ late' = late \ {p}

uninstallCloudPlane(p) ==
  /\ at[p] = "uninstall" /\ Ends(p, AfterUninstall(p))
  /\ Uninstalled(p) \/ (Broken(p) /\ UNCHANGED <<installed, late>>)
  /\ UNCHANGED <<run, infra, lighthouse, workers, domain, records, requests, platform>>

\* The domains under the base domain, of all planes of the provider, are listed once.
deleteServiceFrontDoors(p) ==
  LET found == {q \in SameProvider(p) : domain[q] # "none"} IN
  /\ at[p] = "domains" /\ Ends(p, IF found = {} THEN "txt" ELSE "delete")
  /\ listed' = [listed EXCEPT ![p] = found]
  /\ RunsOn /\ UNCHANGED <<out, infra, lighthouse, installed, runtime, platform>>

\* One domain less; the records follow the last.
Deleted(p, q) ==
  /\ Proceeds(p, IF listed[p] = {q} THEN "txt" ELSE "delete")
  /\ listed' = [listed EXCEPT ![p] = @ \ {q}]
  /\ domain' = [domain EXCEPT ![q] = "none"]

DomainsOnly ==
  /\ RunsOn
  /\ UNCHANGED <<out, infra, lighthouse, installed, workers, records, requests, late, platform>>

Lowered(d) == IF d = "online" THEN "offline" ELSE "none"

\* Aliyun's are stopped when they are online and deleted when they are offline.
deleteAliyunCDNDomain(p, q) ==
  /\ at[p] = "delete" /\ p \notin Tencent /\ q \in listed[p]
  /\ \/ domain[q] # "online" /\ Deleted(p, q)
     \/ /\ domain[q] = "online" /\ Proceeds(p, "delete")
        /\ domain' = [domain EXCEPT ![q] = "offline"] /\ UNCHANGED listed
     \/ /\ Breaks(p) /\ UNCHANGED listed
        /\ \E d \in {domain[q], Lowered(domain[q])} : domain' = [domain EXCEPT ![q] = d]
  /\ DomainsOnly

\* A domain that does not become offline, or is online again, is waited for ten minutes.
deleteTimedOut_Never(p) == FALSE /\ UNCHANGED minictlVars
deleteTimedOut(p) ==
  /\ at[p] = "delete" /\ p \notin Tencent /\ NoFault
  /\ at' = [at EXCEPT ![p] = "failed"] /\ UNCHANGED listed
  /\ \E q \in listed[p] : domain[q] = "online" /\ domain' = [domain EXCEPT ![q] = "offline"]
  /\ DomainsOnly

\* Tencent's are stopped and deleted without a look at their status.
deleteTencentCDNDomain(p, q) ==
  /\ at[p] = "delete" /\ p \in Tencent /\ q \in listed[p]
  /\ \/ Deleted(p, q)
     \/ /\ Breaks(p) /\ UNCHANGED listed
        /\ \E d \in {domain[q], Lowered(domain[q]), "none"} : domain' = [domain EXCEPT ![q] = d]
  /\ DomainsOnly

Without(p, type) ==
  [q \in Planes |-> IF q \in SameProvider(p) THEN records[q] \ {type} ELSE records[q]]

RecordsOnly ==
  UNCHANGED <<run, infra, lighthouse, installed, workers, domain, requests, late, platform>>

deleteVerifyTXTRecord(p) ==
  /\ at[p] = "txt" /\ Ends(p, "cnames")
  /\ records' = Without(p, "txt") \/ (Broken(p) /\ UNCHANGED records)
  /\ RecordsOnly

\* Of all planes of the provider: what a record belongs to is told by its target.
deleteDNSPodCNAMERecords(p) ==
  /\ at[p] = "cnames" /\ Ends(p, IF out[p] = "none" THEN "terraform" ELSE "workers")
  /\ records' = Without(p, "cname") \/ (Broken(p) /\ UNCHANGED records)
  /\ RecordsOnly

\* DeleteInstances returns at once; TerminateInstances is waited for.
AfterWorkers_Terraform(p) == "terraform"
AfterWorkers(p) == IF p \in Tencent THEN "rules" ELSE "terraform"

StopWorkers(p, next) ==
  /\ workers[p] = "live" /\ Ends(p, next)
  /\ workers' = [workers EXCEPT ![p] = "stopping"] \/ (Broken(p) /\ UNCHANGED workers)

WorkersOnly ==
  UNCHANGED <<run, infra, lighthouse, installed, domain, records, requests, late, platform>>

deleteAliyunWorkerNodes(p) ==
  /\ at[p] = "workers" /\ p \notin Tencent /\ out[p] = "full"
  /\ \/ StopWorkers(p, AfterWorkers(p))
     \/ workers[p] # "live" /\ Ends(p, AfterWorkers(p)) /\ UNCHANGED workers
  /\ WorkersOnly

deleteTencentWorkerNodes(p) ==
  /\ at[p] = "workers" /\ p \in Tencent /\ out[p] = "full"
  /\ \/ StopWorkers(p, "workers")
     \/ workers[p] = "none" /\ Ends(p, AfterWorkers(p)) /\ UNCHANGED workers
     \/ workers[p] = "stopping" /\ Breaks(p) /\ UNCHANGED workers
  /\ WorkersOnly

\* The workers are looked for in the region of the outputs; where these are partial there
\* is none, and the call is refused in this destroy and in all that follow.
workerNodesWithoutRegion(p) ==
  /\ at[p] = "workers" /\ out[p] = "partial"
  /\ at' = [at EXCEPT ![p] = "failed"]
  /\ NoFault /\ UNCHANGED workers /\ WorkersOnly

deleteLighthouseFirewallRules(p) ==
  /\ at[p] = "rules" /\ Ends(p, "ccn")
  /\ rules' = rules \ {p} \/ (Broken(p) /\ UNCHANGED rules)
  /\ UNCHANGED <<run, infra, ccn, installed, runtime, platform>>

detachLighthouseCCN(p) ==
  /\ at[p] = "ccn" /\ Ends(p, "terraform")
  /\ ccn' = ccn \ {p} \/ (Broken(p) /\ UNCHANGED ccn)
  /\ UNCHANGED <<run, infra, rules, installed, runtime, platform>>

\* terraform destroy cannot delete a network with instances in it.
terraformDestroy(p) ==
  /\ at[p] = "terraform"
  /\ \/ /\ workers[p] = "none" /\ Proceeds(p, "done")
        /\ network' = [network EXCEPT ![p] = "none"]
        /\ outputs' = [outputs EXCEPT ![p] = "none"]
     \/ /\ workers[p] # "none"
        /\ at' = [at EXCEPT ![p] = "failed"] /\ NoFault /\ UNCHANGED infra
     \/ /\ Breaks(p)
        /\ network' = [network EXCEPT ![p] = IF @ = "none" THEN @ ELSE "partial"]
        /\ outputs' \in {outputs, [outputs EXCEPT ![p] = "none"]}
  /\ UNCHANGED <<run, lighthouse, installed, runtime, platform>>

destroyPlanes ==
  /\ main = "planes" /\ Waited /\ MainTo("binding")
  /\ NoFault /\ UNCHANGED <<infra, lighthouse, installed, runtime, platform>>

\* Part i of the control-plane; i also numbers the steps of the main goroutine.
UninstallOrder_FunctionFirst == <<"function", "binding", "record", "image">>
UninstallOrder == <<"binding", "record", "function", "image">>

uninstallControlPlane(i) ==
  /\ command = "destroy"
  /\ LET step == <<"binding", "record", "function", "image", "none">>
     IN Call(step[i], step[i + 1], scf \ {UninstallOrder[i]})

-----------------------------------------------------------------------------
(* The deployed system and the providers. *)

\* A running cloud-plane creates and deletes workers; released ones disappear.
WorkersChange(p) ==
  /\ p \in installed \cap scenario.serving
  /\ \/ /\ network[p] = "full" /\ workers[p] = "none"
        /\ workers' = [workers EXCEPT ![p] = "live"]
     \/ workers[p] = "live" /\ workers' = [workers EXCEPT ![p] = "stopping"]
  /\ NoFault /\ UNCHANGED at /\ WorkersOnly

WorkersReleased(p) ==
  /\ workers[p] = "stopping" /\ workers' = [workers EXCEPT ![p] = "none"]
  /\ NoFault /\ UNCHANGED at /\ WorkersOnly

DomainStates == {"none", "online", "offline"}

\* Front doors follow services: a running cloud-plane adds, stops and deletes domains,
\* and starts none again.
DomainChanges(p) ==
  /\ p \in installed \cap scenario.fronted
  /\ \E d \in IF domain[p] = "none" THEN {"online"} ELSE {"offline", "none"} \ {domain[p]} :
       domain' = [domain EXCEPT ![p] = d]
  /\ NoFault /\ UNCHANGED <<at, listed>> /\ DomainsOnly

RecordTypes == {"txt", "cname"}

\* A request of the control-plane loads the snapshot of a running cloud-plane ...
loadSnapshot(p) ==
  /\ "function" \in scf /\ p \in (installed \cap scenario.fronted) \ requests
  /\ requests' = requests \cup {p} /\ NoFault
  /\ UNCHANGED <<run, at, infra, lighthouse, installed, workers, domain, records, late, platform>>

\* ... and changes the records of the plane's services later, whatever has become of the
\* plane and of the function meanwhile.  The verification record is one per provider.
syncFrontDoorDNS(p) ==
  /\ p \in requests /\ requests' = requests \ {p}
  /\ \E r \in SUBSET RecordTypes :
       /\ "txt" \in r => \A q \in SameProvider(p) \ {p} : "txt" \notin records[q]
       /\ records' = [records EXCEPT ![p] = r]
       /\ late' = IF p \in installed \/ r \subseteq records[p] THEN late ELSE late \cup {p}
  /\ NoFault
  /\ UNCHANGED <<run, at, infra, lighthouse, installed, workers, domain, platform>>

-----------------------------------------------------------------------------
MinictlInit ==
  /\ scenario \in Scenarios
  /\ command = "none" /\ e2e = FALSE /\ main = "none" /\ at = [p \in Planes |-> "idle"]
  /\ out = [p \in Planes |-> "none"] /\ listed = [p \in Planes |-> {}]
  /\ succeeded = "none" /\ deploys = 0 /\ faults = 0
  /\ network = [p \in Planes |-> "none"] /\ outputs = [p \in Planes |-> "none"]
  /\ ccn = {} /\ rules = {} /\ installed = {}
  /\ workers = [p \in Planes |-> "none"] /\ domain = [p \in Planes |-> "none"]
  /\ records = [p \in Planes |-> {}] /\ requests = {} /\ late = {}
  /\ scf = {} /\ tls = "absent"

PlaneStep(p) ==
  \/ apply(p) \/ attachLighthouseCCN(p) \/ ensureLighthouseFirewallRules(p)
  \/ installCloudPlane(p)
  \/ tryTerraformOutput(p) \/ uninstallCloudPlane(p) \/ deleteServiceFrontDoors(p)
  \/ \E q \in Planes : deleteAliyunCDNDomain(p, q) \/ deleteTencentCDNDomain(p, q)
  \/ deleteTimedOut(p) \/ deleteVerifyTXTRecord(p) \/ deleteDNSPodCNAMERecords(p)
  \/ deleteAliyunWorkerNodes(p) \/ deleteTencentWorkerNodes(p) \/ workerNodesWithoutRegion(p)
  \/ deleteLighthouseFirewallRules(p) \/ detachLighthouseCCN(p) \/ terraformDestroy(p)

MainStep ==
  \/ build \/ bootstrap \/ check \/ loadCertificateBundle
  \/ buildAndPushControlPlaneImage \/ upsertSCFFunction \/ ensureSCFCustomDomain
  \/ ensureSCFCustomDomainBinding \/ waitForControlPlaneSCF \/ install
  \/ destroyPlanes \/ \E i \in 1..4 : uninstallControlPlane(i)

MinictlNext ==
  \/ start("deploy", FALSE) \/ start("update", FALSE) \/ start("deploy", TRUE)
  \/ start("destroy", FALSE) \/ interrupt
  \/ MainStep \/ \E p \in Planes : PlaneStep(p)
  \/ \E p \in Planes : WorkersChange(p) \/ WorkersReleased(p) \/ DomainChanges(p)
                         \/ loadSnapshot(p) \/ syncFrontDoorDNS(p)

\* Nothing is left of a plane but, maybe, DNS records.
Gone(p) ==
  /\ p \notin installed /\ p \notin ccn /\ p \notin rules /\ outputs[p] = "none"
  /\ network[p] = "none" /\ workers[p] = "none" /\ domain[p] = "none"

\* Calls return, deadlines come, requests end and the operator repeats destroy; nobody has
\* to deploy or interrupt.
MinictlFairness ==
  /\ \A p \in Planes : /\ WF_minictlVars(PlaneStep(p)) /\ WF_minictlVars(WorkersReleased(p))
                       /\ WF_minictlVars(syncFrontDoorDNS(p))
                       /\ SF_minictlVars(deleteTimedOut(p))
  /\ WF_minictlVars(MainStep) /\ WF_minictlVars(start("destroy", FALSE))

MinictlSpec == MinictlInit /\ [][MinictlNext]_minictlVars /\ MinictlFairness

-----------------------------------------------------------------------------
(* Properties. *)

\* Every variable has its type, and planes only work while the main goroutine waits.
MinictlTypeOK ==
  /\ scenario \in Scenarios
  /\ command \in Commands /\ e2e \in BOOLEAN /\ main \in MainSteps
  /\ at \in [Planes -> PlaneSteps] /\ out \in [Planes -> Outputs]
  /\ listed \in [Planes -> SUBSET Planes]
  /\ succeeded \in Commands /\ deploys \in 0..scenario.deploys /\ faults \in 0..scenario.faults
  /\ network \in [Planes -> {"none", "partial", "full"}] /\ outputs \in [Planes -> Outputs]
  /\ ccn \subseteq Tencent /\ rules \subseteq Tencent /\ installed \subseteq Planes
  /\ workers \in [Planes -> {"none", "live", "stopping"}]
  /\ domain \in [Planes -> DomainStates] /\ records \in [Planes -> SUBSET RecordTypes]
  /\ requests \subseteq Planes /\ late \subseteq Planes
  /\ scf \subseteq ControlPlaneParts /\ tls \in {"absent", "good", "torn"}
  /\ command = "none" <=> main = "none"
  /\ main \notin {"bootstrap", "install", "planes"} =>
       \A p \in Planes : at[p] \in {"idle", "done", "failed"}

\* operations.md:117 and :208-220: a destroy that reports success has left nothing of
\* the platform, although the planes are torn down in parallel, delete each other's
\* domains and records, and the deployed system works on until its own host is reached.
\* Records remain where a request with an older snapshot wrote them after the host was
\* (plane_sync.go:109).
CleanAfterDestroy ==
  succeeded = "destroy" =>
    scf = {} /\ \A p \in Planes : Gone(p) /\ (records[p] = {} \/ p \in late)

\* destroy finds a plane's workers, its CCN attachment and its firewall rules through
\* outputs that are complete (destroy.go:67-90): whatever commands failed or were
\* interrupted before, they are there as long as one of these is.
RemainsCanBeFound ==
  \A p \in Planes : workers[p] = "live" \/ p \in ccn \cup rules => outputs[p] = "full"

\* The custom domain never outlives the DNS record, the record the function it points
\* to, nor the function its image, however deploys and destroys are broken off.
RecordPointsToFunction ==
  /\ "binding" \in scf => "record" \in scf
  /\ "record" \in scf => "function" \in scf
  /\ "function" \in scf => "image" \in scf

\* operations.md:227 has a destroy reclaim what a broken deploy has left, before the
\* next deploy: repeated, it leaves nothing.
DestroyReclaims == <>[](scf = {} /\ \A p \in Planes : Gone(p) /\ records[p] = {})

\* What destroy does reclaim: no combination of remains makes every destroy fail but the
\* partial outputs of a broken apply, and these keep no other plane, no control-plane and
\* no cloud-plane, domain or record of their own from going.
DestroyedInTheEnd ==
  <>[](/\ scf = {} /\ installed = {}
       /\ \A p \in Planes : /\ records[p] = {} /\ domain[p] = "none"
                            /\ Gone(p) \/ outputs[p] = "partial")
=============================================================================
