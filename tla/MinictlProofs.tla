----------------------------- MODULE MinictlProofs -----------------------------
(* Theorems about minictl, for all planes, providers, deploys and faults. *)
EXTENDS Minictl, TLAPS

\* Steps of a plane's destroy, by what must already be gone.
WithoutRules == {"ccn", "terraform"}
WithoutWorkers == {"rules"} \cup WithoutRules
WithoutCNAMEs == {"workers"} \cup WithoutWorkers
WithoutTXT == {"cnames"} \cup WithoutCNAMEs
WithoutDomain == {"txt"} \cup WithoutTXT
WithoutHost == {"domains", "delete"} \cup WithoutDomain
Looked == {"uninstall"} \cup WithoutHost
Destroying == {"output"} \cup Looked
Over == {"done", "failed"}

\* Where the main goroutine and the planes can be in each command.
Where ==
  /\ command = "deploy" => main \notin {"check", "planes", "none"}
  /\ command = "update" => main \notin {"build", "bootstrap", "install", "planes", "none"}
  /\ command = "destroy" => main \in {"planes"} \cup ControlPlaneParts
  /\ \A p \in Planes :
       /\ main = "bootstrap" => at[p] \in {"apply", "attach", "allow"} \cup Over
       /\ main = "install" => at[p] \in {"install"} \cup Over
       /\ main = "planes" => at[p] \in Destroying \cup Over
       /\ command = "destroy" /\ main # "planes" => at[p] \in Over
       /\ at[p] \in {"attach", "allow", "rules", "ccn"} => p \in Tencent

\* A deploy goes on with the outputs of every plane, and what it makes of a plane does
\* not outlive the plane's outputs.
OutputsPlanned ==
  /\ command = "deploy" /\ main \in ControlPlaneParts \cup {"certificates", "health", "install"}
       => \A p \in Planes : outputs[p] = "full"
  /\ \A p \in Planes :
       /\ at[p] \in {"attach", "allow"} => outputs[p] = "full"
       /\ main = "bootstrap" /\ at[p] = "done" => outputs[p] = "full"
       /\ p \in installed => outputs[p] = "full"

\* Part by part the control-plane is made and unmade.
PartsInOrder ==
  IF command = "destroy"
    THEN /\ main = "record" => "binding" \notin scf
         /\ main = "function" => "record" \notin scf
         /\ main = "image" => "function" \notin scf
    ELSE /\ main = "function" => "image" \in scf
         /\ main = "record" => "function" \in scf
         /\ main = "binding" => "record" \in scf

PlaneClean(p) == Gone(p) /\ (records[p] = {} \/ p \in late)

\* What a plane's destroy has got rid of stays away, but for records written late.
DestroyProgress ==
  \A p \in Planes :
    /\ at[p] \in Looked => out[p] = outputs[p]
    /\ at[p] = "workers" => out[p] # "none"
    /\ at[p] \in WithoutWorkers => out[p] # "partial"
    /\ at[p] \in WithoutHost => p \notin installed
    /\ at[p] = "delete" => listed[p] # {} /\ (domain[p] = "none" \/ p \in listed[p])
    /\ at[p] \in WithoutDomain /\ out[p] # "partial" => domain[p] = "none"
    /\ at[p] \in WithoutTXT => "txt" \notin records[p] \/ p \in late
    /\ at[p] \in WithoutCNAMEs => "cname" \notin records[p] \/ p \in late
    /\ at[p] \in WithoutWorkers => workers[p] # "live"
    /\ at[p] \in WithoutRules => p \notin rules
    /\ at[p] = "terraform" => p \notin ccn
    /\ command = "destroy" /\ at[p] = "done" => PlaneClean(p)

Clean == scf = {} /\ \A p \in Planes : PlaneClean(p)

\* A destroy that has just succeeded is over and has left nothing.
CleanAndIdle == succeeded = "destroy" => command = "none" /\ Clean

\* The inductive invariant.
MInv ==
  /\ MinictlTypeOK /\ Where /\ OutputsPlanned /\ PartsInOrder /\ DestroyProgress
  /\ CleanAndIdle /\ RemainsCanBeFound /\ RecordPointsToFunction

-----------------------------------------------------------------------------
USE MinictlAssumption
USE DEF IsScenario, Fault, NoFault, Proceeds, Breaks, Ends, Broken, WithoutRules,
        WithoutWorkers, WithoutCNAMEs, WithoutTXT, WithoutDomain, WithoutHost, Looked,
        Destroying, Over, ControlPlaneParts, MainSteps, PlaneSteps, Commands, DomainStates,
        RecordTypes, Outputs, Tencent, infra, lighthouse, runtime, platform, run

(* Steps of the planes and of what runs there leave the main goroutine alone. *)

MainStays == UNCHANGED <<scenario, command, e2e, main, succeeded, deploys, scf, tls>>

LEMMA PlanesLeaveMain ==
  ASSUME MInv, MainStays, command # "none"
  PROVE  PartsInOrder' /\ CleanAndIdle' /\ RecordPointsToFunction'
BY DEF MInv, MainStays, PartsInOrder, CleanAndIdle, RecordPointsToFunction

(* One lemma per step of a plane. *)

LEMMA ApplyInv ==
  ASSUME MInv, NEW p \in Planes, apply(p)
  PROVE  MInv'
<1> USE DEF MInv, apply
<1>1. MinictlTypeOK'
  BY DEF MinictlTypeOK, Where
<1>2. Where' /\ OutputsPlanned' /\ RemainsCanBeFound'
  BY DEF MinictlTypeOK, Where, OutputsPlanned,
         RemainsCanBeFound, DestroyProgress
<1>3. DestroyProgress'
  BY DEF MinictlTypeOK, Where, OutputsPlanned,
         RemainsCanBeFound, DestroyProgress, PlaneClean, Gone
<1>4. MainStays /\ command # "none"
  BY DEF MinictlTypeOK, Where, MainStays
<1> QED
  BY <1>1, <1>2, <1>3, <1>4, PlanesLeaveMain

LEMMA AttachLighthouseCCNInv ==
  ASSUME MInv, NEW p \in Planes, attachLighthouseCCN(p)
  PROVE  MInv'
<1> USE DEF MInv, attachLighthouseCCN
<1>1. MinictlTypeOK'
  BY DEF MinictlTypeOK, Where
<1>2. Where' /\ OutputsPlanned' /\ RemainsCanBeFound'
  BY DEF MinictlTypeOK, Where, OutputsPlanned,
         RemainsCanBeFound, DestroyProgress
<1>3. DestroyProgress'
  BY DEF MinictlTypeOK, Where, OutputsPlanned,
         RemainsCanBeFound, DestroyProgress, PlaneClean, Gone
<1>4. MainStays /\ command # "none"
  BY DEF MinictlTypeOK, Where, MainStays
<1> QED
  BY <1>1, <1>2, <1>3, <1>4, PlanesLeaveMain

LEMMA EnsureLighthouseFirewallRulesInv ==
  ASSUME MInv, NEW p \in Planes, ensureLighthouseFirewallRules(p)
  PROVE  MInv'
<1> USE DEF MInv, ensureLighthouseFirewallRules
<1>1. MinictlTypeOK'
  BY DEF MinictlTypeOK, Where
<1>2. Where' /\ OutputsPlanned' /\ RemainsCanBeFound'
  BY DEF MinictlTypeOK, Where, OutputsPlanned,
         RemainsCanBeFound, DestroyProgress
<1>3. DestroyProgress'
  BY DEF MinictlTypeOK, Where, OutputsPlanned,
         RemainsCanBeFound, DestroyProgress, PlaneClean, Gone
<1>4. MainStays /\ command # "none"
  BY DEF MinictlTypeOK, Where, MainStays
<1> QED
  BY <1>1, <1>2, <1>3, <1>4, PlanesLeaveMain

LEMMA InstallCloudPlaneInv ==
  ASSUME MInv, NEW p \in Planes, installCloudPlane(p)
  PROVE  MInv'
<1> USE DEF MInv, installCloudPlane
<1>1. MinictlTypeOK'
  BY DEF MinictlTypeOK, Where
<1>2. Where' /\ OutputsPlanned' /\ RemainsCanBeFound'
  BY DEF MinictlTypeOK, Where, OutputsPlanned,
         RemainsCanBeFound, DestroyProgress
<1>3. DestroyProgress'
  BY DEF MinictlTypeOK, Where, OutputsPlanned,
         RemainsCanBeFound, DestroyProgress, PlaneClean, Gone
<1>4. MainStays /\ command # "none"
  BY DEF MinictlTypeOK, Where, MainStays
<1> QED
  BY <1>1, <1>2, <1>3, <1>4, PlanesLeaveMain

LEMMA TryTerraformOutputInv ==
  ASSUME MInv, NEW p \in Planes, tryTerraformOutput(p)
  PROVE  MInv'
<1> USE DEF MInv, tryTerraformOutput
<1>1. MinictlTypeOK'
  BY DEF RunsOn, MinictlTypeOK, Where
<1>2. Where' /\ OutputsPlanned' /\ RemainsCanBeFound'
  BY DEF RunsOn, MinictlTypeOK, Where, OutputsPlanned,
         RemainsCanBeFound, DestroyProgress
<1>3. DestroyProgress'
  BY DEF RunsOn, MinictlTypeOK, Where, OutputsPlanned,
         RemainsCanBeFound, DestroyProgress, PlaneClean, Gone
<1>4. MainStays /\ command # "none"
  BY DEF RunsOn, MinictlTypeOK, Where, MainStays
<1> QED
  BY <1>1, <1>2, <1>3, <1>4, PlanesLeaveMain

LEMMA UninstallCloudPlaneInv ==
  ASSUME MInv, NEW p \in Planes, uninstallCloudPlane(p)
  PROVE  MInv'
<1> USE DEF MInv, uninstallCloudPlane
<1>1. MinictlTypeOK'
  BY DEF Uninstalled, AfterUninstall, MinictlTypeOK, Where
<1>2. Where' /\ OutputsPlanned' /\ RemainsCanBeFound'
  BY DEF Uninstalled, AfterUninstall, MinictlTypeOK, Where, OutputsPlanned,
         RemainsCanBeFound, DestroyProgress
<1>3. DestroyProgress'
  BY DEF Uninstalled, AfterUninstall, MinictlTypeOK, Where, OutputsPlanned,
         RemainsCanBeFound, DestroyProgress, PlaneClean, Gone
<1>4. MainStays /\ command # "none"
  BY DEF Uninstalled, AfterUninstall, MinictlTypeOK, Where, MainStays
<1> QED
  BY <1>1, <1>2, <1>3, <1>4, PlanesLeaveMain

LEMMA DeleteServiceFrontDoorsInv ==
  ASSUME MInv, NEW p \in Planes, deleteServiceFrontDoors(p)
  PROVE  MInv'
<1> USE DEF MInv, deleteServiceFrontDoors
<1>1. MinictlTypeOK'
  BY DEF RunsOn, SameProvider, MinictlTypeOK, Where
<1>2. Where' /\ OutputsPlanned' /\ RemainsCanBeFound'
  BY DEF RunsOn, SameProvider, MinictlTypeOK, Where, OutputsPlanned,
         RemainsCanBeFound, DestroyProgress
<1>3. DestroyProgress'
  BY DEF RunsOn, SameProvider, MinictlTypeOK, Where, OutputsPlanned,
         RemainsCanBeFound, DestroyProgress, PlaneClean, Gone
<1>4. MainStays /\ command # "none"
  BY DEF RunsOn, SameProvider, MinictlTypeOK, Where, MainStays
<1> QED
  BY <1>1, <1>2, <1>3, <1>4, PlanesLeaveMain

LEMMA DeleteAliyunCDNDomainInv ==
  ASSUME MInv, NEW p \in Planes, NEW q \in Planes, deleteAliyunCDNDomain(p, q)
  PROVE  MInv'
<1> USE DEF MInv, deleteAliyunCDNDomain
<1>1. MinictlTypeOK'
  BY DEF Deleted, DomainsOnly, RunsOn, Lowered, MinictlTypeOK, Where
<1>2. Where' /\ OutputsPlanned' /\ RemainsCanBeFound'
  BY DEF Deleted, DomainsOnly, RunsOn, Lowered, MinictlTypeOK, Where, OutputsPlanned,
         RemainsCanBeFound, DestroyProgress
<1>3. DestroyProgress'
  BY DEF Deleted, DomainsOnly, RunsOn, Lowered, MinictlTypeOK, Where, OutputsPlanned,
         RemainsCanBeFound, DestroyProgress, PlaneClean, Gone
<1>4. MainStays /\ command # "none"
  BY DEF Deleted, DomainsOnly, RunsOn, Lowered, MinictlTypeOK, Where, MainStays
<1> QED
  BY <1>1, <1>2, <1>3, <1>4, PlanesLeaveMain

LEMMA DeleteTimedOutInv ==
  ASSUME MInv, NEW p \in Planes, deleteTimedOut(p)
  PROVE  MInv'
<1> USE DEF MInv, deleteTimedOut
<1>1. MinictlTypeOK'
  BY DEF DomainsOnly, RunsOn, MinictlTypeOK, Where
<1>2. Where' /\ OutputsPlanned' /\ RemainsCanBeFound'
  BY DEF DomainsOnly, RunsOn, MinictlTypeOK, Where, OutputsPlanned,
         RemainsCanBeFound, DestroyProgress
<1>3. DestroyProgress'
  BY DEF DomainsOnly, RunsOn, MinictlTypeOK, Where, OutputsPlanned,
         RemainsCanBeFound, DestroyProgress, PlaneClean, Gone
<1>4. MainStays /\ command # "none"
  BY DEF DomainsOnly, RunsOn, MinictlTypeOK, Where, MainStays
<1> QED
  BY <1>1, <1>2, <1>3, <1>4, PlanesLeaveMain

LEMMA DeleteTencentCDNDomainInv ==
  ASSUME MInv, NEW p \in Planes, NEW q \in Planes, deleteTencentCDNDomain(p, q)
  PROVE  MInv'
<1> USE DEF MInv, deleteTencentCDNDomain
<1>1. MinictlTypeOK'
  BY DEF Deleted, DomainsOnly, RunsOn, Lowered, MinictlTypeOK, Where
<1>2. Where' /\ OutputsPlanned' /\ RemainsCanBeFound'
  BY DEF Deleted, DomainsOnly, RunsOn, Lowered, MinictlTypeOK, Where, OutputsPlanned,
         RemainsCanBeFound, DestroyProgress
<1>3. DestroyProgress'
  BY DEF Deleted, DomainsOnly, RunsOn, Lowered, MinictlTypeOK, Where, OutputsPlanned,
         RemainsCanBeFound, DestroyProgress, PlaneClean, Gone
<1>4. MainStays /\ command # "none"
  BY DEF Deleted, DomainsOnly, RunsOn, Lowered, MinictlTypeOK, Where, MainStays
<1> QED
  BY <1>1, <1>2, <1>3, <1>4, PlanesLeaveMain

LEMMA DeleteVerifyTXTRecordInv ==
  ASSUME MInv, NEW p \in Planes, deleteVerifyTXTRecord(p)
  PROVE  MInv'
<1> USE DEF MInv, deleteVerifyTXTRecord
<1>1. MinictlTypeOK'
  BY DEF Without, SameProvider, RecordsOnly, MinictlTypeOK, Where
<1>2. Where' /\ OutputsPlanned' /\ RemainsCanBeFound'
  BY DEF Without, SameProvider, RecordsOnly, MinictlTypeOK, Where, OutputsPlanned,
         RemainsCanBeFound, DestroyProgress
<1>3. DestroyProgress'
  BY DEF Without, SameProvider, RecordsOnly, MinictlTypeOK, Where, OutputsPlanned,
         RemainsCanBeFound, DestroyProgress, PlaneClean, Gone
<1>4. MainStays /\ command # "none"
  BY DEF Without, SameProvider, RecordsOnly, MinictlTypeOK, Where, MainStays
<1> QED
  BY <1>1, <1>2, <1>3, <1>4, PlanesLeaveMain

LEMMA DeleteDNSPodCNAMERecordsInv ==
  ASSUME MInv, NEW p \in Planes, deleteDNSPodCNAMERecords(p)
  PROVE  MInv'
<1> USE DEF MInv, deleteDNSPodCNAMERecords
<1>1. MinictlTypeOK'
  BY DEF Without, SameProvider, RecordsOnly, MinictlTypeOK, Where
<1>2. Where' /\ OutputsPlanned' /\ RemainsCanBeFound'
  BY DEF Without, SameProvider, RecordsOnly, MinictlTypeOK, Where, OutputsPlanned,
         RemainsCanBeFound, DestroyProgress
<1>3. DestroyProgress'
  BY DEF Without, SameProvider, RecordsOnly, MinictlTypeOK, Where, OutputsPlanned,
         RemainsCanBeFound, DestroyProgress, PlaneClean, Gone
<1>4. MainStays /\ command # "none"
  BY DEF Without, SameProvider, RecordsOnly, MinictlTypeOK, Where, MainStays
<1> QED
  BY <1>1, <1>2, <1>3, <1>4, PlanesLeaveMain

LEMMA DeleteAliyunWorkerNodesInv ==
  ASSUME MInv, NEW p \in Planes, deleteAliyunWorkerNodes(p)
  PROVE  MInv'
<1> USE DEF MInv, deleteAliyunWorkerNodes
<1>1. MinictlTypeOK'
  BY DEF StopWorkers, AfterWorkers, WorkersOnly, MinictlTypeOK, Where
<1>2. Where' /\ OutputsPlanned' /\ RemainsCanBeFound'
  BY DEF StopWorkers, AfterWorkers, WorkersOnly, MinictlTypeOK, Where, OutputsPlanned,
         RemainsCanBeFound, DestroyProgress
<1>3. DestroyProgress'
  BY DEF StopWorkers, AfterWorkers, WorkersOnly, MinictlTypeOK, Where, OutputsPlanned,
         RemainsCanBeFound, DestroyProgress, PlaneClean, Gone
<1>4. MainStays /\ command # "none"
  BY DEF StopWorkers, AfterWorkers, WorkersOnly, MinictlTypeOK, Where, MainStays
<1> QED
  BY <1>1, <1>2, <1>3, <1>4, PlanesLeaveMain

LEMMA DeleteTencentWorkerNodesInv ==
  ASSUME MInv, NEW p \in Planes, deleteTencentWorkerNodes(p)
  PROVE  MInv'
<1> USE DEF MInv, deleteTencentWorkerNodes
<1>1. MinictlTypeOK'
  BY DEF StopWorkers, AfterWorkers, WorkersOnly, MinictlTypeOK, Where
<1>2. Where' /\ OutputsPlanned' /\ RemainsCanBeFound'
  BY DEF StopWorkers, AfterWorkers, WorkersOnly, MinictlTypeOK, Where, OutputsPlanned,
         RemainsCanBeFound, DestroyProgress
<1>3. DestroyProgress'
  BY DEF StopWorkers, AfterWorkers, WorkersOnly, MinictlTypeOK, Where, OutputsPlanned,
         RemainsCanBeFound, DestroyProgress, PlaneClean, Gone
<1>4. MainStays /\ command # "none"
  BY DEF StopWorkers, AfterWorkers, WorkersOnly, MinictlTypeOK, Where, MainStays
<1> QED
  BY <1>1, <1>2, <1>3, <1>4, PlanesLeaveMain

LEMMA WorkerNodesWithoutRegionInv ==
  ASSUME MInv, NEW p \in Planes, workerNodesWithoutRegion(p)
  PROVE  MInv'
<1> USE DEF MInv, workerNodesWithoutRegion
<1>1. MinictlTypeOK'
  BY DEF WorkersOnly, MinictlTypeOK, Where
<1>2. Where' /\ OutputsPlanned' /\ RemainsCanBeFound'
  BY DEF WorkersOnly, MinictlTypeOK, Where, OutputsPlanned,
         RemainsCanBeFound, DestroyProgress
<1>3. DestroyProgress'
  BY DEF WorkersOnly, MinictlTypeOK, Where, OutputsPlanned,
         RemainsCanBeFound, DestroyProgress, PlaneClean, Gone
<1>4. MainStays /\ command # "none"
  BY DEF WorkersOnly, MinictlTypeOK, Where, MainStays
<1> QED
  BY <1>1, <1>2, <1>3, <1>4, PlanesLeaveMain

LEMMA DeleteLighthouseFirewallRulesInv ==
  ASSUME MInv, NEW p \in Planes, deleteLighthouseFirewallRules(p)
  PROVE  MInv'
<1> USE DEF MInv, deleteLighthouseFirewallRules
<1>1. MinictlTypeOK'
  BY DEF MinictlTypeOK, Where
<1>2. Where' /\ OutputsPlanned' /\ RemainsCanBeFound'
  BY DEF MinictlTypeOK, Where, OutputsPlanned,
         RemainsCanBeFound, DestroyProgress
<1>3. DestroyProgress'
  BY DEF MinictlTypeOK, Where, OutputsPlanned,
         RemainsCanBeFound, DestroyProgress, PlaneClean, Gone
<1>4. MainStays /\ command # "none"
  BY DEF MinictlTypeOK, Where, MainStays
<1> QED
  BY <1>1, <1>2, <1>3, <1>4, PlanesLeaveMain

LEMMA DetachLighthouseCCNInv ==
  ASSUME MInv, NEW p \in Planes, detachLighthouseCCN(p)
  PROVE  MInv'
<1> USE DEF MInv, detachLighthouseCCN
<1>1. MinictlTypeOK'
  BY DEF MinictlTypeOK, Where
<1>2. Where' /\ OutputsPlanned' /\ RemainsCanBeFound'
  BY DEF MinictlTypeOK, Where, OutputsPlanned,
         RemainsCanBeFound, DestroyProgress
<1>3. DestroyProgress'
  BY DEF MinictlTypeOK, Where, OutputsPlanned,
         RemainsCanBeFound, DestroyProgress, PlaneClean, Gone
<1>4. MainStays /\ command # "none"
  BY DEF MinictlTypeOK, Where, MainStays
<1> QED
  BY <1>1, <1>2, <1>3, <1>4, PlanesLeaveMain

LEMMA TerraformDestroyInv ==
  ASSUME MInv, NEW p \in Planes, terraformDestroy(p)
  PROVE  MInv'
<1> USE DEF MInv, terraformDestroy
<1>1. MinictlTypeOK'
  BY DEF MinictlTypeOK, Where
<1>2. Where' /\ OutputsPlanned' /\ RemainsCanBeFound'
  BY DEF MinictlTypeOK, Where, OutputsPlanned,
         RemainsCanBeFound, DestroyProgress
<1>3. DestroyProgress'
  BY DEF MinictlTypeOK, Where, OutputsPlanned,
         RemainsCanBeFound, DestroyProgress, PlaneClean, Gone
<1>4. MainStays /\ command # "none"
  BY DEF MinictlTypeOK, Where, MainStays
<1> QED
  BY <1>1, <1>2, <1>3, <1>4, PlanesLeaveMain

(* What runs on a plane: nothing, once minictl reports it clean, but a late request. *)

LEMMA WorkersChangeInv ==
  ASSUME MInv, NEW p \in Planes, WorkersChange(p)
  PROVE  MInv'
<1> USE DEF MInv, WorkersChange
<1>1. MinictlTypeOK' /\ Where' /\ OutputsPlanned' /\ RemainsCanBeFound'
  BY DEF WorkersOnly, MinictlTypeOK, Where, OutputsPlanned, RemainsCanBeFound
<1>2. DestroyProgress' /\ CleanAndIdle'
  BY DEF WorkersOnly, MinictlTypeOK, DestroyProgress, PlaneClean, Gone,
         CleanAndIdle, Clean
<1>3. PartsInOrder' /\ RecordPointsToFunction'
  BY DEF WorkersOnly, PartsInOrder, RecordPointsToFunction
<1> QED
  BY <1>1, <1>2, <1>3

LEMMA WorkersReleasedInv ==
  ASSUME MInv, NEW p \in Planes, WorkersReleased(p)
  PROVE  MInv'
<1> USE DEF MInv, WorkersReleased
<1>1. MinictlTypeOK' /\ Where' /\ OutputsPlanned' /\ RemainsCanBeFound'
  BY DEF WorkersOnly, MinictlTypeOK, Where, OutputsPlanned, RemainsCanBeFound
<1>2. DestroyProgress' /\ CleanAndIdle'
  BY DEF WorkersOnly, MinictlTypeOK, DestroyProgress, PlaneClean, Gone,
         CleanAndIdle, Clean
<1>3. PartsInOrder' /\ RecordPointsToFunction'
  BY DEF WorkersOnly, PartsInOrder, RecordPointsToFunction
<1> QED
  BY <1>1, <1>2, <1>3

LEMMA DomainChangesInv ==
  ASSUME MInv, NEW p \in Planes, DomainChanges(p)
  PROVE  MInv'
<1> USE DEF MInv, DomainChanges
<1>1. MinictlTypeOK' /\ Where' /\ OutputsPlanned' /\ RemainsCanBeFound'
  BY DEF DomainsOnly, RunsOn, MinictlTypeOK, Where, OutputsPlanned, RemainsCanBeFound
<1>2. DestroyProgress' /\ CleanAndIdle'
  BY DEF DomainsOnly, RunsOn, MinictlTypeOK, DestroyProgress, PlaneClean, Gone,
         CleanAndIdle, Clean
<1>3. PartsInOrder' /\ RecordPointsToFunction'
  BY DEF DomainsOnly, RunsOn, PartsInOrder, RecordPointsToFunction
<1> QED
  BY <1>1, <1>2, <1>3

LEMMA LoadSnapshotInv ==
  ASSUME MInv, NEW p \in Planes, loadSnapshot(p)
  PROVE  MInv'
<1> USE DEF MInv, loadSnapshot
<1>1. MinictlTypeOK' /\ Where' /\ OutputsPlanned' /\ RemainsCanBeFound'
  BY DEF MinictlTypeOK, Where, OutputsPlanned, RemainsCanBeFound
<1>2. DestroyProgress' /\ CleanAndIdle'
  BY DEF MinictlTypeOK, DestroyProgress, PlaneClean, Gone,
         CleanAndIdle, Clean
<1>3. PartsInOrder' /\ RecordPointsToFunction'
  BY DEF PartsInOrder, RecordPointsToFunction
<1> QED
  BY <1>1, <1>2, <1>3

LEMMA SyncFrontDoorDNSInv ==
  ASSUME MInv, NEW p \in Planes, syncFrontDoorDNS(p)
  PROVE  MInv'
<1> USE DEF MInv
<1>1. MinictlTypeOK' /\ Where' /\ OutputsPlanned' /\ RemainsCanBeFound'
  BY DEF syncFrontDoorDNS, MinictlTypeOK, Where, OutputsPlanned, RemainsCanBeFound
<1>2. /\ late \subseteq late' /\ \A q \in Planes : q # p => records'[q] = records[q]
      /\ p \in installed \/ p \in late' \/ records'[p] \subseteq records[p]
  <2>1. PICK r \in SUBSET RecordTypes :
          /\ records' = [records EXCEPT ![p] = r]
          /\ late' = IF p \in installed \/ r \subseteq records[p] THEN late ELSE late \cup {p}
    BY Zenon DEF syncFrontDoorDNS
  <2>2. records'[p] = r /\ \A q \in Planes : q # p => records'[q] = records[q]
    BY <2>1 DEF MinictlTypeOK
  <2> QED
    BY <2>1, <2>2
<1>3. UNCHANGED <<run, at, infra, lighthouse, installed, workers, domain, platform>>
  BY DEF syncFrontDoorDNS
<1>4. \A q \in Planes : PlaneClean(q) => PlaneClean(q)'
  BY <1>2, <1>3 DEF PlaneClean, Gone
<1>5. ASSUME NEW q \in Planes, at[q] \in WithoutHost, NEW x,
             x \notin records[q] \/ q \in late
      PROVE  x \notin records'[q] \/ q \in late'
  <2>1. q \notin installed
    BY <1>5 DEF DestroyProgress
  <2> QED
    BY <1>2, <1>5, <2>1
<1>6. DestroyProgress'
  BY <1>3, <1>4, <1>5 DEF DestroyProgress
<1>7. CleanAndIdle' /\ PartsInOrder' /\ RecordPointsToFunction'
  BY <1>3, <1>4 DEF CleanAndIdle, Clean, PartsInOrder, RecordPointsToFunction
<1> QED
  BY <1>1, <1>6, <1>7

-----------------------------------------------------------------------------
(* The main goroutine. *)

\* What every end of a command has in common.
PlanesStay == UNCHANGED <<infra, lighthouse, installed, runtime>>

LEMMA EndInv ==
  ASSUME MInv, NEW ok, End(ok), PlanesStay, main # "none",
         faults' \in 0..scenario.faults, tls' \in {"absent", "good", "torn"},
         scf' \subseteq ControlPlaneParts, RecordPointsToFunction',
         ok /\ command = "destroy" => Clean'
  PROVE  MInv'
<1> USE DEF MInv
<1> DEFINE next == FollowUp(ok)
<1>1. next \in Commands /\ (command = "destroy" => next = "none")
  BY DEF FollowUp
<1>2. command' = next /\ main' = FirstMain(next)
      /\ out' = [p \in Planes |-> "none"] /\ listed' = [p \in Planes |-> {}]
      /\ at' = [p \in Planes |-> FirstStep(next)] /\ UNCHANGED <<scenario, deploys>>
      /\ succeeded' = IF ok THEN command ELSE "none"
  BY DEF End, Begin
<1>3. e2e' \in BOOLEAN
  BY DEF End
<1>4. MinictlTypeOK'
  BY <1>1, <1>2, <1>3 DEF MinictlTypeOK, FirstMain, FirstStep, PlanesStay
<1>5. Where' /\ PartsInOrder'
  BY <1>1, <1>2 DEF Where, PartsInOrder, FirstMain, FirstStep
<1>6. OutputsPlanned' /\ RemainsCanBeFound'
  BY <1>1, <1>2 DEF OutputsPlanned, RemainsCanBeFound, FirstMain, FirstStep, PlanesStay
<1>7. DestroyProgress'
  BY <1>1, <1>2 DEF DestroyProgress, FirstStep
<1>8. CleanAndIdle'
  BY <1>1, <1>2 DEF CleanAndIdle, MinictlTypeOK
<1> QED
  BY <1>4, <1>5, <1>6, <1>7, <1>8

\* A step that fails, and the infrastructure stays as it is.
LEMMA FailureInv ==
  ASSUME MInv, MainFails, PlanesStay, main # "none", tls' \in {"absent", "good", "torn"},
         scf' \subseteq ControlPlaneParts, RecordPointsToFunction'
  PROVE  MInv'
<1>1. End(FALSE)
  BY DEF MainFails
<1>2. faults' \in 0..scenario.faults
  BY DEF MainFails, MInv, MinictlTypeOK
<1> QED
  BY <1>1, <1>2, EndInv


LEMMA BuildInv ==
  ASSUME MInv, build
  PROVE  MInv'
<1>1. CASE MainFails
  BY <1>1, FailureInv DEF MInv, build, MinictlTypeOK, PlanesStay, RecordPointsToFunction
<1>2. CASE ~MainFails
  <2> USE DEF MInv
  <2>1. MinictlTypeOK' /\ Where' /\ OutputsPlanned' /\ RemainsCanBeFound'
    BY <1>2 DEF build, Planewise, MinictlTypeOK, Where, OutputsPlanned, RemainsCanBeFound
  <2>2. PartsInOrder' /\ DestroyProgress' /\ CleanAndIdle' /\ RecordPointsToFunction'
    BY <1>2 DEF build, Planewise, MinictlTypeOK, Where, PartsInOrder, DestroyProgress, CleanAndIdle,
                RecordPointsToFunction
  <2> QED
    BY <2>1, <2>2
<1> QED
  BY <1>1, <1>2

LEMMA CheckInv ==
  ASSUME MInv, check
  PROVE  MInv'
<1>1. CASE MainFails
  BY <1>1, FailureInv DEF MInv, check, MinictlTypeOK, PlanesStay, RecordPointsToFunction
<1>2. CASE MainTo("certificates") /\ NoFault
  <2> USE DEF MInv
  <2>1. MinictlTypeOK' /\ Where' /\ OutputsPlanned' /\ RemainsCanBeFound'
    BY <1>2 DEF check, MainTo, MinictlTypeOK, Where, OutputsPlanned, RemainsCanBeFound
  <2>2. PartsInOrder' /\ DestroyProgress' /\ CleanAndIdle' /\ RecordPointsToFunction'
    BY <1>2 DEF check, MainTo, MinictlTypeOK, Where, PartsInOrder, DestroyProgress,
                PlaneClean, Gone, CleanAndIdle, RecordPointsToFunction
  <2> QED
    BY <2>1, <2>2
<1> QED
  BY <1>1, <1>2 DEF check

LEMMA BootstrapInv ==
  ASSUME MInv, bootstrap
  PROVE  MInv'
<1>1. CASE PlaneErr
  <2>1. End(FALSE) /\ main # "none"
    BY <1>1 DEF bootstrap
  <2> QED
    BY <2>1, EndInv DEF MInv, bootstrap, MinictlTypeOK, PlanesStay, RecordPointsToFunction
<1>2. CASE ~PlaneErr
  <2> USE DEF MInv
  <2>1. MinictlTypeOK' /\ Where' /\ OutputsPlanned' /\ RemainsCanBeFound'
    BY <1>2 DEF bootstrap, Waited, PlaneErr, MainTo, MinictlTypeOK, Where, OutputsPlanned,
                RemainsCanBeFound
  <2>2. PartsInOrder' /\ DestroyProgress' /\ CleanAndIdle' /\ RecordPointsToFunction'
    BY <1>2 DEF bootstrap, MainTo, MinictlTypeOK, Where, PartsInOrder, DestroyProgress,
                PlaneClean, Gone, CleanAndIdle, RecordPointsToFunction
  <2> QED
    BY <2>1, <2>2
<1> QED
  BY <1>1, <1>2

LEMMA LoadCertificateBundleInv ==
  ASSUME MInv, loadCertificateBundle
  PROVE  MInv'
<1> USE DEF MInv
<1>1. /\ PlanesStay /\ main = "certificates" /\ UNCHANGED scf
      /\ tls' \in {"absent", "good", "torn"}
  BY DEF loadCertificateBundle, MinictlTypeOK, PlanesStay
<1>2. scf' \subseteq ControlPlaneParts /\ RecordPointsToFunction' /\ faults \in 0..scenario.faults
  BY <1>1 DEF MinictlTypeOK, RecordPointsToFunction
<1>3. CASE MainFails
  BY <1>1, <1>2, <1>3, FailureInv
<1>4. CASE End(FALSE) /\ NoFault
  BY <1>1, <1>2, <1>4, EndInv
<1>5. CASE MainTo("image") /\ NoFault
  <2>1. MinictlTypeOK' /\ Where' /\ OutputsPlanned' /\ RemainsCanBeFound'
    BY <1>1, <1>5 DEF MainTo, PlanesStay, MinictlTypeOK,
                      Where, OutputsPlanned, RemainsCanBeFound
  <2>2. PartsInOrder' /\ DestroyProgress' /\ CleanAndIdle'
    BY <1>1, <1>5 DEF MainTo, PlanesStay, MinictlTypeOK, Where, PartsInOrder,
                      DestroyProgress, PlaneClean, Gone, CleanAndIdle
  <2> QED
    BY <1>2, <2>1, <2>2
<1> QED
  BY <1>3, <1>4, <1>5 DEF loadCertificateBundle

\* A call of a deploy or an update that makes one part of the control-plane.
LEMMA EnsureInv ==
  ASSUME MInv, NEW part \in ControlPlaneParts, NEW next, Ensure(part, next),
         \/ part = "image" /\ main = "image" /\ next = "function"
         \/ part = "function" /\ main = "function" /\ next = "record"
         \/ part = "record" /\ main = "record" /\ next = "binding"
         \/ part = "binding" /\ main = "binding" /\ next = "health"
  PROVE  MInv'
<1> USE DEF MInv
<1>1. /\ PlanesStay /\ command \in {"deploy", "update"} /\ UNCHANGED tls
      /\ scf' \in {scf, scf \cup {part}}
  BY DEF Ensure, Call, PlanesStay, MinictlTypeOK, Where
<1>2. scf' \subseteq ControlPlaneParts /\ tls' \in {"absent", "good", "torn"}
  BY <1>1 DEF MinictlTypeOK
<1>3. RecordPointsToFunction'
  BY <1>1 DEF RecordPointsToFunction, PartsInOrder
<1>4. CASE MainFails
  BY <1>1, <1>2, <1>3, <1>4, FailureInv
<1>5. CASE MainTo(next) /\ NoFault /\ scf' = scf \cup {part}
  <2>1. MinictlTypeOK' /\ Where' /\ OutputsPlanned' /\ RemainsCanBeFound'
    BY <1>1, <1>2, <1>5 DEF MainTo, PlanesStay, MinictlTypeOK, Where, OutputsPlanned,
                            RemainsCanBeFound
  <2>2. PartsInOrder' /\ DestroyProgress' /\ CleanAndIdle'
    BY <1>1, <1>5 DEF MainTo, PlanesStay, MinictlTypeOK, Where, PartsInOrder,
                      DestroyProgress, PlaneClean, Gone, CleanAndIdle
  <2> QED
    BY <1>3, <2>1, <2>2
<1> QED
  BY <1>4, <1>5 DEF Ensure, Call

LEMMA WaitForControlPlaneSCFInv ==
  ASSUME MInv, waitForControlPlaneSCF
  PROVE  MInv'
<1> USE DEF MInv
<1>1. PlanesStay /\ main = "health" /\ UNCHANGED <<scf, tls>>
  BY DEF waitForControlPlaneSCF, PlanesStay
<1>2. /\ scf' \subseteq ControlPlaneParts /\ tls' \in {"absent", "good", "torn"}
      /\ RecordPointsToFunction' /\ faults \in 0..scenario.faults
  BY <1>1 DEF MinictlTypeOK, RecordPointsToFunction
<1>3. CASE MainFails
  BY <1>1, <1>2, <1>3, FailureInv
<1>4. CASE command = "update" /\ End(TRUE) /\ NoFault
  BY <1>1, <1>2, <1>4, EndInv
<1>5. CASE command = "deploy" /\ Planewise("install", "install") /\ NoFault
  <2>1. MinictlTypeOK' /\ Where' /\ OutputsPlanned' /\ RemainsCanBeFound'
    BY <1>1, <1>2, <1>5 DEF Planewise, PlanesStay, MinictlTypeOK, Where, OutputsPlanned,
                            RemainsCanBeFound
  <2>2. PartsInOrder' /\ DestroyProgress' /\ CleanAndIdle'
    BY <1>1, <1>5 DEF Planewise, PlanesStay, MinictlTypeOK, PartsInOrder, DestroyProgress,
                      CleanAndIdle
  <2> QED
    BY <1>2, <2>1, <2>2
<1> QED
  BY <1>3, <1>4, <1>5 DEF waitForControlPlaneSCF

LEMMA InstallInv ==
  ASSUME MInv, install
  PROVE  MInv'
<1> USE DEF MInv
<1>1. /\ PlanesStay /\ End(~PlaneErr) /\ main = "install" /\ command = "deploy"
      /\ UNCHANGED <<scf, tls, faults>>
  BY DEF install, PlanesStay, MinictlTypeOK, Where
<1>2. /\ scf' \subseteq ControlPlaneParts /\ tls' \in {"absent", "good", "torn"}
      /\ RecordPointsToFunction' /\ faults' \in 0..scenario.faults
  BY <1>1 DEF MinictlTypeOK, RecordPointsToFunction
<1> QED
  BY <1>1, <1>2, EndInv

LEMMA DestroyPlanesInv ==
  ASSUME MInv, destroyPlanes
  PROVE  MInv'
<1> USE DEF MInv
<1>1. MinictlTypeOK' /\ Where' /\ OutputsPlanned' /\ RemainsCanBeFound'
  BY DEF destroyPlanes, Waited, MainTo, MinictlTypeOK, Where, OutputsPlanned, RemainsCanBeFound
<1>2. PartsInOrder' /\ DestroyProgress' /\ CleanAndIdle' /\ RecordPointsToFunction'
  BY DEF destroyPlanes, MainTo, MinictlTypeOK, Where, PartsInOrder, DestroyProgress,
         PlaneClean, Gone, CleanAndIdle, RecordPointsToFunction
<1> QED
  BY <1>1, <1>2

LEMMA UninstallControlPlaneInv ==
  ASSUME MInv, NEW i \in 1..4, uninstallControlPlane(i)
  PROVE  MInv'
<1> USE DEF MInv
<1> DEFINE part == UninstallOrder[i]
           step == <<"binding", "record", "function", "image", "none">>
           next == step[i + 1]
<1>1. /\ part \in ControlPlaneParts /\ main = part
      /\ \/ part = "binding" /\ next = "record"
         \/ part = "record" /\ next = "function"
         \/ part = "function" /\ next = "image"
         \/ part = "image" /\ next = "none"
  <2>1. i = 1 \/ i = 2 \/ i = 3 \/ i = 4
    OBVIOUS
  <2> QED
    BY <2>1 DEF uninstallControlPlane, Call, UninstallOrder
<1>2. command = "destroy" /\ Call(main, next, scf \ {main})
  BY <1>1 DEF uninstallControlPlane, UninstallOrder
<1> HIDE DEF part, next
<1>3. PlanesStay /\ UNCHANGED tls /\ scf' \in {scf, scf \ {main}}
  BY <1>2 DEF Call, PlanesStay
<1>4. scf' \subseteq ControlPlaneParts /\ tls' \in {"absent", "good", "torn"}
  BY <1>3 DEF MinictlTypeOK
<1>5. RecordPointsToFunction'
  BY <1>1, <1>2, <1>3 DEF RecordPointsToFunction, PartsInOrder
<1>6. CASE MainFails
  BY <1>1, <1>3, <1>4, <1>5, <1>6, FailureInv
<1>7. CASE next # "none" /\ MainTo(next) /\ NoFault /\ scf' = scf \ {main}
  <2>1. MinictlTypeOK' /\ Where' /\ OutputsPlanned' /\ RemainsCanBeFound'
    BY <1>1, <1>2, <1>3, <1>4, <1>7 DEF MainTo, PlanesStay, MinictlTypeOK, Where,
       OutputsPlanned, RemainsCanBeFound
  <2>2. PartsInOrder' /\ DestroyProgress' /\ CleanAndIdle'
    BY <1>1, <1>2, <1>3, <1>7 DEF MainTo, PlanesStay, MinictlTypeOK, PartsInOrder,
       DestroyProgress, PlaneClean, Gone, CleanAndIdle
  <2> QED
    BY <1>5, <2>1, <2>2
<1>8. CASE next = "none" /\ End(~PlaneErr) /\ NoFault /\ scf' = scf \ {main}
  <2>1. scf' = {}
    BY <1>1, <1>2, <1>8 DEF PartsInOrder, RecordPointsToFunction, MinictlTypeOK
  <2>2. ~PlaneErr => \A p \in Planes : PlaneClean(p)
    BY <1>1, <1>2 DEF PlaneErr, Where, DestroyProgress
  <2>3. ~PlaneErr => Clean'
    BY <1>3, <2>1, <2>2 DEF PlanesStay, PlaneClean, Gone, Clean, MinictlTypeOK
  <2>4. faults' \in 0..scenario.faults
    BY <1>8 DEF MinictlTypeOK
  <2> QED
    BY <1>1, <1>3, <1>4, <1>5, <1>8, <2>3, <2>4, EndInv
<1> QED
  BY <1>2, <1>6, <1>7, <1>8 DEF Call

LEMMA StartInv ==
  ASSUME MInv, NEW c \in Commands \ {"none"}, NEW whole \in BOOLEAN, start(c, whole)
  PROVE  MInv'
<1> USE DEF MInv
<1>1. /\ command' = c /\ main' = FirstMain(c) /\ e2e' = whole
      /\ out' = [p \in Planes |-> "none"] /\ listed' = [p \in Planes |-> {}]
      /\ at' = [p \in Planes |-> FirstStep(c)] /\ succeeded' = "none"
      /\ UNCHANGED <<scenario, faults, scf, tls>> /\ PlanesStay
  BY DEF start, Begin, PlanesStay
<1>2. deploys' \in 0..scenario.deploys
  BY DEF start, MinictlTypeOK
<1>3. MinictlTypeOK'
  BY <1>1, <1>2 DEF MinictlTypeOK, FirstMain, FirstStep, PlanesStay
<1>4. Where' /\ OutputsPlanned' /\ PartsInOrder' /\ RemainsCanBeFound'
  BY <1>1 DEF Where, OutputsPlanned, PartsInOrder, RemainsCanBeFound, FirstMain, FirstStep,
              PlanesStay
<1>5. DestroyProgress' /\ CleanAndIdle' /\ RecordPointsToFunction'
  BY <1>1 DEF DestroyProgress, CleanAndIdle, RecordPointsToFunction, FirstStep
<1> QED
  BY <1>3, <1>4, <1>5

LEMMA InterruptInv ==
  ASSUME MInv, interrupt
  PROVE  MInv'
<1> USE DEF MInv
<1>1. /\ command' = "none" /\ main' = "none" /\ e2e' = FALSE
      /\ out' = [p \in Planes |-> "none"] /\ listed' = [p \in Planes |-> {}]
      /\ at' = [p \in Planes |-> "idle"] /\ succeeded' = "none"
      /\ UNCHANGED <<scenario, deploys, scf, tls>> /\ PlanesStay
  BY DEF interrupt, Begin, FirstMain, FirstStep, PlanesStay
<1>2. faults' \in 0..scenario.faults
  BY DEF interrupt, MinictlTypeOK
<1>3. MinictlTypeOK'
  BY <1>1, <1>2 DEF MinictlTypeOK, PlanesStay
<1>4. Where' /\ OutputsPlanned' /\ PartsInOrder' /\ RemainsCanBeFound'
  BY <1>1 DEF Where, OutputsPlanned, PartsInOrder, RemainsCanBeFound, PlanesStay
<1>5. DestroyProgress' /\ CleanAndIdle' /\ RecordPointsToFunction'
  BY <1>1 DEF DestroyProgress, CleanAndIdle, RecordPointsToFunction
<1> QED
  BY <1>3, <1>4, <1>5

-----------------------------------------------------------------------------
(* The invariant. *)

LEMMA MInvInit == MinictlInit => MInv
<1> SUFFICES ASSUME MinictlInit PROVE MInv
  OBVIOUS
<1>1. MinictlTypeOK
  <2>1. command = "none" /\ e2e = FALSE /\ main = "none" /\ succeeded = "none"
    BY DEF MinictlInit
  <2>2. at \in [Planes -> PlaneSteps] /\ \A p \in Planes : at[p] = "idle"
    BY DEF MinictlInit
  <2>3. deploys \in 0..scenario.deploys /\ faults \in 0..scenario.faults
    BY DEF MinictlInit
  <2>4. /\ network \in [Planes -> {"none", "partial", "full"}]
        /\ workers \in [Planes -> {"none", "live", "stopping"}]
        /\ domain \in [Planes -> DomainStates] /\ records \in [Planes -> SUBSET RecordTypes]
    BY DEF MinictlInit
  <2>5. /\ out \in [Planes -> Outputs] /\ outputs \in [Planes -> Outputs]
        /\ listed \in [Planes -> SUBSET Planes] /\ requests = {} /\ late = {}
        /\ scenario \in Scenarios /\ ccn = {} /\ rules = {} /\ installed = {}
        /\ scf = {} /\ tls = "absent"
    BY DEF MinictlInit
  <2> QED
    BY <2>1, <2>2, <2>3, <2>4, <2>5 DEF MinictlTypeOK
<1>2. Where /\ OutputsPlanned /\ PartsInOrder /\ RemainsCanBeFound
  BY DEF MinictlInit, Where, OutputsPlanned, PartsInOrder, RemainsCanBeFound
<1>3. DestroyProgress /\ CleanAndIdle /\ RecordPointsToFunction
  BY DEF MinictlInit, DestroyProgress, CleanAndIdle, RecordPointsToFunction
<1> QED
  BY <1>1, <1>2, <1>3 DEF MInv

LEMMA MInvStep == MInv /\ [MinictlNext]_minictlVars => MInv'
<1> SUFFICES ASSUME MInv, [MinictlNext]_minictlVars PROVE MInv'
  OBVIOUS
<1>1. CASE start("deploy", FALSE) \/ start("update", FALSE) \/ start("deploy", TRUE)
           \/ start("destroy", FALSE) \/ interrupt
  BY <1>1, StartInv, InterruptInv
<1>2. CASE MainStep
  <2>1. CASE \/ buildAndPushControlPlaneImage \/ upsertSCFFunction
             \/ ensureSCFCustomDomain \/ ensureSCFCustomDomainBinding
    <3>1. \/ Ensure("image", "function") /\ main = "image"
          \/ Ensure("function", "record") /\ main = "function"
          \/ Ensure("record", "binding") /\ main = "record"
          \/ Ensure("binding", "health") /\ main = "binding"
      BY <2>1 DEF buildAndPushControlPlaneImage, upsertSCFFunction, ensureSCFCustomDomain,
                  ensureSCFCustomDomainBinding, Ensure, Call
    <3> QED
      BY <3>1, EnsureInv
  <2>2. CASE \E i \in 1..4 : uninstallControlPlane(i)
    BY <2>2, UninstallControlPlaneInv
  <2> QED
    BY <1>2, <2>1, <2>2, BuildInv, BootstrapInv, CheckInv, LoadCertificateBundleInv,
       WaitForControlPlaneSCFInv, InstallInv, DestroyPlanesInv DEF MainStep
<1>3. ASSUME NEW p \in Planes, PlaneStep(p)
      PROVE  MInv'
  BY <1>3, ApplyInv, AttachLighthouseCCNInv, EnsureLighthouseFirewallRulesInv,
     InstallCloudPlaneInv, TryTerraformOutputInv, UninstallCloudPlaneInv,
     DeleteServiceFrontDoorsInv, DeleteAliyunCDNDomainInv, DeleteTimedOutInv,
     DeleteTencentCDNDomainInv, DeleteVerifyTXTRecordInv, DeleteDNSPodCNAMERecordsInv,
     DeleteAliyunWorkerNodesInv, DeleteTencentWorkerNodesInv, WorkerNodesWithoutRegionInv,
     DeleteLighthouseFirewallRulesInv, DetachLighthouseCCNInv, TerraformDestroyInv
     DEF PlaneStep
<1>4. ASSUME NEW p \in Planes,
             \/ WorkersChange(p) \/ WorkersReleased(p) \/ DomainChanges(p)
             \/ loadSnapshot(p) \/ syncFrontDoorDNS(p)
      PROVE  MInv'
  BY <1>4, WorkersChangeInv, WorkersReleasedInv, DomainChangesInv, LoadSnapshotInv,
     SyncFrontDoorDNSInv
<1>5. CASE UNCHANGED minictlVars
  BY <1>5 DEF MInv, minictlVars, MinictlTypeOK, Where, OutputsPlanned, PartsInOrder,
       DestroyProgress, PlaneClean, Gone, CleanAndIdle, Clean, RemainsCanBeFound,
       RecordPointsToFunction
<1> QED
  BY <1>1, <1>2, <1>3, <1>4, <1>5 DEF MinictlNext

\* The inductive invariant holds however planes work in parallel, fail and are interrupted.
THEOREM MinictlInvariance == MinictlSpec => []MInv
<1> QED
  BY MInvInit, MInvStep, PTL DEF MinictlSpec

\* Every variable has its type, and planes only work while the main goroutine waits.
THEOREM MinictlTypeCorrect == MinictlSpec => []MinictlTypeOK
<1>1. MInv => MinictlTypeOK
  BY DEF MInv
<1> QED
  BY <1>1, MinictlInvariance, PTL

\* A destroy that reports success (Runner.Destroy) has left nothing of the platform,
\* however many planes it tears down in parallel, but records that a request of the
\* control-plane with an older snapshot wrote after their plane was uninstalled.
THEOREM DestroyIsClean == MinictlSpec => []CleanAfterDestroy
<1>1. MInv => CleanAfterDestroy
  BY DEF MInv, CleanAndIdle, CleanAfterDestroy, Clean, PlaneClean
<1> QED
  BY <1>1, MinictlInvariance, PTL

\* As long as a plane has workers, a CCN attachment or firewall rules of minictl's, its
\* outputs are complete, and destroyPlane can find them.
THEOREM RemainsAreFound == MinictlSpec => []RemainsCanBeFound
<1>1. MInv => RemainsCanBeFound
  BY DEF MInv
<1> QED
  BY <1>1, MinictlInvariance, PTL

\* deployControlPlaneSCF and uninstallControlPlane never leave a name without what it
\* points to.
THEOREM RecordsPointToFunctions == MinictlSpec => []RecordPointsToFunction
<1>1. MInv => RecordPointsToFunction
  BY DEF MInv
<1> QED
  BY <1>1, MinictlInvariance, PTL

================================================================================
