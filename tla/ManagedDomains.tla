---------------------------- MODULE ManagedDomains ----------------------------
(***************************************************************************)
(* What the ingress loop promises about every host: how its domain at the  *)
(* CDN and the front-door columns of its services row go together.  The    *)
(* columns come before the domain and go after it, and the CNAME is that   *)
(* of a domain the CDN has got done with.  Nothing is said about passes,   *)
(* routes or errors.                                                       *)
(***************************************************************************)
CONSTANTS Hosts

VARIABLES
  outside,  \* hosts that are not under the base domain
  record,   \* record[h]: "none", "verification" or "cname"
  domain    \* domain[h]: "absent", "configuring", "online" or "stopped"

vars == <<outside, record, domain>>

Init ==
  /\ outside \in SUBSET Hosts
  /\ record = [h \in Hosts |-> IF h \in outside THEN "cname" ELSE "none"]
  /\ domain = [h \in Hosts |-> IF h \in outside THEN "online" ELSE "absent"]

Record(h, columns) == record' = [record EXCEPT ![h] = columns] /\ UNCHANGED <<outside, domain>>
Domain(h, status) == domain' = [domain EXCEPT ![h] = status] /\ UNCHANGED <<outside, record>>

\* The owner of the host is asked to prove it, as long as there is no domain.
Ask(h) == h \notin outside /\ domain[h] = "absent" /\ Record(h, "verification")

\* Only what was asked for is added.
Add(h) ==
  /\ h \notin outside /\ domain[h] = "absent" /\ record[h] = "verification"
  /\ Domain(h, "configuring")

GetOnline(h) == domain[h] = "configuring" /\ Domain(h, "online")

\* The CNAME is given out.
Publish(h) == h \notin outside /\ domain[h] \in {"online", "stopped"} /\ Record(h, "cname")

\* The domain goes while the columns still name it.
Stop(h) == h \notin outside /\ domain[h] # "absent" /\ record[h] # "none" /\ Domain(h, "stopped")
Delete(h) == h \notin outside /\ record[h] # "none" /\ Domain(h, "absent")

\* A host is forgotten when its domain is gone; one outside the base domain is given up.
Forget(h) == (domain[h] = "absent" \/ h \in outside) /\ Record(h, "none")

Next ==
  \E h \in Hosts :
    Ask(h) \/ Add(h) \/ GetOnline(h) \/ Publish(h) \/ Stop(h) \/ Delete(h) \/ Forget(h)

Spec == Init /\ [][Next]_vars
===============================================================================
