--------------------------- MODULE RecordOwnership ---------------------------
(***************************************************************************)
(* What the coordination package promises about the DNS records of         *)
(* services: whose a record is, and when it may come and go.  Nothing is   *)
(* said about requests, snapshots, planes' answers or front doors.         *)
(***************************************************************************)
CONSTANTS Hosts, Providers, Provider, NoOwner

VARIABLES
  place,    \* place[id]: the plane and the host of a service, given
  desired,  \* desired[id]: "absent", "active" or "deleted"
  leaving,  \* services that a deletion is about to clean up after
  owner     \* owner[name]: the service a record belongs to

vars == <<place, desired, leaving, owner>>

Purposes == {"verification", "cname"}
Names == (Hosts \X {"cname"}) \cup (Providers \X {"verification"})

\* Services of one provider share the record that verifies their root domain.
NameFor(id, purpose) ==
  IF purpose = "cname" THEN <<place[id][2], purpose>> ELSE <<Provider[place[id][1]], purpose>>

Init ==
  /\ desired = [id \in DOMAIN place |-> "absent"]
  /\ leaving = {}
  /\ owner = [name \in Names |-> NoOwner]

RowsOnly == UNCHANGED <<place, leaving, owner>>

\* A host is given away once per plane, also when its service is deleted.
Register(id) ==
  /\ \A i \in DOMAIN place : place[i] = place[id] => desired[i] = "absent"
  /\ desired' = [desired EXCEPT ![id] = "active"]
  /\ RowsOnly

Reactivate(id) ==
  /\ desired[id] = "deleted"
  /\ desired' = [desired EXCEPT ![id] = "active"]
  /\ RowsOnly

\* Whoever deletes cleans up, or stops before that.
Retire(id) ==
  /\ desired[id] # "absent"
  /\ desired' = [desired EXCEPT ![id] = "deleted"]
  /\ leaving' \in {leaving, leaving \cup {id}}
  /\ UNCHANGED <<place, owner>>

Without(records, id, purposes) ==
  [name \in Names |-> IF records[name] = id /\ name[2] \in purposes THEN NoOwner ELSE records[name]]

\* A free name becomes the service's, and its verification may go when it has a CNAME.
Claim(id, purpose) ==
  LET name == NameFor(id, purpose)
      claimed == [owner EXCEPT ![name] = id]
  IN /\ desired[id] # "absent"
     /\ owner[name] \in {NoOwner, id}
     /\ \/ owner' = claimed
        \/ purpose = "cname" /\ owner' = Without(claimed, id, {"verification"})
     /\ UNCHANGED <<place, desired, leaving>>

\* Only its own deletion releases what a service has.
Release(id) ==
  /\ id \in leaving
  /\ \E purposes \in SUBSET Purposes : owner' = Without(owner, id, purposes)
  /\ leaving' \in {leaving, leaving \ {id}}
  /\ UNCHANGED <<place, desired>>

Next ==
  \E id \in DOMAIN place :
    \/ Register(id) \/ Reactivate(id) \/ Retire(id) \/ Release(id)
    \/ \E purpose \in Purposes : Claim(id, purpose)

Spec == Init /\ [][Next]_vars
===============================================================================
