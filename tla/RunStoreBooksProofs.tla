------------------------- MODULE RunStoreBooksProofs -------------------------
(* The books of a node: allocated is the sum of what its runs reserve, after    *)
(* every transaction but the named ones.                                        *)
EXTENDS RunStoreLifecycleProofs

-----------------------------------------------------------------------------
(* Sums of requests. *)

LoadOf(r, S) == Cardinality(UnitsOf(r, S))

LEMMA LoadOfIsNat ==
  ASSUME NEW r, NEW S \in SUBSET Services, \A s \in S : r[s].spec \in Specs
  PROVE  LoadOf(r, S) \in Nat
BY UnitsOfFinite, FS_CardinalityType DEF LoadOf

LEMMA LoadOfNone == \A r : LoadOf(r, {}) = 0
BY FS_EmptySet DEF LoadOf, UnitsOf

\* The specs decide.
LEMMA LoadOfSpecs ==
  ASSUME NEW q, NEW r, NEW S, \A s \in S : q[s].spec = r[s].spec
  PROVE  LoadOf(q, S) = LoadOf(r, S)
<1>1. UnitsOf(q, S) = UnitsOf(r, S)
  BY DEF UnitsOf
<1> QED
  BY <1>1 DEF LoadOf

LEMMA LoadOfOneMore ==
  ASSUME NEW r, NEW S \in SUBSET Services, NEW s \in Services \ S,
         \A t \in S \cup {s} : r[t].spec \in Specs
  PROVE  LoadOf(r, S \cup {s}) = LoadOf(r, S) + Request[r[s].spec]
<1> DEFINE k == Request[r[s].spec]
           mine == {s} \X (1..k)
<1>1. k \in Nat \ {0}
  BY RequestAssumption
<1>2. UnitsOf(r, S \cup {s}) = UnitsOf(r, S) \cup mine
  BY DEF UnitsOf
<1>3. UnitsOf(r, S) \cap mine = {}
  BY DEF UnitsOf
<1> HIDE DEF k
<1>4. IsFiniteSet(mine) /\ Cardinality(mine) = k
  <2>1. IsFiniteSet({s}) /\ Cardinality({s}) = 1
    BY FS_Singleton
  <2>2. 1 \in Int /\ k \in Int /\ ~(1 > k) /\ k - 1 + 1 = k /\ 1 * k = k
    BY <1>1
  <2>3. IsFiniteSet(1..k) /\ Cardinality(1..k) = k
    BY <2>2, FS_Interval
  <2>4. IsFiniteSet(mine) /\ Cardinality(mine) = Cardinality({s}) * Cardinality(1..k)
    BY <2>1, <2>3, FS_Product
  <2> QED
    BY <2>1, <2>2, <2>3, <2>4
<1>5. IsFiniteSet(UnitsOf(r, S)) /\ Cardinality(UnitsOf(r, S)) \in Nat
  BY UnitsOfFinite, FS_CardinalityType
<1> HIDE DEF mine
<1>6. Cardinality(UnitsOf(r, S) \cup mine) = Cardinality(UnitsOf(r, S)) + k
  <2>1. /\ Cardinality(UnitsOf(r, S) \cup mine)
             = Cardinality(UnitsOf(r, S)) + Cardinality(mine) - Cardinality(UnitsOf(r, S) \cap mine)
        /\ Cardinality(UnitsOf(r, S) \cap mine) = 0
    BY <1>4, <1>5, <1>3, FS_Union, FS_EmptySet
  <2> QED
    BY <1>1, <1>4, <1>5, <2>1
<1> QED
  BY <1>2, <1>6 DEF LoadOf, k

\* As one sum, with or without the run of s.
LEMMA LoadOfSplit ==
  ASSUME NEW r, NEW S \in SUBSET Services, NEW s \in Services, \A t \in S : r[t].spec \in Specs
  PROVE  /\ LoadOf(r, S \ {s}) \in Nat
         /\ LoadOf(r, S) = LoadOf(r, S \ {s}) + IF s \in S THEN Request[r[s].spec] ELSE 0
<1>1. S \ {s} \in SUBSET Services /\ s \in Services \ (S \ {s})
  OBVIOUS
<1>2. LoadOf(r, S \ {s}) \in Nat
  BY <1>1, LoadOfIsNat
<1>3. CASE s \in S
  <2>1. (S \ {s}) \cup {s} = S
    BY <1>3
  <2>2. LoadOf(r, (S \ {s}) \cup {s}) = LoadOf(r, S \ {s}) + Request[r[s].spec]
    BY <1>1, <2>1, LoadOfOneMore
  <2> QED
    BY <1>2, <1>3, <2>1, <2>2
<1>4. CASE s \notin S
  <2>1. LoadOf(r, S \ {s}) = LoadOf(r, S)
    BY <1>4, Zenon
  <2> QED
    BY <1>2, <1>4, <2>1
<1> QED
  BY <1>3, <1>4

-----------------------------------------------------------------------------
(* Transactions that change the run or the service of s at most. *)

OnlyRow(s) ==
  \A t \in Services \ {s} : runs'[t] = runs[t] /\ services'[t].desired = services[t].desired

Share(s, n) == IF s \in Reserved(n) THEN Request[runs[s].spec] ELSE 0

LEMMA ReservationsHaveSpecs ==
  ASSUME IInv, NEW n \in Nodes
  PROVE  Reserved(n) \in SUBSET Services /\ \A s \in Reserved(n) : runs[s].spec \in Specs
BY DEF IInv, TypeOK, RunRow, Placement, Reserved, HoldsReservation

LEMMA ReservationsHaveSpecsNext ==
  ASSUME IInv', NEW n \in Nodes
  PROVE  Reserved(n)' \in SUBSET Services /\ \A s \in Reserved(n)' : runs'[s].spec \in Specs
BY DEF IInv, TypeOK, RunRow, Placement, Reserved, HoldsReservation

LEMMA OneRow ==
  ASSUME IInv, IInv', NEW s \in Services, OnlyRow(s), NEW n \in Nodes
  PROVE  \E base \in Nat : /\ Load(Reserved(n)) = base + Share(s, n)
                           /\ Load(Reserved(n))' = base + Share(s, n)'
<1> DEFINE R == Reserved(n)
           Q == Reserved(n)'
<1>1. R \in SUBSET Services /\ \A t \in R : runs[t].spec \in Specs
  BY ReservationsHaveSpecs
<1>2. Q \in SUBSET Services /\ \A t \in Q : runs'[t].spec \in Specs
  BY ReservationsHaveSpecsNext
<1>3. R \ {s} = Q \ {s} /\ \A t \in R \ {s} : runs'[t].spec = runs[t].spec
  BY DEF OnlyRow, Reserved, HoldsReservation
<1>4. Load(R) = LoadOf(runs, R) /\ Load(Reserved(n))' = LoadOf(runs', Q)
  BY DEF Load, Units, LoadOf, UnitsOf
<1>5. Share(s, n)' = IF s \in Q THEN Request[runs'[s].spec] ELSE 0
  BY DEF Share
<1>6. Share(s, n) = IF s \in R THEN Request[runs[s].spec] ELSE 0
  BY DEF Share
<1> HIDE DEF R, Q
<1>7. LoadOf(runs, R \ {s}) \in Nat /\ LoadOf(runs, R) = LoadOf(runs, R \ {s}) + Share(s, n)
  BY <1>1, <1>6, LoadOfSplit
<1>8. LoadOf(runs', Q) = LoadOf(runs', Q \ {s}) + Share(s, n)'
  BY <1>2, <1>5, LoadOfSplit
<1>9. LoadOf(runs', Q \ {s}) = LoadOf(runs, R \ {s})
  <2>1. LoadOf(runs', R \ {s}) = LoadOf(runs, R \ {s})
    BY <1>3, LoadOfSpecs
  <2> QED
    BY <1>3, <2>1
<1> QED
  BY <1>4, <1>7, <1>8, <1>9 DEF R

\* The books stay exact when the counter moves with the share of s.
LEMMA BooksFollow ==
  ASSUME IInv, IInv', NEW s \in Services, OnlyRow(s), NEW n \in Nodes, Exact(n),
         \/ nodes'[n].allocated = nodes[n].allocated /\ Share(s, n)' = Share(s, n)
         \/ /\ nodes'[n].allocated = Floor(nodes[n].allocated - Share(s, n))
            /\ Share(s, n)' = 0
         \/ /\ Share(s, n) = 0
            /\ nodes'[n].allocated = nodes[n].allocated + Share(s, n)'
  PROVE  Exact(n)'
<1>1. PICK base \in Nat : /\ Load(Reserved(n)) = base + Share(s, n)
                          /\ Load(Reserved(n))' = base + Share(s, n)'
  BY OneRow
<1>2. Share(s, n) \in Nat /\ Share(s, n)' \in Nat
  BY RequestAssumption, ReservationsHaveSpecs, ReservationsHaveSpecsNext DEF Share
<1>3. nodes[n].allocated = base + Share(s, n)
  BY <1>1 DEF Exact
<1>4. nodes'[n].allocated = base + Share(s, n)'
  BY <1>2, <1>3 DEF Floor
<1> QED
  BY <1>1, <1>4 DEF Exact

-----------------------------------------------------------------------------
(* One lemma per transaction. *)

USE DEF Generations, ServiceRow, RunRow, NodeRow, WorkItem, DeleteCall, HeartbeatCall,
        DesiredStates, RunStatuses, NodeStatuses, freeNodeAllocation

LEMMA UpsertKeepsBooks ==
  ASSUME IInv, IInv', NEW s \in Services, NEW g \in Generations, NEW spec \in Specs,
         UpsertService(s, g, spec), NEW n \in Nodes, Exact(n), ~BreaksBooks(n)
  PROVE  Exact(n)'
<1> USE DEF IInv
<1> DEFINE run == runs[s]
           live == run.status = "running" /\ run.node # NoNode
<1>1. /\ services' = [services EXCEPT ![s] = [generation |-> g, desired |-> "active", spec |-> spec]]
      /\ services'[s].desired = "active"
      /\ services[s].generation < g \/ (services[s].generation = g /\ services[s].desired = "active")
  BY DEF UpsertService, TypeOK
<1>2. run \in RunRow /\ nodes[n] \in NodeRow /\ g \in 1..MaxGeneration
      /\ services[s].generation \in 0..MaxGeneration
  BY DEF TypeOK
<1>3. CASE run.status # "absent" /\ run.generation >= g /\ UNCHANGED <<runs, nodes>>
  <2>1. services[s].desired = "active"
    BY <1>1, <1>2, <1>3 DEF RunFollowsService
  <2>2. OnlyRow(s) /\ Share(s, n)' = Share(s, n)
    BY <1>1, <1>3, <2>1 DEF OnlyRow, Share, Reserved, HoldsReservation
  <2> QED
    BY <1>3, <2>2, BooksFollow
<1>4. CASE /\ run.status = "absent" \/ run.generation < g
           /\ nodes' = IF live THEN freeNodeAllocation(run.node, Request[run.spec]) ELSE nodes
           /\ runs'[s].status = "pending" /\ runs'[s].generation = g
           /\ \A t \in Services \ {s} : runs'[t] = runs[t]
  <2>1. OnlyRow(s) /\ Share(s, n)' = 0
    BY <1>1, <1>4 DEF OnlyRow, Share, Reserved, HoldsReservation
  <2>2. s \in Reserved(n) => run.status = "running"
    BY <1>2, <1>4 DEF BreaksBooks, Reserved, HoldsReservation
  <2>3. CASE s \in Reserved(n)
    <3>1. live /\ run.node = n
      BY <2>2, <2>3, NullAssumption DEF Reserved
    <3>2. nodes'[n].allocated = Floor(nodes[n].allocated - Share(s, n))
      BY <1>2, <1>4, <2>3, <3>1 DEF Share, TypeOK
    <3> QED
      BY <2>1, <3>2, BooksFollow
  <2>4. CASE s \notin Reserved(n)
    <3>1. ~(live /\ run.node = n)
      BY <2>4 DEF Reserved, HoldsReservation
    <3>2. nodes'[n].allocated = nodes[n].allocated
      BY <1>2, <1>4, <3>1 DEF TypeOK
    <3>3. Share(s, n) = 0
      BY <2>4 DEF Share
    <3> QED
      BY <2>1, <3>2, <3>3, BooksFollow
  <2> QED
    BY <2>3, <2>4
<1>5. \/ run.status # "absent" /\ run.generation >= g /\ UNCHANGED <<runs, nodes>>
      \/ /\ run.status = "absent" \/ run.generation < g
         /\ nodes' = IF live THEN freeNodeAllocation(run.node, Request[run.spec]) ELSE nodes
         /\ runs'[s].status = "pending" /\ runs'[s].generation = g
         /\ \A t \in Services \ {s} : runs'[t] = runs[t]
  BY DEF UpsertService, upsertServiceRunTx, TypeOK
<1> QED
  BY <1>3, <1>4, <1>5

LEMMA DeleteKeepsBooks ==
  ASSUME IInv, IInv', ServicesKnown, NEW d \in deletes, DeleteServiceWrite(d),
         NEW n \in Nodes, Exact(n), ~BreaksBooks(n)
  PROVE  Exact(n)'
<1> USE DEF IInv
<1> DEFINE s == d.service
           run == runs[s]
<1>1. s \in Services /\ services[s].desired \in {"active", "deleted"}
  BY DEF TypeOK, ServicesKnown
<1>2. /\ services'[s].desired = "deleted"
      /\ \A t \in Services \ {s} : services'[t].desired = services[t].desired
  BY <1>1 DEF DeleteServiceWrite, TypeOK
<1>3. run \in RunRow /\ nodes[n] \in NodeRow
  BY <1>1 DEF TypeOK
<1>4. CASE run.status = "absent" /\ UNCHANGED <<runs, nodes>>
  <2>1. OnlyRow(s) /\ Share(s, n)' = Share(s, n)
    BY <1>1, <1>2, <1>4 DEF OnlyRow, Share, Reserved, HoldsReservation
  <2> QED
    BY <1>1, <1>4, <2>1, BooksFollow
<1>5. CASE /\ run.status = "running" /\ UNCHANGED nodes
           /\ runs'[s].status = "pending" /\ runs'[s].node = run.node /\ runs'[s].spec = run.spec
           /\ \A t \in Services \ {s} : runs'[t] = runs[t]
  <2>1. OnlyRow(s) /\ Share(s, n)' = Share(s, n)
    BY <1>1, <1>2, <1>5 DEF OnlyRow, Share, Reserved, HoldsReservation
  <2> QED
    BY <1>1, <1>5, <2>1, BooksFollow
<1>6. CASE /\ run.status \notin {"absent", "running"} /\ runs'[s].status = "absent"
           /\ nodes' = IF run.node # NoNode /\ run.status \in {"deploying", "pending"}
                         THEN freeNodeAllocation(run.node, Request[run.spec]) ELSE nodes
           /\ \A t \in Services \ {s} : runs'[t] = runs[t]
  <2>1. OnlyRow(s) /\ Share(s, n)' = 0
    BY <1>1, <1>2, <1>6 DEF OnlyRow, Share, Reserved, HoldsReservation
  <2>2. CASE s \in Reserved(n)
    <3>1. run.node = n /\ run.status \in {"deploying", "pending"} /\ n # NoNode
      BY <1>1, <1>6, <2>2, NullAssumption DEF Reserved, HoldsReservation
    <3>2. nodes'[n].allocated = Floor(nodes[n].allocated - Share(s, n))
      BY <1>3, <1>6, <2>2, <3>1 DEF Share, TypeOK
    <3> QED
      BY <1>1, <2>1, <3>2, BooksFollow
  <2>3. CASE s \notin Reserved(n)
    <3>1. ~(run.node = n /\ run.status \in {"deploying", "pending"})
      BY <1>1, <1>6, <2>3 DEF BreaksBooks, Reserved, HoldsReservation
    <3>2. nodes'[n].allocated = nodes[n].allocated
      BY <1>3, <1>6, <3>1 DEF TypeOK
    <3>3. Share(s, n) = 0
      BY <2>3 DEF Share
    <3> QED
      BY <1>1, <2>1, <3>2, <3>3, BooksFollow
  <2> QED
    BY <2>2, <2>3
<1>7. run.status = "running" => run.node # NoNode /\ run.container > 0
  BY <1>1 DEF Placement
<1>8. \/ run.status = "absent" /\ UNCHANGED <<runs, nodes>>
      \/ /\ run.status = "running" /\ UNCHANGED nodes
         /\ runs'[s].status = "pending" /\ runs'[s].node = run.node /\ runs'[s].spec = run.spec
         /\ \A t \in Services \ {s} : runs'[t] = runs[t]
      \/ /\ run.status \notin {"absent", "running"} /\ runs'[s].status = "absent"
         /\ nodes' = IF run.node # NoNode /\ run.status \in {"deploying", "pending"}
                       THEN freeNodeAllocation(run.node, Request[run.spec]) ELSE nodes
         /\ \A t \in Services \ {s} : runs'[t] = runs[t]
  BY <1>1, <1>3, <1>7 DEF DeleteServiceWrite, deleteServiceRunTx, TypeOK, NoRun
<1> QED
  BY <1>4, <1>5, <1>6, <1>8

LEMMA FailingKeepsBooks ==
  ASSUME IInv, IInv', NEW s \in Services, runs[s].status \in {"pending", "deploying"},
         runs' = [runs EXCEPT ![s].status = "failed"], UNCHANGED <<services, nodes>>,
         NEW n \in Nodes, Exact(n), ~BreaksBooks(n)
  PROVE  Exact(n)'
<1>1. runs[s] \in RunRow
  BY DEF IInv, TypeOK
<1>2. runs'[s].status = "failed" /\ OnlyRow(s)
  BY <1>1 DEF IInv, TypeOK, OnlyRow
<1>3. s \notin Reserved(n) /\ s \notin Reserved(n)'
  BY <1>1, <1>2 DEF BreaksBooks, Reserved, HoldsReservation
<1> QED
  BY <1>2, <1>3, BooksFollow DEF Share

LEMMA ClaimKeepsBooks ==
  ASSUME IInv, IInv', NEW m \in Nodes, NEW s \in Services,
         ClaimPendingRun(m, s) \/ ClaimPendingDeleteRun(m, s), NEW n \in Nodes, Exact(n)
  PROVE  Exact(n)'
<1>1. runs[s] \in RunRow /\ nodes[n] \in NodeRow /\ runs[s].status = "pending"
      /\ UNCHANGED services
  BY DEF IInv, TypeOK, ClaimPendingRun, ClaimPendingDeleteRun
<1>2. /\ runs'[s].status = "deploying" /\ runs'[s].node = m /\ runs'[s].spec = runs[s].spec
      /\ OnlyRow(s)
  BY <1>1 DEF IInv, TypeOK, ClaimPendingRun, ClaimPendingDeleteRun, markServiceRunDeploying, OnlyRow
<1>3. CASE ClaimPendingDeleteRun(m, s)
  <2>1. /\ UNCHANGED nodes /\ runs[s].node = m /\ services[s].desired = "deleted"
    BY <1>3 DEF ClaimPendingDeleteRun
  <2>2. Share(s, n)' = Share(s, n)
    BY <1>1, <1>2, <2>1 DEF Share, Reserved, HoldsReservation
  <2> QED
    BY <1>2, <2>1, <2>2, BooksFollow
<1>4. CASE ClaimPendingRun(m, s)
  <2>1. /\ services[s].desired = "active"
        /\ nodes' = [nodes EXCEPT ![m].allocated = @ + Request[runs[s].spec]]
    BY <1>4 DEF ClaimPendingRun
  <2>2. Share(s, n) = 0 /\ Share(s, n)' = IF n = m THEN Request[runs[s].spec] ELSE 0
    BY <1>1, <1>2, <2>1 DEF Share, Reserved, HoldsReservation
  <2>3. nodes'[n].allocated = nodes[n].allocated + Share(s, n)'
    BY <1>1, <2>1, <2>2 DEF IInv, TypeOK
  <2> QED
    BY <1>2, <2>2, <2>3, BooksFollow
<1> QED
  BY <1>3, <1>4

LEMMA ReportKeepsBooks ==
  ASSUME IInv, IInv', NEW w \in WorkItem, NEW status \in Outcomes(w.action),
         UpdateExecutionFromNodeReport(w, status), NEW n \in Nodes, Exact(n)
  PROVE  Exact(n)'
<1> DEFINE s == w.service
           run == runs[s]
<1>1. s \in Services /\ w.node \in Nodes /\ UNCHANGED services
  BY DEF IInv, TypeOK, UpdateExecutionFromNodeReport
<1>2. run \in RunRow /\ nodes[n] \in NodeRow /\ status \in {"running", "failed", "succeeded"}
  BY <1>1 DEF IInv, TypeOK, Outcomes
<1>3. \/ UNCHANGED <<runs, nodes>>
      \/ /\ run.node = w.node /\ run.status = "deploying"
         /\ \A t \in Services \ {s} : runs'[t] = runs[t]
         /\ \/ /\ status = "running" /\ UNCHANGED nodes
               /\ runs'[s].status = "running" /\ runs'[s].node = run.node /\ runs'[s].spec = run.spec
            \/ /\ status # "running" /\ runs'[s].status \in {"absent", "failed", "succeeded"}
               /\ nodes' = freeNodeAllocation(w.node, Request[run.spec])
  <2> DEFINE gone == status = "succeeded" /\ services[s].desired = "deleted"
             box == IF w.action = "run" THEN w.generation ELSE w.container
             row == IF gone THEN NoRun ELSE [run EXCEPT !.status = status, !.container = box]
  <2>1. \/ UNCHANGED <<runs, nodes>>
        \/ /\ run.node = w.node /\ run.status = "deploying" /\ runs' = [runs EXCEPT ![s] = row]
           /\ nodes' = IF status \in {"failed", "succeeded"}
                         THEN freeNodeAllocation(w.node, Request[run.spec]) ELSE nodes
    BY Zenon DEF UpdateExecutionFromNodeReport
  <2> HIDE DEF box
  <2>2. /\ gone => row.status = "absent"
        /\ ~gone => row.status = status /\ row.node = run.node /\ row.spec = run.spec
    BY <1>2 DEF NoRun
  <2> HIDE DEF row, run
  <2>3. CASE UNCHANGED <<runs, nodes>>
    BY <2>3
  <2>4. CASE runs' = [runs EXCEPT ![s] = row]
    <3>1. runs'[s] = row /\ \A t \in Services \ {s} : runs'[t] = runs[t]
      BY <1>1, <2>4 DEF IInv, TypeOK
    <3> QED
      BY <1>2, <2>1, <2>2, <3>1
  <2> QED
    BY <2>1, <2>3, <2>4
<1>4. CASE UNCHANGED <<runs, nodes>>
  BY <1>1, <1>4 DEF Exact, Load, Units, Reserved, HoldsReservation
<1>5. CASE /\ run.node = w.node /\ run.status = "deploying" /\ UNCHANGED nodes
           /\ \A t \in Services \ {s} : runs'[t] = runs[t]
           /\ runs'[s].status = "running" /\ runs'[s].node = run.node /\ runs'[s].spec = run.spec
  <2>1. OnlyRow(s) /\ Share(s, n)' = Share(s, n)
    BY <1>1, <1>5 DEF OnlyRow, Share, Reserved, HoldsReservation
  <2> QED
    BY <1>1, <1>5, <2>1, BooksFollow
<1>6. CASE /\ run.node = w.node /\ run.status = "deploying"
           /\ \A t \in Services \ {s} : runs'[t] = runs[t]
           /\ runs'[s].status \in {"absent", "failed", "succeeded"}
           /\ nodes' = freeNodeAllocation(w.node, Request[run.spec])
  <2>1. OnlyRow(s) /\ Share(s, n)' = 0
    BY <1>1, <1>6 DEF OnlyRow, Share, Reserved, HoldsReservation
  <2>2. Share(s, n) = IF n = w.node THEN Request[run.spec] ELSE 0
    BY <1>1, <1>6 DEF Share, Reserved, HoldsReservation
  <2>3. \/ nodes'[n].allocated = Floor(nodes[n].allocated - Share(s, n))
        \/ nodes'[n].allocated = nodes[n].allocated /\ Share(s, n) = 0
    BY <1>1, <1>2, <1>6, <2>2 DEF IInv, TypeOK
  <2> QED
    BY <1>1, <2>1, <2>3, BooksFollow
<1> QED
  BY <1>3, <1>4, <1>5, <1>6

\* Transactions on node rows leave runs, services and, but for a deletion, counters alone.
LEMMA NodeRowsKeepBooks ==
  ASSUME IInv, UNCHANGED <<runs, services>>, NEW n \in Nodes, Exact(n),
         \/ nodes'[n].allocated = nodes[n].allocated
         \/ nodes'[n].allocated = 0 /\ Reserved(n) = {}
  PROVE  Exact(n)'
<1>1. Reserved(n)' = Reserved(n) /\ Load(Reserved(n))' = Load(Reserved(n))
  BY DEF Load, Units, Reserved, HoldsReservation
<1>2. Load({}) = 0
  BY FS_EmptySet DEF Load, Units
<1> QED
  BY <1>1, <1>2 DEF Exact

LEMMA NodeStepKeepsBooks ==
  ASSUME IInv, NodeStep, ~(\E Stale \in SUBSET Nodes : MarkStaleNodeHeartbeatsOffline(Stale)),
         NEW n \in Nodes, Exact(n), ~BreaksBooks(n)
  PROVE  Exact(n)'
<1>1. UNCHANGED <<services, runs>>
  BY Zenon DEF NodeStep, CreateProvisioningNode, BindProvisionedNode,
     RegisterNode, RecordNodeHeartbeatRead, RecordNodeHeartbeatWrite,
     PrepareNodeDeletion, MarkNodeDeleted
<1>2. nodes[n] \in NodeRow /\ nodes \in [Nodes -> NodeRow]
  BY DEF IInv, TypeOK
<1>3. ASSUME NEW m \in Nodes, MarkNodeDeleted(m)
      PROVE  \/ nodes'[n].allocated = nodes[n].allocated
             \/ nodes'[n].allocated = 0 /\ Reserved(n) = {}
  <2>1. m = n => nodes'[n].status = "deleted" /\ nodes'[n].allocated = 0
    BY <1>2, <1>3 DEF MarkNodeDeleted
  <2>2. m # n => nodes'[n] = nodes[n]
    BY <1>2, <1>3 DEF MarkNodeDeleted
  <2> QED
    BY <2>1, <2>2 DEF BreaksBooks
<1>4. ASSUME NEW m \in Nodes,
             \/ CreateProvisioningNode(m) \/ PrepareNodeDeletion(m) \/ RecordNodeHeartbeatRead(m)
             \/ \E i \in Instances : BindProvisionedNode(m, i) \/ RegisterNode(m, i)
      PROVE  nodes'[n].allocated = nodes[n].allocated
  BY <1>2, <1>4 DEF CreateProvisioningNode, PrepareNodeDeletion, RecordNodeHeartbeatRead,
     BindProvisionedNode, RegisterNode
<1>5. ASSUME NEW h \in heartbeats, RecordNodeHeartbeatWrite(h)
      PROVE  nodes'[n].allocated = nodes[n].allocated
  BY <1>2, <1>5 DEF RecordNodeHeartbeatWrite
<1>6. \/ nodes'[n].allocated = nodes[n].allocated
      \/ nodes'[n].allocated = 0 /\ Reserved(n) = {}
  BY <1>3, <1>4, <1>5, Zenon DEF NodeStep
<1> QED
  BY <1>1, <1>6, NodeRowsKeepBooks

LEMMA OfflineKeepsBooks ==
  ASSUME IInv, ServicesKnown, NEW Stale \in SUBSET Nodes, MarkStaleNodeHeartbeatsOffline(Stale),
         NEW n \in Nodes, Exact(n), ~BreaksBooks(n)
  PROVE  Exact(n)'
<1> USE DEF IInv
<1>1. UNCHANGED services /\ nodes[n] \in NodeRow /\ runs \in [Services -> RunRow]
  BY DEF TypeOK, MarkStaleNodeHeartbeatsOffline
<1>2. \A s \in Services :
        runs'[s] = IF \E m \in Stale : s \in Impacted(m) THEN [runs[s] EXCEPT !.status = "failed"]
                                                         ELSE runs[s]
  BY DEF MarkStaleNodeHeartbeatsOffline
<1>3. \A s \in Services : runs[s].status # "absent" => services[s].desired # "absent"
  BY <1>1 DEF TypeOK, RunFollowsService, ServicesKnown, Placement
<1>4. \A s \in Services : runs[s] \in RunRow /\ services[s].desired \in DesiredStates
  BY DEF TypeOK
<1>5. CASE n \in Stale
  <2>1. nodes'[n] = [nodes[n] EXCEPT !.status = "offline", !.schedulable = FALSE,
                                     !.allocated = Floor(@ - Load(Impacted(n)))]
    BY <1>5 DEF MarkStaleNodeHeartbeatsOffline
  <2>2. /\ nodes'[n].status = "offline"
        /\ nodes'[n].allocated = Floor(nodes[n].allocated - Load(Impacted(n)))
    BY <1>1, <2>1
  <2>3. \A s \in Impacted(n) : runs'[s].status = "failed"
    BY <1>2, <1>4, <1>5 DEF Impacted
  <2>4. Impacted(n) = Reserved(n)
    <3>1. ASSUME NEW s \in Impacted(n) PROVE s \in Reserved(n)
      BY <1>3, <1>4, <2>2, <2>3, <3>1 DEF BreaksBooks, Impacted, Reserved, HoldsReservation
    <3>2. ASSUME NEW s \in Reserved(n) PROVE s \in Impacted(n)
      BY <3>2 DEF Impacted, Reserved, HoldsReservation
    <3> QED
      BY <3>1, <3>2
  <2>5. Load(Reserved(n)) \in Nat
    BY ReservationsHaveSpecs, LoadIsNat
  <2>6. nodes'[n].allocated = 0
    BY <2>2, <2>4, <2>5 DEF Exact, Floor
  <2>7. Reserved(n)' = {}
    <3> SUFFICES ASSUME NEW s \in Services, runs'[s].node = n, HoldsReservation(s)' PROVE FALSE
      BY DEF Reserved
    <3>1. CASE s \in Impacted(n)
      BY <2>3, <3>1 DEF HoldsReservation
    <3>2. CASE s \notin Impacted(n)
      <4>1. runs'[s].node = runs[s].node
        BY <1>2, <1>4
      <4>2. runs'[s] = runs[s]
        BY <1>2, <3>2, <4>1 DEF Impacted
      <4> QED
        BY <1>1, <3>2, <4>2 DEF Impacted, HoldsReservation
    <3> QED
      BY <3>1, <3>2
  <2>8. Load(Reserved(n))' = 0
    BY <2>7, FS_EmptySet DEF Load, Units
  <2> QED
    BY <2>6, <2>8 DEF Exact
<1>6. CASE n \notin Stale
  <2>1. nodes'[n] = nodes[n]
    BY <1>6 DEF MarkStaleNodeHeartbeatsOffline
  <2>2. \A s \in Services : /\ runs'[s].node = runs[s].node /\ runs'[s].spec = runs[s].spec
                            /\ runs[s].node = n => runs'[s] = runs[s]
    <3> SUFFICES ASSUME NEW s \in Services
                 PROVE  /\ runs'[s].node = runs[s].node /\ runs'[s].spec = runs[s].spec
                        /\ runs[s].node = n => runs'[s] = runs[s]
      OBVIOUS
    <3>1. runs'[s] \in {runs[s], [runs[s] EXCEPT !.status = "failed"]} /\ runs[s] \in RunRow
      BY <1>2, <1>4
    <3>2. runs[s].node = n => ~ \E m \in Stale : s \in Impacted(m)
      BY <1>6 DEF Impacted
    <3>3. runs[s].node = n => runs'[s] = runs[s]
      BY <1>2, <3>2
    <3> QED
      BY <3>1, <3>3
  <2>3. Reserved(n)' = Reserved(n)
    BY <1>1, <2>2 DEF Reserved, HoldsReservation
  <2>4. Load(Reserved(n))' = Load(Reserved(n))
    <3>1. LoadOf(runs', Reserved(n)) = LoadOf(runs, Reserved(n))
      BY <2>2, LoadOfSpecs DEF Reserved
    <3> QED
      BY <2>3, <3>1 DEF Load, Units, LoadOf, UnitsOf
  <2> QED
    BY <2>1, <2>4 DEF Exact
<1> QED
  BY <1>5, <1>6

-----------------------------------------------------------------------------
LEMMA BooksStep ==
  ASSUME IInv, ServicesKnown, Transaction, NEW n \in Nodes, Exact(n), ~BreaksBooks(n)
  PROVE  Exact(n)'
<1>1. IInv'
  BY TransactionInv
<1>2. ASSUME UNCHANGED <<services, runs, nodes>> PROVE Exact(n)'
  BY <1>2, NodeRowsKeepBooks
<1>3. CASE UNCHANGED vars \/ CloudPlaneRestart
  BY <1>2, <1>3 DEF vars, CloudPlaneRestart
<1>4. CASE ServiceStep
  <2>1. ASSUME NEW s \in Services, NEW g \in Generations, DeleteServiceRead(s, g) PROVE Exact(n)'
    BY <1>2, <2>1 DEF DeleteServiceRead
  <2> QED
    BY <1>1, <1>4, <2>1, UpsertKeepsBooks, DeleteKeepsBooks DEF ServiceStep
<1>5. CASE RunStep
  <2>1. ASSUME NEW s \in Services, MarkServiceRunFailed(s) PROVE Exact(n)'
    BY <1>1, <2>1, FailingKeepsBooks DEF MarkServiceRunFailed
  <2>2. ASSUME NEW s \in Services, NEW g \in Generations,
               MarkPendingServiceRunFailedForProvisioningNode(s, g)
        PROVE  Exact(n)'
    BY <1>1, <2>2, FailingKeepsBooks DEF MarkPendingServiceRunFailedForProvisioningNode
  <2>3. issued \subseteq WorkItem
    BY DEF IInv, TypeOK
  <2> QED
    BY <1>1, <1>5, <2>1, <2>2, <2>3, ClaimKeepsBooks, ReportKeepsBooks DEF RunStep
<1>6. CASE NodeStep
  BY <1>6, NodeStepKeepsBooks, OfflineKeepsBooks
<1>7. ASSUME NEW w \in WorkItem, NEW status \in Outcomes(w.action),
             UpdateExecutionFromNodeReport(w, status)
      PROVE  Exact(n)'
  BY <1>1, <1>7, ReportKeepsBooks
<1> QED
  BY <1>3, <1>4, <1>5, <1>6, <1>7 DEF Transaction, Next

\* The counter of a node, kept by hand in six transactions, stays the sum of what its
\* runs reserve, for any number of services and nodes, after every transaction but the
\* four that BreaksBooks names.
THEOREM BooksAreExact == Spec => BooksStayExact
<1> DEFINE A == \A n \in Nodes : Exact(n) /\ ~BreaksBooks(n) => Exact(n)'
<1>1. Init => ServicesKnown
  BY DEF Init, ServicesKnown, NoService
<1>2. IInv /\ ServicesKnown /\ [Next]_vars => ServicesKnown'
  BY ServicesKnownInductive DEF Transaction
<1>3. IInv /\ ServicesKnown /\ [Next]_vars => A
  BY BooksStep DEF Transaction
<1> HIDE DEF A
<1>4. Spec => [][A]_vars
  BY <1>1, <1>2, <1>3, Invariance, PTL DEF Spec
<1> QED
  BY <1>4 DEF BooksStayExact, A
=============================================================================
