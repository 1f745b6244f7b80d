--------------------------- MODULE MCCoordination ---------------------------
(* Constants for the runs that check Coordination. *)
EXTENDS Coordination

CONSTANTS p1, p2, h1, h2, aliyun

\* Both planes are of one provider: their services share its verification record.
MCProvider == [p \in Planes |-> aliyun]

Bounds(place, slots, generations, failures) ==
  [place |-> place, slots |-> 1..slots, generations |-> generations, faults |-> failures]

\* One service that is updated, deleted and created a second time; namesakes on two
\* planes, which share a CNAME; and services of one plane, which share its synchronisations.
MCScenarios ==
  {Bounds(<<<<p1, h1>>, <<p1, h1>>>>, 2, 3, 1),
   Bounds(<<<<p1, h1>>, <<p2, h1>>>>, 2, 1, 0),
   Bounds(<<<<p1, h1>>, <<p1, h2>>>>, 1, 2, 1)}

\* Nothing fails: what is left is the order of the requests.
MCQuietScenarios == {Bounds(<<<<p1, h1>>>>, 2, 1, 0)}
=============================================================================
