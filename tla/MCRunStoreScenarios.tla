------------------------- MODULE MCRunStoreScenarios -------------------------
(* Two scenarios of RunStore in one run: a single service of two sizes while the *)
(* node comes and goes, and two small services on a fleet that is ready.         *)
EXTENDS MCRunStore

VARIABLE fleet   \* which of the two, chosen once

\* The services that a request has named.
Known == {s \in Services : services[s] # NoService \/ \E d \in deletes : d.service = s}

ScenarioInit == (Init /\ fleet = FALSE) \/ (FleetInit /\ fleet = TRUE)

ScenarioNext ==
  /\ UNCHANGED fleet
  /\ \/ ~fleet /\ Next /\ Cardinality(Known') <= 1
     \/ fleet /\ FleetNext /\ \A s \in Services : services'[s].spec # large

ScenarioSpec == ScenarioInit /\ [][ScenarioNext]_<<vars, fleet>>
==============================================================================
