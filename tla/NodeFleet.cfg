SPECIFICATION BoundedSpec
CONSTANTS
  s1 = s1
  s2 = s2
  small = small
  large = large
  huge = huge
  Services = {s1, s2}
  Specs = {small, large, huge}
  Request <- MCRequest
  Nodes = {n1, n2}
  Instances = {i1, i2}
  Capacity <- MCCapacity
  RunIDs = {r1, r2}
  MaxGeneration = 2
  MaxTransactions = 2
  InstanceUnits = 2
  MaxFaults = 1
  NoNode = NoNode
  NoInstance = NoInstance
  NoRunID = NoRunID
  NoSpec = NoSpec
  NoToken = NoToken
CHECK_DEADLOCK FALSE
INVARIANT FleetTypeOK
INVARIANT OneNodePerGeneration
INVARIANT DrainingIsIdle
INVARIANT SchedulableByStatus
PROPERTY InstancesStayOwned
PROPERTY DrainsHold
PROPERTY NodesSettle
PROPERTY UnplacedRunsSettle
