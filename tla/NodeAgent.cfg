SPECIFICATION AgentSpec
CONSTANTS
  small = small
  Services = {s1}
  Specs = {small}
  Request <- MCRequest
  Nodes = {n1}
  Instances = {i1}
  AgentNode = n1
  AgentInstance = i1
  Capacity <- MCCapacity
  RunIDs = {r1, r2}
  MaxGeneration = 2
  MaxTransactions = 2
  MaxFaults = 1
  NoNode = NoNode
  NoInstance = NoInstance
  NoRunID = NoRunID
  NoSpec = NoSpec
  NoItem = NoItem
CHECK_DEADLOCK FALSE
INVARIANT AgentTypeOK
INVARIANT RunningIsServed
PROPERTY ContainersStayTracked
PROPERTY RunsSettle
