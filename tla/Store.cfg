SPECIFICATION ScenarioSpec
CONSTANTS
  small = small
  large = large
  Services = {s1, s2}
  Specs = {small, large}
  Request <- MCRequest
  Nodes = {n1}
  Instances = {i1}
  Capacity <- MCCapacity
  RunIDs = {r1, r2}
  MaxGeneration = 2
  MaxTransactions = 1
  NoNode = NoNode
  NoInstance = NoInstance
  NoRunID = NoRunID
  NoSpec = NoSpec
SYMMETRY StoreSymmetry
INVARIANT TypeOK
INVARIANT RunFollowsService
INVARIANT Placement
INVARIANT DeployingIsOwedAReport
INVARIANT WithinCapacity
PROPERTY StoreImplementsLifecycle
PROPERTY BooksStayExact
