SPECIFICATION FrontDoorSpec
CONSTANTS
  Hosts = {1, 2}
  Nodes = {n1}
  NoNode = NoNode
  NoRoute = NoRoute
  NoConfig = NoConfig
  Troubles <- MCTroubles
  MaxChanges = 3
  MaxFaults = 1
INVARIANT FrontDoorTypeOK
INVARIANT DomainsAreRemembered
PROPERTY DomainsAreManaged
PROPERTY RoutesReachCaddy
PROPERTY FrontDoorsComeUp
PROPERTY DomainsGoAway
