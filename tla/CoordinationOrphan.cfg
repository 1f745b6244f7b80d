SPECIFICATION CoordSpec
CONSTANTS
  p1 = p1
  p2 = p2
  h1 = h1
  h2 = h2
  Scenarios <- MCQuietScenarios
  Planes = {p1, p2}
  Hosts = {h1, h2}
  aliyun = aliyun
  Providers = {aliyun}
  Provider <- MCProvider
  Slots = {1, 2}
  MaxServices = 2
  NoPlane = NoPlane
  NoOwner = NoOwner
CHECK_DEADLOCK FALSE
INVARIANT DeletedHasNoRecords
