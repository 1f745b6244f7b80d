CONSTANTS
  p1 = p1
  p2 = p2
  Planes <- MCPlanes
  Scenarios <- MCScenarios
SPECIFICATION MinictlSpec
INVARIANT MinictlTypeOK
INVARIANT CleanAfterDestroy
INVARIANT RemainsCanBeFound
INVARIANT RecordPointsToFunction
PROPERTY DestroyedInTheEnd
