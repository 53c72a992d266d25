SPECIFICATION Spec
CONSTANTS
  Surfaces <- MCSurfaces
  FirstTree <- MCFirstTree
  Amendments <- MCAmendments
  Unsupported <- MCUnsupported
  EmptySchema = EmptySchema
  NoTree = NoTree
  MaxVersion = 2
  MaxDay = 2
  MaxChanges = 2
  MaxRuns = 2
CHECK_DEADLOCK FALSE
INVARIANTS
  ReleaseIsWhole DecisionsCarriedForward RefreshRestoresReadiness NoDriftIsReady
  LinksResolve PreparedIsReleasable
PROPERTIES RunsSpec TagsNeverMove
