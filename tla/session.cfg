SPECIFICATION Spec
CONSTANTS
  c1 = c1
  c2 = c2
  c3 = c3
  Calls = {c1, c2, c3}
  NoCall = NoCall
  MaxConcurrentCalls = 2
  TotalTimeout = 2
SYMMETRY CallSymmetry
INVARIANTS
  PermitsConserved
  BoundedWait
  FaultReportedOnce
  OutcomeSurvivesTeardown
PROPERTY
  LoneCallReportsItsRefusal
CHECK_DEADLOCK FALSE
