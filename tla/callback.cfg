SPECIFICATION FairSpec
CONSTANTS
  k1 = k1
  k2 = k2
  k3 = k3
  k4 = k4
  MaxStrays = 1
  Connections = {k1, k2, k3, k4}
INVARIANTS
  NoCodeAfterMismatch
  StraysEndTheLogin
PROPERTY
  LoginReturns
CHECK_DEADLOCK FALSE
