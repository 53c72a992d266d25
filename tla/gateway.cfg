SPECIFICATION FairSpec
CONSTANTS
  c1 = c1
  c2 = c2
  Callers = {c1, c2}
  NoCaller = NoCaller
  Requested <- MCRequested
  Manifest <- MCManifest
  Arguments <- MCArguments
  Copies <- MCCopies
  MaxCancels = 1
INVARIANTS
  OneDiscovery
  NoRequestWithoutThePin
  DenialDisclosesNothing
PROPERTIES
  KeepsTheGate
  InvokesReturn
