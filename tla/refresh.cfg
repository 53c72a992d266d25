SPECIFICATION Spec
CONSTANTS
  r1 = r1  r2 = r2  r3 = r3  in1 = in1  in2 = in2  out = out
  b1 = b1  b2 = b2  b3 = b3  b4 = b4
  NoTask = NoTask
  Readers = {r1, r3}
  Logins = {in1}
  Logouts = {out}
  Tasks = {r1, r3, in1, out}
  Brokers = {b1, b2, b3}
  BrokerOf <- MCBrokerOf
  MaxIssued = 2
  MaxClients = 2
  MaxCrashes = 1
INVARIANTS
  LocksHeldByTheirOwners
  RefreshIsCurrent
  NoReplay
  RefusalExplained
PROPERTIES
  StoreKeepsLineage
