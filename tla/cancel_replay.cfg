SPECIFICATION CSpec
CONSTANTS
  r1 = r1  r2 = r2  r3 = r3
  b1 = b1  b2 = b2
  NoTask = NoTask
  Readers = {r1, r2, r3}
  Logins = {}
  Logouts = {}
  Tasks = {r1, r2, r3}
  Brokers = {b1, b2}
  BrokerOf <- MCBrokerOf
  MaxIssued = 3
  MaxClients = 1
  MaxCrashes = 0
  MaxCancels = 1
INVARIANTS
  NoReplay
