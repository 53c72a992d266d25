SPECIFICATION Spec
CONSTANTS
  r1 = r1  r2 = r2  r3 = r3  in1 = in1  in2 = in2  out = out
  b1 = b1  b2 = b2  b3 = b3  b4 = b4
  NoTask = NoTask
  Readers = {r1}
  Logins = {in1}
  Logouts = {}
  Tasks = {r1, in1}
  Brokers = {b1, b3}
  BrokerOf <- MCBrokerOf
  MaxIssued = 2
  MaxClients = 2
  MaxCrashes = 0
INVARIANT OneWindow
