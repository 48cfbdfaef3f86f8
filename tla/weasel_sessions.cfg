CONSTANTS
  Clients = {c1}
  Deployers = {d1, d2}
  MaxStarts = 2
  MaxLeaves = 1
  RetryLimit = 2
  Stride = 10
  None = None
  Server = Server
SPECIFICATION FairSpec
INVARIANTS TypeOK MaintenanceIsExclusive ActiveIsHeld
PROPERTIES KeysReachEngine TypingRestartsServer
