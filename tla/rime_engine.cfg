SPECIFICATION FairSpec
CONSTANTS
  Clients = {c1, c2}
  Operations = {o1, o2}
  Empty = Empty
INVARIANTS
  TypeOK
  HoldersHaveEngine
  LeaseKeepsDispatcher
  NoJobDropped
  NoLostWakeup
PROPERTIES
  ImplementsLease
  OperationsFinish
  LockIsReleased
