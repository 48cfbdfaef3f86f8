SPECIFICATION FairSpec
CONSTANTS
  Managers = {"ime", "page"}
  Callers = {"ime", "signIn", "sync"}
  ManagerOf <- Users
  SignIns = {"signIn"}
  MaxExpiries = 1
  MaxSignIns = 1
  MaxFaults = 1
  None = None
INVARIANTS
  TypeOK
  SuccessorComes
  StoredWhole
  MutexKeepsUser
PROPERTIES
  ExpiredIsRenewed
