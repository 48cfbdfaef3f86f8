SPECIFICATION Spec
CONSTANTS
  Managers = {"ime", "page"}
  Callers = {"ime", "signIn", "sync"}
  ManagerOf <- Users
  SignIns = {"signIn"}
  MaxExpiries = 1
  MaxSignIns = 1
  MaxFaults = 0
  None = None
PROPERTIES
  SignInLasts
