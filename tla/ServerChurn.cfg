\* Late hellos, a small cache, a restart, a moving client, failing sends.
CONSTANTS
  laptop = laptop
  workstation = workstation
  nat = nat
  home = home
  mobile = mobile
  Size = 2
  Clients <- MCClients
  Addresses = {home, mobile, nat}
  AddressesOf <- MovingAddresses
  SessionIds = {1}
  CacheSize = 1
  MaxSequence = 0
  Attempts = 1
  MaxHellos = 3
  MaxSessions = 3
  MaxRestarts = 1
  UpTypes = {}
  Sources = {}
  TunFits = {}
  LateHellos = TRUE
  Faults = TRUE
SPECIFICATION Spec
INVARIANTS TablesAgree ReplaceNeverFails
\* A server that an exception has ended stays down.
CHECK_DEADLOCK FALSE
