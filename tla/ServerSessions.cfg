\* Handshakes repeated, lost and replayed; both clients behind one address, so
\* that their session_ids may collide in the server's tables.
CONSTANTS
  laptop = laptop
  workstation = workstation
  nat = nat
  home = home
  mobile = mobile
  Size = 2
  Clients <- MCClients
  Addresses = {nat}
  AddressesOf <- SharedAddresses
  SessionIds = {1, 2}
  CacheSize = 3
  MaxSequence = 0
  Attempts = 2
  MaxHellos = 3
  MaxSessions = 3
  MaxRestarts = 0
  UpTypes = {}
  Sources = {}
  TunFits = {}
  LateHellos = FALSE
  Faults = FALSE
SPECIFICATION Spec
INVARIANTS OneSessionPerHello ConnectedIsServed TablesAgree
PROPERTIES TableSpec
\* A server that an exception has ended stays down.
CHECK_DEADLOCK FALSE
