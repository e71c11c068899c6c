\* Packets both ways through two sessions, replayed, with foreign inner sources,
\* packets too large, and failing system calls.
CONSTANTS
  laptop = laptop
  workstation = workstation
  nat = nat
  home = home
  mobile = mobile
  Size = 2
  Clients <- MCClients
  Addresses = {home, nat}
  AddressesOf <- OwnAddresses
  SessionIds = {1}
  CacheSize = 2
  MaxSequence = 1
  Attempts = 1
  MaxHellos = 2
  MaxSessions = 2
  MaxRestarts = 0
  UpTypes = {"DATA"}
  Sources <- MCClients
  TunFits = {TRUE, FALSE}
  LateHellos = FALSE
  Faults = TRUE
SPECIFICATION Spec
SYMMETRY Swap
INVARIANTS TypeOK WrittenAtMostOnce WrittenFromOwner DownlinkIsPrivate
\* A server that an exception has ended stays down.
CHECK_DEADLOCK FALSE
