\* Data and keepalives both ways, faults, and processes that stop.
CONSTANTS
  Size = 2
  Encrypted = TRUE
  KeepaliveInterval <- EveryTick
  LivenessTimeout <- AfterThree
  MaxSequence = 2
  MaxTunPacket = 65475
  TunSizes <- OneSize
  MaxDelay = 1
  StartSkew = 0
  Lossy = FALSE
  Faults = TRUE
  Stoppable = {"client"}
SPECIFICATION Spec
INVARIANTS TypeOK NoncesAreFresh AtMostOnce OnlyPeerData 
PROPERTY LateInWindowIsWritten
