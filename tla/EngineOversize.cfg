\* An MTU of 65535, which the configuration accepts.
CONSTANTS
  Size = 2
  Encrypted = TRUE
  KeepaliveInterval <- NoTimers
  LivenessTimeout <- NoTimers
  MaxSequence = 2
  MaxTunPacket = 65475
  TunSizes <- Oversize
  MaxDelay = 0
  StartSkew = 0
  Lossy = TRUE
  Faults = FALSE
  Stoppable = {}
SPECIFICATION Spec
INVARIANT TunPacketsAreCarried
