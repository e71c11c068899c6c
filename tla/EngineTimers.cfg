\* Timers only, on a network that loses nothing and replays everything, with a
\* client that may stop.
CONSTANTS
  Size = 2
  Encrypted = TRUE
  KeepaliveInterval <- EveryTwoTicks
  LivenessTimeout <- AfterFive
  MaxSequence = 6
  MaxTunPacket = 65475
  TunSizes <- NoTun
  MaxDelay = 1
  StartSkew = 1
  Lossy = FALSE
  Faults = FALSE
  Stoppable = {"client"}
SPECIFICATION FairSpec
INVARIANT NoFalseTimeout
PROPERTY DeadPeerDetected
