\* A server whose TUN pauses for at most two ticks.
CONSTANTS
  Size = 2
  Encrypted = TRUE
  KeepaliveInterval <- WideInterval
  LivenessTimeout <- WideTimeout
  MaxSequence = 2
  MaxTunPacket = 65475
  TunSizes <- OneSize
  MaxDelay = 1
  StartSkew = 0
  TrafficGap = 2
  Lossy = FALSE
  Faults = FALSE
  Stoppable = {"server"}
SPECIFICATION ServedSpec
INVARIANT TrafficKeepsAlive
