\* A server whose TUN has nothing for the client; the network is perfect.
CONSTANTS
  Size = 2
  Encrypted = TRUE
  KeepaliveInterval <- ClientInterval
  LivenessTimeout <- ClientTimeout
  MaxSequence = 4
  MaxTunPacket = 65475
  TunSizes <- OneSize
  MaxDelay = 0
  StartSkew = 0
  TrafficGap = 9
  Lossy = FALSE
  Faults = FALSE
  Stoppable = {}
SPECIFICATION ServedSpec
INVARIANT TimeoutMeansSilentPeer
