CONSTANTS
  Attempts = 3
  HandshakeTimeout <- Timeout
  ReconnectDelay <- Delay
  KeepaliveInterval <- Interval
  LivenessTimeout <- Liveness
  MaxDelay = 1
  MaxLate = 3
  MaxFaults = 2
SPECIFICATION Spec
INVARIANTS TypeOK AnswersMatchHellos RecoveredInTime
PROPERTY ConnectedStays
