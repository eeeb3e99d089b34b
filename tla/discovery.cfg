SPECIFICATION Spec
CONSTANTS
  Service = s
  IntMax = 31
  HeartbeatTimeout = 4
  HeartbeatInterval = 1
  CheckInterval = 1
  OfflineLoops = {3}
  LoopPause = 1
  PresenceDelay = 0
  AnswerPeriod = 1
  AnswerDelay = 1
  Skew = 1
  MaxFaults = 1
  MaxNow = 8
INVARIANTS TypeOK SteadyIsMember GhostIsBrief
PROPERTY HeartbeatMonotone
CHECK_DEADLOCK FALSE
