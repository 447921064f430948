SPECIFICATION Spec
CONSTANTS
  QueueLimit = 2
  LastMessage = 3
INVARIANT HealthySocketSends
CHECK_DEADLOCK FALSE
