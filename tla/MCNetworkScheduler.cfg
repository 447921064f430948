SPECIFICATION MCSpec
CONSTANTS
  a = a
  b = b
  c = c
  bad = bad
  tokenA = tokenA
  tokenB = tokenB
  Requests <- MCRequests
  HttpRequests <- MCHttpRequests
  Tokens = {tokenA, tokenB}
  TokenOf <- MCTokenOf
  MaxConcurrency = 1
  MaxQueued = 2
  MaxRetries = 1
  None = None
  Waiters = {w1, w2}
  Cancellers = {c1, c2}
INVARIANTS
  PermitsConserved
  NoLostWakeup
  ObjectsAgree
PROPERTIES
  ImplementsService
  Answered
  CancelReachesWaiters
  CloseCompletes
  SocketIsReleased
CHECK_DEADLOCK FALSE
