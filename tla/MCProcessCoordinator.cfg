SPECIFICATION MCSpec
CONSTANTS
    Services = {network}
    Origins = {site, other}
    Tabs = {t1, t2}
    ReplyBudget = 2
    MaxPids = 4
    MaxFaults = 2
    None = None
INVARIANTS
  BindingsSound
  SweepRecovers
  IsolatedUnderWatch
  HealthyIsAnswered
PROPERTIES
  CallsReturn
  ExchangeEnds
\* The run stops when MaxPids processes have been spawned.
CHECK_DEADLOCK FALSE
