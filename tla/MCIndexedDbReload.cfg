CONSTANTS
  Pages = {p1}
  Databases = {db}
  Stores = {s, t}
  LastKey = 2
  Values <- MCValues
  MaxRecords = 2
  MaxStoreBytes = 3
  MaxOriginBytes = 6
  Quota = 4
  LastVersion = 1
  MaxTransactions = 0
  LastCall = 9
SPECIFICATION Spec
INVARIANT SavedStateLoads
CHECK_DEADLOCK FALSE
