SPECIFICATION MCSpec
CONSTANTS
  Hot = {exe, dll}
  Cold = {icon}
  MaxVersion = 3
  MaxFaults = 2
  None = None
  Urls = {plain, wordy}
  LongTitled = {wordy}
  MaxTreeDepth = 1
  LastFolder = 3
  LastEdit = 3
  MaxCrashes = 2
  MaxFailures = 1
  MaxDamages = 1
  Pages = {p1, p2}
  Databases = {db}
  Stores = {s}
  LastKey = 3
  Values <- MCValues
  MaxRecords = 2
  MaxStoreBytes = 4
  MaxOriginBytes = 3
  Quota = 4
  LastVersion = 2
  MaxTransactions = 1
  LastCall = 7
INVARIANTS
  RestartIsSound
  SavesSurvive
  UniqueIndexHolds
PROPERTIES
  IsDurable
  CallsEnd
CHECK_DEADLOCK FALSE
