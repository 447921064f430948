CONSTANTS
  WebPages = {a, b, y}
  SearchPages = {}
  NewTabPage = newtab
  Oversize = {b}
  Scripted = {a}
  YouTubePages = {y}
  Illustrated = {a}
  MaxHistory = 2
  MaxClosed = 1
  MaxTabs = 3
  MaxLoads = 3
  Root = Root
  ErrorPage = ErrorPage
  None = None
  Pictures = {0, 3, 6, 11}
  Sounds = {0, 2, 5, 8, 11}
  Duration = 13
  Period = 3
  Second = 10
  Rate = 4
  Tolerance = 2
  Steps = {5, 20}
  SinkLimit = 2
  Future = 0
  Enough = 3
  Segments <- PageSegments
  Offsets <- PageOffsets
  Ranges <- PageRanges
  Durations = {2}
  Positions = {1}
  MaxTime = 4
  MaxBuffers = 2
  MaxSamples = 3
  MaxBytes = 3
  MaxTotal = 5
  SizeLimit = 16
  FeedFuture = 1
  FeedEnough = 2
  FeedCalls = 8
  page1 = page1
  query1 = query1
  query2 = query2
SPECIFICATION MCSpec
INVARIANTS AskedPageArrives SupersededIsCancelled HistorySound PicturesFollowControls SamplesDisjoint
  ReadsBack RunsAsSpecified RunsTheTrees
PROPERTIES SearchesResolve
\* A run stops when the user has no loads left to start (MaxLoads).
CHECK_DEADLOCK FALSE
