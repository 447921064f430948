\* One web page and one search.
CONSTANTS
  WebPages = {a}
  SearchPages = {q}
  NewTabPage = newtab
  Oversize = {}
  Scripted = {}
  YouTubePages = {}
  Illustrated = {}
  MaxHistory = 3
  MaxClosed = 1
  MaxTabs = 2
  MaxLoads = 5
  Root = Root
  ErrorPage = ErrorPage
  None = None
SPECIFICATION Spec
INVARIANTS NothingIsDiverted
\* A run stops when the user has no loads left to start (MaxLoads).
CHECK_DEADLOCK FALSE
