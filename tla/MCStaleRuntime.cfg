\* Two pages, one with a script that keeps running.
CONSTANTS
  WebPages = {a, b}
  SearchPages = {}
  NewTabPage = newtab
  Oversize = {}
  Scripted = {a}
  YouTubePages = {}
  Illustrated = {}
  MaxHistory = 3
  MaxClosed = 1
  MaxTabs = 2
  MaxLoads = 5
  Root = Root
  ErrorPage = ErrorPage
  None = None
SPECIFICATION Spec
INVARIANTS DocumentMatchesAddress
\* A run stops when the user has no loads left to start (MaxLoads).
CHECK_DEADLOCK FALSE
