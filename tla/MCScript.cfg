SPECIFICATION MCSpec
CONSTANTS
  text = text
  None = None
  DocumentName = document
  WindowName = window
  Names = {document, window}
  Scalars = {text}
  ScalarCost <- MCScalarCost
  HandleCost = 1
  ObjectBase = 2
  MaxObjects = 3
  MaxProperties = 2
  MaxHeapBytes = 8
  GenerationModulus = 3
  MaxAllocations = 4
  MaxCollections = 2
  Addresses = {1, 2, 3}
  MaxJobs = 3
  MaxReactions = 2
  JobCalls = 8
  MaxNodes = 4
  MaxDepth = 3
  MaxPath = 3
  MaxShadows = 2
  LastId = 6
  DocumentCalls = 5
  Markup <- Fragments
  Elements = {"r", "x", "y", "z"}
  RootElement = "r"
  Classes = {"a", "b"}
  Rules <- SheetRules
  Written = {"a", "b"}
  Inlines = {"none", "ink"}
  MaxCache = 3
  StyleCalls = 3
INVARIANTS
  Accounting
  SlotsSound
  TreeSound
  RenderIsCurrent
  BoundaryHides
  OwedOnce
  StylesAreCurrent
PROPERTIES
  CollectsExactlyGarbage
  SettlesOnce
\* Runs stop at the bounds on allocations, identities and calls.
CHECK_DEADLOCK FALSE
