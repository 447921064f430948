SPECIFICATION Spec
CONSTANTS
  Segments <- TwoSegments
  Ranges = {}
  Offsets = {}
  Durations = {}
  Positions = {1}
  MaxTime = 4
  MaxBuffers = 1
  MaxSamples = 3
  MaxBytes = 3
  MaxTotal = 5
  SizeLimit = 16
  Future = 1
  Enough = 2
  LastCall = 5
PROPERTY RefusedChangesNothing
CHECK_DEADLOCK FALSE
