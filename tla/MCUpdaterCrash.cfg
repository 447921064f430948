SPECIFICATION Spec
CONSTANTS
  Hot = {exe, dll}
  Cold = {icon}
  MaxVersion = 3
  MaxFaults = 1
  None = None
INVARIANTS Transactional
