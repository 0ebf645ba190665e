SPECIFICATION Spec
CONSTANTS
  Docs = {d1, d2}
  None = None
  Sessions <- MCSessions
  MaxRequests = 2
  MaxVersions = 3
  MaxFaults = 1
SYMMETRY Symmetry
INVARIANT TypeOK
PROPERTIES AiVersionsKept TypedTextKept 
CHECK_DEADLOCK FALSE
