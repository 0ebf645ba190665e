SPECIFICATION Spec
CONSTANTS
  Requests = {"submit_self"}
  Overlap = FALSE
  FailureCap = 2
  MaxCrashes = 1
  MaxFaults = 0
  MaxBox = 2
  None = None
INVARIANT DecisionKept
CHECK_DEADLOCK FALSE
