SPECIFICATION RunsSpec
CONSTANTS
  MaxRuns = 2
  MaxText = 1
  Subs = {s1}
INVARIANT SubscribersAreWoken
CHECK_DEADLOCK FALSE
