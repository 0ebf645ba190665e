SPECIFICATION RunsLiveSpec
CONSTANTS
  MaxRuns = 2
  MaxText = 1
  Subs = {s1, s2}
INVARIANTS RunsTypeOK IdleRunWillBeEvicted NobodyWaitsForever
PROPERTIES GivenInOrder EndedStreamIsWhole SubscribersReleased
CHECK_DEADLOCK FALSE
