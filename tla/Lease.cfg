SPECIFICATION Spec
CONSTANTS
  Procs = {p1, p2, p3}
  Threads = {t1, t2}
  None = None
  TTL = 1
  MaxKills = 2
INVARIANTS TypeOK OneOwner MarkerHeld
PROPERTY OwnersFileStays
