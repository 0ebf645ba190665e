SPECIFICATION Spec
CONSTANTS
  Docs = {d1, d2}
  None = None
  Sessions <- ExportSessions
  MaxRequests = 1
  MaxVersions = 2
  MaxFaults = 0
INVARIANT ExportReadsWhatIsSeen
CHECK_DEADLOCK FALSE
