SPECIFICATION LiveSpec
CONSTANTS
  MaxRuns = 1
  MaxText = 1
  Socks = {w1, w2}
  Sse = sse
  Subs = {w1, w2, sse}
  MaxReconnects = 1
  MaxRestarts = 1
INVARIANT TypeOK
PROPERTIES ImplementsOrderedStream ReaderEnds
CHECK_DEADLOCK FALSE
