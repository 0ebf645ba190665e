SPECIFICATION Spec
CONSTANTS
  sandbox = sandbox
  llm = llm
  None = None
  Queues = {sandbox, llm}
  Apps = {a1, a2, a3}
  Calls = {c1, c2}
  Work <- MCWork
  WorkOf <- MCWorkOf
  Cap = 1
  Limit = 1
  Period = 2
  Concurrency <- MCConcurrency
  LimiterLimit <- MCLimiterLimit
  LimiterPeriod <- MCLimiterPeriod
  Overlap = FALSE
  MaxTime = 2
SYMMETRY Symmetry
INVARIANTS TypeOK SlotsNeverExceedCap HoldersAreDurable WorkConserving RateBound
PROPERTIES NoOvertaking
CHECK_DEADLOCK FALSE
