SPECIFICATION Spec
CONSTANTS
  Callers = {c1, c2}
  Kinds = {"submit_self", "submit_step"}
  Overlap = TRUE
  None = None
INVARIANT OneEvent
CHECK_DEADLOCK FALSE
