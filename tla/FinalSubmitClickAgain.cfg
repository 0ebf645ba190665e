SPECIFICATION LiveSpec
CONSTANTS
  Callers = {c1, c2}
  Kinds = {"authorize_engine_finish"}
  Overlap = FALSE
  None = None
PROPERTY NoClickAfterSubmission
CHECK_DEADLOCK FALSE
