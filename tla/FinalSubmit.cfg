SPECIFICATION LiveSpec
CONSTANTS
  Callers = {c1, c2, c3}
  Kinds = {"authorize_engine_finish", "submit_self", "mark_submitted", "detect_submission", "submit_step"}
  Overlap = TRUE
  None = None
INVARIANTS TypeOK OutcomeMatchesRow AnsweredIsRecorded
PROPERTIES OutcomeStands EmergencyByUserOnly GuardReleased
CHECK_DEADLOCK FALSE
