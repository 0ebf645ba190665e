SPECIFICATION LiveSpec
CONSTANTS
  Requests = {"submit_self", "authorize_engine_finish", "mark_submitted", "detect_submission", "resume_step"}
  Overlap = FALSE
  FailureCap = 2
  MaxCrashes = 1
  MaxFaults = 1
  MaxBox = 2
  None = None
INVARIANTS TypeOK SubmitOnlyPastEveryGate
PROPERTIES OutcomeMatchesStatus FollowsLifecycle MailboxLosesNothing WaitingAppYields FailedPassReclaims ReviewedIsRequested SurvivingDecisionRecorded
CHECK_DEADLOCK FALSE
