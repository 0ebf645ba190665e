--------------------------- MODULE LifecycleTable ---------------------------
(***************************************************************************)
(* The legal moves of an application's status: the transition table and    *)
(* the operators over it.  No state, so that every module that carries a   *)
(* status can use it.                                                      *)
(***************************************************************************)
EXTENDS Naturals, FiniteSets

DISCOVERED  == "DISCOVERED"
SCORED      == "SCORED"
DIGESTED    == "DIGESTED"
DECLINED    == "DECLINED"
APPROVED    == "APPROVED"
SANDBOX_PROVISIONING == "SANDBOX_PROVISIONING"
ACCOUNT_PREFILL      == "ACCOUNT_PREFILL"
AWAITING_ACCOUNT_HUMAN_STEP == "AWAITING_ACCOUNT_HUMAN_STEP"
PREFILLING           == "PREFILLING"
BLOCKED_DETECTION    == "BLOCKED_DETECTION"
BLOCKED_MISSING_ATTR == "BLOCKED_MISSING_ATTR"
BLOCKED_QUESTION     == "BLOCKED_QUESTION"
MATERIAL_PREP        == "MATERIAL_PREP"
MATERIAL_REVIEW      == "MATERIAL_REVIEW"
AWAITING_FINAL_APPROVAL == "AWAITING_FINAL_APPROVAL"
SUBMITTED_BY_USER    == "SUBMITTED_BY_USER"
FINISHED_BY_ENGINE   == "FINISHED_BY_ENGINE"
EMERGENCY_DATA_HANDOFF == "EMERGENCY_DATA_HANDOFF"
FAILED               == "FAILED"
POST_SUBMISSION      == "POST_SUBMISSION"
AWAITING_RESPONSE    == "AWAITING_RESPONSE"
REJECTED    == "REJECTED"
GHOSTED     == "GHOSTED"
FOLLOWING_UP == "FOLLOWING_UP"
ARCHIVED    == "ARCHIVED"

Blocked    == {BLOCKED_DETECTION, BLOCKED_MISSING_ATTR, BLOCKED_QUESTION}
Submitted  == {SUBMITTED_BY_USER, FINISHED_BY_ENGINE}
PostStates == {POST_SUBMISSION, AWAITING_RESPONSE, REJECTED, GHOSTED,
               FOLLOWING_UP, ARCHIVED}
TERMINAL_STATES == {DECLINED, FAILED, ARCHIVED}

ApplicationState ==
  {DISCOVERED, SCORED, DIGESTED, APPROVED, SANDBOX_PROVISIONING,
   ACCOUNT_PREFILL, AWAITING_ACCOUNT_HUMAN_STEP, PREFILLING, MATERIAL_PREP,
   MATERIAL_REVIEW, AWAITING_FINAL_APPROVAL, EMERGENCY_DATA_HANDOFF}
  \cup Blocked \cup Submitted \cup PostStates \cup TERMINAL_STATES

(* _TRANSITIONS, as the set of its edges.                                  *)
Transitions ==
  ({DISCOVERED} \X {SCORED})
  \cup ({SCORED} \X {DIGESTED})
  \cup ({DIGESTED} \X {DECLINED, APPROVED})
  \cup ({APPROVED} \X {SANDBOX_PROVISIONING})
  \cup ({SANDBOX_PROVISIONING} \X {ACCOUNT_PREFILL, PREFILLING})
  \cup ({ACCOUNT_PREFILL} \X {AWAITING_ACCOUNT_HUMAN_STEP, PREFILLING})
  \cup ((Blocked \cup {AWAITING_ACCOUNT_HUMAN_STEP}) \X {PREFILLING})
  \cup ({PREFILLING} \X (Blocked \cup {AWAITING_ACCOUNT_HUMAN_STEP, MATERIAL_PREP,
                                       EMERGENCY_DATA_HANDOFF}))
  \cup ({MATERIAL_PREP} \X {MATERIAL_REVIEW})
  \cup ({MATERIAL_REVIEW} \X {MATERIAL_PREP, AWAITING_FINAL_APPROVAL, DECLINED})
  \cup ({AWAITING_FINAL_APPROVAL} \X Submitted)
  \cup ({EMERGENCY_DATA_HANDOFF} \X {SUBMITTED_BY_USER})
  \cup (Submitted \X {POST_SUBMISSION})
  \cup ({POST_SUBMISSION} \X {AWAITING_RESPONSE, REJECTED, GHOSTED})
  \cup ({AWAITING_RESPONSE} \X {REJECTED, GHOSTED, FOLLOWING_UP, ARCHIVED})
  \cup ({REJECTED} \X {ARCHIVED})
  \cup ({GHOSTED} \X {FOLLOWING_UP, ARCHIVED})
  \cup ({FOLLOWING_UP} \X {REJECTED, GHOSTED, AWAITING_RESPONSE, ARCHIVED})

(* allowed_transitions: FAILED can be reached from every non-terminal state. *)
AllowedTransitions(s) ==
  {t \in ApplicationState : <<s, t>> \in Transitions}
    \cup (IF s \in TERMINAL_STATES THEN {} ELSE {FAILED})

CanTransition(s, t) == t \in AllowedTransitions(s)

(* The states that one or more legal moves lead to: where the persisted    *)
(* status may next be found, since the code walks several moves in memory  *)
(* and writes only the state it lands in. A path that visits no state      *)
(* twice has fewer than 2^5 moves.                                         *)
Moves == [s \in ApplicationState |-> AllowedTransitions(s)]

Doubled(r) == [s \in ApplicationState |-> r[s] \cup UNION {r[t] : t \in r[s]}]

ReachableFrom == Doubled(Doubled(Doubled(Doubled(Doubled(Moves)))))
=============================================================================
