-------------------------- MODULE FinalSubmitProofs --------------------------
(***************************************************************************)
(* Proofs about the end of an application, for any number of callers of    *)
(* any kinds, overlapping or not.                                          *)
(***************************************************************************)
EXTENDS FinalSubmit, TLAPS

LEMMA GateFacts ==
  /\ BLOCKED_DETECTION \in ApplicationState /\ Gate \subseteq ApplicationState
  /\ Handed \subseteq ApplicationState /\ POST_SUBMISSION \in Handed
  /\ BLOCKED_DETECTION \notin Handed /\ Gate \cap Handed = {}
  /\ BLOCKED_DETECTION \notin Gate
  /\ AWAITING_FINAL_APPROVAL \in Gate /\ EMERGENCY_DATA_HANDOFF \in Gate
  /\ AWAITING_FINAL_APPROVAL # EMERGENCY_DATA_HANDOFF
  /\ FINISHED_BY_ENGINE # EMERGENCY_DATA_HANDOFF
  /\ \A kind : Terminal(kind) \in Handed
  /\ ~CanTransition(EMERGENCY_DATA_HANDOFF, FINISHED_BY_ENGINE)
BY DEF ApplicationState, Gate, Handed, Submitted, Terminal, CanTransition,
   AllowedTransitions, Transitions, Blocked, PostStates, TERMINAL_STATES, DISCOVERED,
   SCORED, DIGESTED, DECLINED, APPROVED, SANDBOX_PROVISIONING, ACCOUNT_PREFILL,
   AWAITING_ACCOUNT_HUMAN_STEP, PREFILLING, BLOCKED_DETECTION, BLOCKED_MISSING_ATTR,
   BLOCKED_QUESTION, MATERIAL_PREP, MATERIAL_REVIEW, AWAITING_FINAL_APPROVAL,
   SUBMITTED_BY_USER, FINISHED_BY_ENGINE, EMERGENCY_DATA_HANDOFF, FAILED,
   POST_SUBMISSION, AWAITING_RESPONSE, REJECTED, GHOSTED, FOLLOWING_UP, ARCHIVED

LEMMA CallLiterals ==
  /\ {"new", "guard", "claim", "click", "load", "send", "check", "commit",
      "enter_post", "release", "answered"} \subseteq Stages
  /\ {"authorize_engine_finish", "submit_self", "submit_step"} \subseteq CallKinds
  /\ Deciding \subseteq CallKinds /\ Recording \subseteq CallKinds
BY DEF Stages, CallKinds, Deciding, Recording

(* Calls stay calls, whichever fields a step of one of them updates.       *)
LEMMA CallUpdates ==
  ASSUME NEW f \in [Callers -> Calls], NEW c \in Callers, NEW a \in Stages
  PROVE  /\ [f EXCEPT ![c].at = a] \in [Callers -> Calls]
         /\ \A s \in ApplicationState :
              [f EXCEPT ![c].copy = s, ![c].at = a] \in [Callers -> Calls]
         /\ \A r \in {"recorded", "refused"} :
              /\ [f EXCEPT ![c].reply = r, ![c].at = a] \in [Callers -> Calls]
              /\ [f EXCEPT ![c].at = a, ![c].reply = r] \in [Callers -> Calls]
<1>1. f[c] \in Calls
  OBVIOUS
<1>2. [f[c] EXCEPT !.at = a] \in Calls
  BY <1>1 DEF Calls
<1>3. \A s \in ApplicationState : [f[c] EXCEPT !.copy = s, !.at = a] \in Calls
  BY <1>1 DEF Calls
<1>4. \A r \in {"recorded", "refused"} : [f[c] EXCEPT !.reply = r, !.at = a] \in Calls
  BY <1>1 DEF Calls
<1>5. \A r \in {"recorded", "refused"} : [f[c] EXCEPT !.at = a, !.reply = r] \in Calls
  BY <1>1 DEF Calls
<1>6. [f EXCEPT ![c].at = a] \in [Callers -> Calls]
  BY <1>2
<1>7. \A s \in ApplicationState : [f EXCEPT ![c].copy = s, ![c].at = a] \in [Callers -> Calls]
  BY <1>3
<1>8. \A r \in {"recorded", "refused"} : [f EXCEPT ![c].reply = r, ![c].at = a] \in [Callers -> Calls]
  BY <1>4
<1>9. \A r \in {"recorded", "refused"} : [f EXCEPT ![c].at = a, ![c].reply = r] \in [Callers -> Calls]
  BY <1>5
<1> QED
  BY <1>6, <1>7, <1>8, <1>9

LEMMA TakenIsCall ==
  ASSUME call \in [Callers -> Calls], NEW c \in Callers, NEW kind \in CallKinds,
         NEW copy \in ApplicationState \cup {None}, NEW at \in Stages,
         NEW reply \in {"recorded", "refused", None}, Take(c, kind, copy, at, reply)
  PROVE  call' \in [Callers -> Calls]
<1>1. [at |-> at, kind |-> kind, copy |-> copy, reply |-> reply] \in Calls
  BY DEF Calls
<1> QED
  BY <1>1 DEF Take

LEMMA EndIsCall ==
  ASSUME call \in [Callers -> Calls], NEW c \in Callers, NEW r \in {"recorded", "refused"},
         End(c, r)
  PROVE  call' \in [Callers -> Calls]
<1> DEFINE a == IF call[c].kind \in Deciding THEN "release" ELSE "answered"
<1>1. a \in Stages
  BY CallLiterals
<1>2. call' = [call EXCEPT ![c].reply = r, ![c].at = a]
  BY DEF End
<1> QED
  BY <1>1, <1>2, CallUpdates

LEMMA GotoIsCall ==
  ASSUME call \in [Callers -> Calls], NEW c \in Callers, NEW a \in Stages, Goto(c, a)
  PROVE  call' \in [Callers -> Calls]
BY CallUpdates DEF Goto

LEMMA RecordedIsCall ==
  ASSUME call \in [Callers -> Calls], NEW c \in Callers, Recorded(c)
  PROVE  call' \in [Callers -> Calls]
BY EndIsCall, GotoIsCall, CallLiterals DEF Recorded

-----------------------------------------------------------------------------
LEMMA TypeStep == TypeOK /\ [Next]_vars => TypeOK'
<1> SUFFICES ASSUME TypeOK, [Next]_vars PROVE TypeOK'
  OBVIOUS
<1> USE DEF row
<1>1. ASSUME NEW c \in Callers, NEW kind \in Kinds, ReadStatus(c, kind)
      PROVE  TypeOK'
  BY <1>1, TakenIsCall, CallLiterals DEF ReadStatus, TypeOK
<1>2. ASSUME NEW c \in Callers, NEW kind \in Kinds, BeginRecording(c, kind)
      PROVE  TypeOK'
  BY <1>2, TakenIsCall, CallLiterals DEF BeginRecording, TypeOK
<1>3. ASSUME NEW c \in Callers, BeginSubmitStep(c)
      PROVE  TypeOK'
  BY <1>3, TakenIsCall, CallLiterals DEF BeginSubmitStep, TypeOK
<1>4. ASSUME NEW c \in Callers, CheckInFlight(c)
      PROVE  TypeOK'
  <2>1. call' \in [Callers -> Calls]
    <3>1. CASE inflight
      <4>1. call' = [call EXCEPT ![c].at = "answered", ![c].reply = "refused"]
        BY <1>4, <3>1 DEF CheckInFlight
      <4>2. "answered" \in Stages
        BY CallLiterals
      <4> QED
        BY <4>1, <4>2, CallUpdates DEF TypeOK
    <3>2. CASE ~inflight
      BY <1>4, <3>2, GotoIsCall, CallLiterals DEF CheckInFlight, TypeOK
    <3> QED
      BY <3>1, <3>2
  <2> QED
    BY <1>4, <2>1 DEF CheckInFlight, TypeOK
<1>5. ASSUME NEW c \in Callers, Claim(c)
      PROVE  TypeOK'
  BY <1>5, GotoIsCall, CallLiterals DEF Claim, TypeOK
<1>6. ASSUME NEW c \in Callers, Click(c)
      PROVE  TypeOK'
  BY <1>6, GotoIsCall, CallLiterals DEF Click, TypeOK
<1>7. ASSUME NEW c \in Callers, ClickRaises(c)
      PROVE  TypeOK'
  BY <1>7, EndIsCall DEF ClickRaises, TypeOK
<1>8. ASSUME NEW c \in Callers, Load(c)
      PROVE  TypeOK'
  <2>1. call' \in [Callers -> Calls]
    <3>1. CASE status \in Gate
      <4> DEFINE a == IF call[c].kind \in Deciding THEN "send" ELSE "check"
      <4>1. a \in Stages
        BY CallLiterals
      <4>2. call' = [call EXCEPT ![c].copy = status, ![c].at = a]
        BY <1>8, <3>1 DEF Load
      <4> QED
        BY <4>1, <4>2, CallUpdates DEF TypeOK
    <3>2. CASE status \notin Gate
      BY <1>8, <3>2, EndIsCall DEF Load, TypeOK
    <3> QED
      BY <3>1, <3>2
  <2> QED
    BY <1>8, <2>1 DEF Load, TypeOK
<1>9. ASSUME NEW c \in Callers, Send(c)
      PROVE  TypeOK'
  BY <1>9, GotoIsCall, CallLiterals DEF Send, TypeOK
<1>10. ASSUME NEW c \in Callers, Check(c)
      PROVE  TypeOK'
  BY <1>10, GotoIsCall, EndIsCall, RecordedIsCall, CallLiterals DEF Check, TypeOK
<1>11. ASSUME NEW c \in Callers, Commit(c)
      PROVE  TypeOK'
  BY <1>11, RecordedIsCall, GateFacts DEF Commit, TypeOK
<1>12. ASSUME NEW c \in Callers, CommitFails(c)
      PROVE  TypeOK'
  BY <1>12, EndIsCall DEF CommitFails, TypeOK
<1>13. ASSUME NEW c \in Callers, EnterPost(c)
      PROVE  TypeOK'
  BY <1>13, EndIsCall, GateFacts DEF EnterPost, TypeOK
<1>14. ASSUME NEW c \in Callers, Release(c)
      PROVE  TypeOK'
  BY <1>14, GotoIsCall, CallLiterals DEF Release, TypeOK
<1>15. CASE LandAtGate
  BY <1>15, GateFacts DEF LandAtGate, TypeOK
<1>16. CASE GenerateMaterial
  BY <1>16 DEF GenerateMaterial, TypeOK
<1>17. CASE ApproveMaterial
  BY <1>17 DEF ApproveMaterial, TypeOK
<1>18. CASE UNCHANGED vars
  BY <1>18 DEF vars, TypeOK
<1> QED
  BY <1>1, <1>2, <1>3, <1>4, <1>5, <1>6, <1>7, <1>8, <1>9, <1>10,
     <1>11, <1>12, <1>13, <1>14, <1>15, <1>16, <1>17, <1>18
  DEF Next, Serve

(* Every variable keeps its type, however many calls are served.           *)
THEOREM FinalSubmitTypeCorrect == Spec => []TypeOK
<1>1. Init => TypeOK
  <2> SUFFICES ASSUME Init PROVE TypeOK
    OBVIOUS
  <2>1. [at |-> "new", kind |-> None, copy |-> None, reply |-> None] \in Calls
    BY CallLiterals DEF Calls
  <2>2. call \in [Callers -> Calls]
    BY <2>1 DEF Init
  <2> QED
    BY <2>2, GateFacts DEF Init, TypeOK
<1> QED
  BY <1>1, TypeStep, PTL DEF Spec

-----------------------------------------------------------------------------
(* What a call knows.  It reaches the commit only with a copy that may     *)
(* move to its terminal status, a call that is past the commit or answered *)
(* has an event behind it, and no copy is of an application that was not   *)
(* at the gate yet.  Copies may be stale, but only by a submission.        *)
Knows(c) ==
  /\ call[c].at = "enter_post" \/ call[c].reply = "recorded" => events > 0
  /\ call[c].at = "commit" => CanTransition(call[c].copy, Terminal(call[c].kind))
  /\ status = BLOCKED_DETECTION => call[c].copy = None /\ call[c].at \notin {"send", "check", "commit"}
  /\ call[c].at \in {"send", "check", "commit"} => call[c].copy \in Gate
  /\ status = EMERGENCY_DATA_HANDOFF => call[c].copy # AWAITING_FINAL_APPROVAL

SubmitInv == OutcomeMatchesRow /\ \A c \in Callers : Knows(c)

(* The calls other than the one that takes a step.                         *)
LEMMA OthersKnow ==
  ASSUME NEW c \in Callers, Knows(c), call'[c] = call[c], events \in Nat, events' \in Nat,
         events' >= events, status' = status \/ status' \notin {BLOCKED_DETECTION, EMERGENCY_DATA_HANDOFF}
  PROVE  Knows(c)'
BY DEF Knows

(* A step of one call that leaves the row alone.                           *)
LEMMA RowAlone ==
  ASSUME TypeOK, SubmitInv, NEW c \in Callers, UNCHANGED row, call' \in [Callers -> Calls],
         \A d \in Callers \ {c} : call'[d] = call[d], Knows(c)'
  PROVE  SubmitInv'
BY OthersKnow DEF SubmitInv, OutcomeMatchesRow, TypeOK, row

(* What the steps leave of the fields of the call that takes them.         *)
LEMMA Fields ==
  ASSUME TypeOK, NEW c \in Callers
  PROVE  /\ \A a : Goto(c, a) =>
              call'[c].at = a /\ call'[c].kind = call[c].kind
                /\ call'[c].copy = call[c].copy /\ call'[c].reply = call[c].reply
         /\ \A a : End(c, a) =>
              call'[c].at \in {"release", "answered"} /\ call'[c].kind = call[c].kind
                /\ call'[c].copy = call[c].copy /\ call'[c].reply = a
         /\ \A kind, copy, at, reply : Take(c, kind, copy, at, reply) =>
              call'[c].at = at /\ call'[c].kind = kind /\ call'[c].copy = copy
                /\ call'[c].reply = reply
<1>1. call[c] \in Calls /\ call \in [Callers -> Calls]
  BY DEF TypeOK
<1> QED
  BY <1>1 DEF Goto, End, Take, Calls

LEMMA SubmitInvStep == TypeOK /\ TypeOK' /\ SubmitInv /\ [Next]_vars => SubmitInv'
<1> SUFFICES ASSUME TypeOK, TypeOK', SubmitInv, [Next]_vars PROVE SubmitInv'
  OBVIOUS
<1> USE FinalSubmitAssumption
<1>1. ASSUME NEW c \in Callers, NEW kind \in Kinds, ReadStatus(c, kind)
      PROVE  SubmitInv'
  <2>1. Knows(c)'
    BY <1>1, Fields, GateFacts DEF ReadStatus, Fresh, At, Knows, SubmitInv, row
  <2>2. \A d \in Callers \ {c} : call'[d] = call[d]
    BY <1>1 DEF ReadStatus, Take, Fresh, At, TypeOK
  <2> QED
    BY <1>1, <2>1, <2>2, RowAlone DEF ReadStatus, TypeOK
<1>2. ASSUME NEW c \in Callers, NEW kind \in Kinds, BeginRecording(c, kind)
      PROVE  SubmitInv'
  <2>1. Knows(c)'
    BY <1>2, Fields, GateFacts DEF BeginRecording, Fresh, At, Knows, SubmitInv, row
  <2>2. \A d \in Callers \ {c} : call'[d] = call[d]
    BY <1>2 DEF BeginRecording, Take, Fresh, At, TypeOK
  <2> QED
    BY <1>2, <2>1, <2>2, RowAlone DEF BeginRecording, TypeOK
<1>3. ASSUME NEW c \in Callers, BeginSubmitStep(c)
      PROVE  SubmitInv'
  <2>1. Knows(c)'
    BY <1>3, Fields, GateFacts DEF BeginSubmitStep, Fresh, At, Knows, SubmitInv, row
  <2>2. \A d \in Callers \ {c} : call'[d] = call[d]
    BY <1>3 DEF BeginSubmitStep, Take, Fresh, At, TypeOK
  <2> QED
    BY <1>3, <2>1, <2>2, RowAlone DEF BeginSubmitStep, TypeOK
<1>4. ASSUME NEW c \in Callers, CheckInFlight(c)
      PROVE  SubmitInv'
  <2>1. /\ call'[c].at \in {"answered", "claim"} /\ call'[c].copy = call[c].copy
        /\ call'[c].reply \in {call[c].reply, "refused"}
    <3>1. CASE inflight
      BY <1>4, <3>1 DEF CheckInFlight, TypeOK, Calls
    <3>2. CASE ~inflight
      BY <1>4, <3>2, Fields DEF CheckInFlight
    <3> QED
      BY <3>1, <3>2
  <2>3. Knows(c)'
    BY <1>4, <2>1 DEF CheckInFlight, Knows, SubmitInv, row
  <2>2. \A d \in Callers \ {c} : call'[d] = call[d]
    BY <1>4 DEF CheckInFlight, Goto, At, TypeOK
  <2> QED
    BY <1>4, <2>2, <2>3, RowAlone DEF CheckInFlight, TypeOK
<1>5. ASSUME NEW c \in Callers, Claim(c)
      PROVE  SubmitInv'
  <2>1. Knows(c)'
    BY <1>5, Fields DEF Claim, At, Knows, SubmitInv, row
  <2>2. \A d \in Callers \ {c} : call'[d] = call[d]
    BY <1>5 DEF Claim, Goto, At, TypeOK
  <2> QED
    BY <1>5, <2>1, <2>2, RowAlone DEF Claim, TypeOK
<1>6. ASSUME NEW c \in Callers, Click(c)
      PROVE  SubmitInv'
  <2>1. Knows(c)'
    BY <1>6, Fields DEF Click, At, Knows, SubmitInv, row
  <2>2. \A d \in Callers \ {c} : call'[d] = call[d]
    BY <1>6 DEF Click, Goto, At, TypeOK
  <2> QED
    BY <1>6, <2>1, <2>2, RowAlone DEF Click, TypeOK
<1>7. ASSUME NEW c \in Callers, ClickRaises(c)
      PROVE  SubmitInv'
  <2>1. Knows(c)'
    BY <1>7, Fields DEF ClickRaises, At, Knows, SubmitInv, row
  <2>2. \A d \in Callers \ {c} : call'[d] = call[d]
    BY <1>7 DEF ClickRaises, End, At, TypeOK
  <2> QED
    BY <1>7, <2>1, <2>2, RowAlone DEF ClickRaises, TypeOK
<1>8. ASSUME NEW c \in Callers, Load(c)
      PROVE  SubmitInv'
  <2>1. Knows(c)'
    <3>1. CASE status \in Gate
      <4>1. call'[c].at \in {"send", "check"} /\ call'[c].copy = status
              /\ call'[c].reply = call[c].reply
        BY <1>8, <3>1 DEF Load, TypeOK, Calls
      <4>2. call[c].reply = "recorded" => events > 0
        BY DEF SubmitInv, Knows
      <4> QED
        BY <1>8, <3>1, <4>1, <4>2, GateFacts DEF Load, Knows, row
    <3>2. CASE status \notin Gate
      BY <1>8, <3>2, Fields DEF Load, At, Knows, SubmitInv, row
    <3> QED
      BY <3>1, <3>2
  <2>2. \A d \in Callers \ {c} : call'[d] = call[d]
    BY <1>8 DEF Load, End, At, TypeOK
  <2> QED
    BY <1>8, <2>1, <2>2, RowAlone DEF Load, TypeOK
<1>9. ASSUME NEW c \in Callers, Send(c)
      PROVE  SubmitInv'
  <2>1. Knows(c)'
    BY <1>9, Fields, GateFacts DEF Send, At, Knows, SubmitInv, row
  <2>2. \A d \in Callers \ {c} : call'[d] = call[d]
    BY <1>9 DEF Send, Goto, At, TypeOK
  <2> QED
    BY <1>9, <2>1, <2>2, RowAlone DEF Send, TypeOK
<1>10. ASSUME NEW c \in Callers, Check(c)
      PROVE  SubmitInv'
  <2>1. Knows(c)'
    BY <1>10, Fields, GateFacts DEF Check, Recorded, At, Knows, SubmitInv, row
  <2>2. \A d \in Callers \ {c} : call'[d] = call[d]
    BY <1>10 DEF Check, Recorded, Goto, End, At, TypeOK
  <2> QED
    BY <1>10, <2>1, <2>2, RowAlone DEF Check, TypeOK
<1>11. ASSUME NEW c \in Callers, CommitFails(c)
      PROVE  SubmitInv'
  <2>1. Knows(c)'
    BY <1>11, Fields DEF CommitFails, At, Knows, SubmitInv, row
  <2>2. \A d \in Callers \ {c} : call'[d] = call[d]
    BY <1>11 DEF CommitFails, End, At, TypeOK
  <2> QED
    BY <1>11, <2>1, <2>2, RowAlone DEF CommitFails, TypeOK
<1>12. ASSUME NEW c \in Callers, Release(c)
      PROVE  SubmitInv'
  <2>1. Knows(c)'
    BY <1>12, Fields DEF Release, At, Knows, SubmitInv, row
  <2>2. \A d \in Callers \ {c} : call'[d] = call[d]
    BY <1>12 DEF Release, Goto, At, TypeOK
  <2> QED
    BY <1>12, <2>1, <2>2, RowAlone DEF Release, TypeOK
<1>13. ASSUME NEW c \in Callers, Commit(c)
      PROVE  SubmitInv'
  <2>1. status' \in Handed /\ events' = events + 1 /\ events \in Nat
    BY <1>13, GateFacts DEF Commit, TypeOK
  <2>2. status' \notin {BLOCKED_DETECTION, EMERGENCY_DATA_HANDOFF}
    BY <2>1, GateFacts
  <2>3. \A d \in Callers \ {c} : call'[d] = call[d]
    BY <1>13 DEF Commit, Recorded, Goto, End, TypeOK
  <2>4. \A d \in Callers \ {c} : Knows(d)'
    BY <2>1, <2>2, <2>3, OthersKnow DEF SubmitInv
  <2>5. call'[c].at \notin {"send", "check", "commit"}
    BY <1>13, Fields DEF Commit, Recorded
  <2>6. Knows(c)'
    BY <2>1, <2>2, <2>5 DEF Knows
  <2> QED
    BY <2>1, <2>4, <2>6 DEF SubmitInv, OutcomeMatchesRow
<1>14. ASSUME NEW c \in Callers, EnterPost(c)
      PROVE  SubmitInv'
  <2>1. events > 0 /\ status \in Handed /\ UNCHANGED events
    BY <1>14 DEF EnterPost, At, SubmitInv, Knows, OutcomeMatchesRow
  <2>2. status' \in Handed
    BY <1>14, <2>1, GateFacts DEF EnterPost
  <2>3. status' \notin {BLOCKED_DETECTION, EMERGENCY_DATA_HANDOFF}
    BY <2>2, GateFacts
  <2>4. \A d \in Callers \ {c} : call'[d] = call[d]
    BY <1>14 DEF EnterPost, End, TypeOK
  <2>5. \A d \in Callers \ {c} : Knows(d)'
    BY <2>1, <2>3, <2>4, OthersKnow DEF SubmitInv, TypeOK
  <2>6. call'[c].at \notin {"send", "check", "commit"}
    BY <1>14, Fields DEF EnterPost
  <2>7. Knows(c)'
    BY <2>1, <2>3, <2>6 DEF Knows
  <2> QED
    BY <2>1, <2>2, <2>5, <2>7 DEF SubmitInv, OutcomeMatchesRow
<1>15. CASE LandAtGate
  <2>1. OutcomeMatchesRow'
    BY <1>15, GateFacts DEF LandAtGate, SubmitInv, OutcomeMatchesRow
  <2>2. \A c \in Callers : Knows(c)'
    BY <1>15, GateFacts DEF LandAtGate, SubmitInv, Knows
  <2> QED
    BY <2>1, <2>2 DEF SubmitInv
<1>16. CASE GenerateMaterial
  BY <1>16 DEF GenerateMaterial, row, SubmitInv, OutcomeMatchesRow, Knows
<1>17. CASE ApproveMaterial
  BY <1>17 DEF ApproveMaterial, row, SubmitInv, OutcomeMatchesRow, Knows
<1>18. CASE UNCHANGED vars
  BY <1>18 DEF vars, row, SubmitInv, OutcomeMatchesRow, Knows
<1> QED
  BY <1>1, <1>2, <1>3, <1>4, <1>5, <1>6, <1>7, <1>8, <1>9, <1>10,
     <1>11, <1>12, <1>13, <1>14, <1>15, <1>16, <1>17, <1>18
  DEF Next, Serve

LEMMA SubmitInvInit == Init => SubmitInv
BY GateFacts, FinalSubmitAssumption DEF Init, SubmitInv, OutcomeMatchesRow, Knows

(* Stale copies, a submit step that runs beside a request, transactions    *)
(* that fail and repeated calls notwithstanding, the application is        *)
(* submitted exactly when it has a "submitted" event.                      *)
THEOREM RowAndOutcomeAgree == Spec => []OutcomeMatchesRow
<1>1. SubmitInv => OutcomeMatchesRow
  BY DEF SubmitInv
<1> QED
  BY <1>1, SubmitInvInit, SubmitInvStep, FinalSubmitTypeCorrect, PTL DEF Spec

(* No caller is told that a submission was recorded that was not.          *)
THEOREM AnswersAreTrue == Spec => []AnsweredIsRecorded
<1>1. SubmitInv => AnsweredIsRecorded
  BY DEF SubmitInv, Knows, OutcomeMatchesRow, AnsweredIsRecorded
<1> QED
  BY <1>1, SubmitInvInit, SubmitInvStep, FinalSubmitTypeCorrect, PTL DEF Spec

(* An application handed over in an emergency is never finished by the     *)
(* engine, not from a stale copy either.                                   *)
THEOREM EmergencyStaysWithUser == Spec => EmergencyByUserOnly
<1>1. SubmitInv /\ [Next]_vars => [status = EMERGENCY_DATA_HANDOFF => status' # FINISHED_BY_ENGINE]_status
  <2> SUFFICES ASSUME SubmitInv, [Next]_vars, status = EMERGENCY_DATA_HANDOFF, status' # status
               PROVE  status' # FINISHED_BY_ENGINE
    OBVIOUS
  <2> USE DEF row
  <2>1. CASE \E c \in Callers : Commit(c)
    <3>1. PICK c \in Callers : Commit(c)
      BY <2>1
    <3>2. call[c].copy \in Gate /\ call[c].copy # AWAITING_FINAL_APPROVAL
      BY <3>1 DEF Commit, At, SubmitInv, Knows
    <3>3. call[c].copy = EMERGENCY_DATA_HANDOFF
      BY <3>2 DEF Gate
    <3>4. CanTransition(EMERGENCY_DATA_HANDOFF, Terminal(call[c].kind))
      BY <3>1, <3>3 DEF Commit, At, SubmitInv, Knows
    <3> QED
      BY <3>1, <3>4, GateFacts DEF Commit
  <2>2. CASE \E c \in Callers : EnterPost(c)
    BY <2>2, GateFacts DEF EnterPost, POST_SUBMISSION, FINISHED_BY_ENGINE
  <2>3. CASE LandAtGate
    BY <2>3, GateFacts DEF LandAtGate, Gate
  <2> QED
    BY <2>1, <2>2, <2>3 DEF Next, Serve, ReadStatus, BeginRecording, BeginSubmitStep,
       CheckInFlight, Claim, Click, ClickRaises, Load, Send, Check, CommitFails, Release,
       GenerateMaterial, ApproveMaterial, vars
<1> QED
  BY <1>1, SubmitInvInit, SubmitInvStep, FinalSubmitTypeCorrect, PTL DEF Spec, EmergencyByUserOnly

-----------------------------------------------------------------------------
(* Why the outcome stands: with an event there, the look for it keeps      *)
(* every caller from the commit, and only a commit adds an event.          *)
LEMMA SettledStep ==
  ASSUME TypeOK, SubmitInv, Settled, [Next]_vars
  PROVE  Settled' /\ events' = events /\ status' \in Handed
<1> USE DEF row
<1>0. events > 0 /\ status \in Handed /\ \A d \in Callers : call[d].at # "commit"
  BY DEF Settled, At, SubmitInv, OutcomeMatchesRow
<1>1. ASSUME NEW c \in Callers, call'[c].at # "commit", UNCHANGED row,
             \A d \in Callers \ {c} : call'[d] = call[d]
      PROVE  Settled' /\ events' = events /\ status' \in Handed
  BY <1>0, <1>1 DEF Settled, At
<1>2. ASSUME NEW c \in Callers, NEW kind \in Kinds, ReadStatus(c, kind) \/ BeginRecording(c, kind)
      PROVE  Settled' /\ events' = events /\ status' \in Handed
  <2>1. call'[c].at # "commit" /\ UNCHANGED row
    BY <1>2, Fields DEF ReadStatus, BeginRecording
  <2>2. \A d \in Callers \ {c} : call'[d] = call[d]
    BY <1>2 DEF ReadStatus, BeginRecording, Take, TypeOK
  <2> QED
    BY <2>1, <2>2, <1>1
<1>3. ASSUME NEW c \in Callers, BeginSubmitStep(c)
      PROVE  Settled' /\ events' = events /\ status' \in Handed
  <2>1. call'[c].at # "commit" /\ UNCHANGED row
    BY <1>3, Fields DEF BeginSubmitStep
  <2>2. \A d \in Callers \ {c} : call'[d] = call[d]
    BY <1>3 DEF BeginSubmitStep, Take, TypeOK
  <2> QED
    BY <2>1, <2>2, <1>1
<1>4. ASSUME NEW c \in Callers, CheckInFlight(c)
      PROVE  Settled' /\ events' = events /\ status' \in Handed
  <2>1. call'[c].at # "commit" /\ UNCHANGED row
    <3>1. CASE inflight
      BY <1>4, <3>1 DEF CheckInFlight, TypeOK, Calls
    <3>2. CASE ~inflight
      BY <1>4, <3>2, Fields DEF CheckInFlight
    <3> QED
      BY <1>4, <3>1, <3>2
  <2>2. \A d \in Callers \ {c} : call'[d] = call[d]
    BY <1>4 DEF CheckInFlight, Goto, TypeOK
  <2> QED
    BY <2>1, <2>2, <1>1
<1>5. ASSUME NEW c \in Callers, Claim(c) \/ Click(c) \/ Send(c) \/ Release(c)
      PROVE  Settled' /\ events' = events /\ status' \in Handed
  <2>1. call'[c].at # "commit" /\ UNCHANGED row
    BY <1>5, Fields DEF Claim, Click, Send, Release
  <2>2. \A d \in Callers \ {c} : call'[d] = call[d]
    BY <1>5 DEF Claim, Click, Send, Release, Goto, TypeOK
  <2> QED
    BY <2>1, <2>2, <1>1
<1>6. ASSUME NEW c \in Callers, Load(c)
      PROVE  Settled' /\ events' = events /\ status' \in Handed
  <2>1. call'[c].at # "commit" /\ UNCHANGED row
    <3>1. CASE status \in Gate
      BY <1>6, <3>1 DEF Load, TypeOK, Calls
    <3>2. CASE status \notin Gate
      BY <1>6, <3>2, Fields DEF Load
    <3> QED
      BY <1>6, <3>1, <3>2
  <2>2. \A d \in Callers \ {c} : call'[d] = call[d]
    BY <1>6 DEF Load, End, TypeOK
  <2> QED
    BY <2>1, <2>2, <1>1
<1>7. ASSUME NEW c \in Callers, ClickRaises(c)
      PROVE  Settled' /\ events' = events /\ status' \in Handed
  <2>1. call'[c].at # "commit" /\ UNCHANGED row
    BY <1>7, Fields DEF ClickRaises
  <2>2. \A d \in Callers \ {c} : call'[d] = call[d]
    BY <1>7 DEF ClickRaises, End, TypeOK
  <2> QED
    BY <2>1, <2>2, <1>1
<1>8. ASSUME NEW c \in Callers, Check(c)
      PROVE  Settled' /\ events' = events /\ status' \in Handed
  <2>1. Recorded(c) /\ UNCHANGED row
    BY <1>0, <1>8 DEF Check
  <2>2. call'[c].at # "commit"
    BY <2>1, Fields DEF Recorded
  <2>3. \A d \in Callers \ {c} : call'[d] = call[d]
    BY <2>1 DEF Recorded, Goto, End, TypeOK
  <2> QED
    BY <2>1, <2>2, <2>3, <1>1
<1>9. ASSUME NEW c \in Callers, EnterPost(c)
      PROVE  Settled' /\ events' = events /\ status' \in Handed
  <2>1. status' \in Handed /\ UNCHANGED events
    BY <1>0, <1>9, GateFacts DEF EnterPost
  <2>2. call'[c].at # "commit"
    BY <1>9, Fields DEF EnterPost
  <2>3. \A d \in Callers \ {c} : call'[d] = call[d]
    BY <1>9 DEF EnterPost, End, TypeOK
  <2> QED
    BY <1>0, <2>1, <2>2, <2>3 DEF Settled, At
<1>10. CASE \E c \in Callers : Commit(c) \/ CommitFails(c)
  BY <1>0, <1>10 DEF Commit, CommitFails, At
<1>11. CASE LandAtGate
  BY <1>0, <1>11, GateFacts DEF LandAtGate
<1>12. CASE GenerateMaterial \/ ApproveMaterial \/ UNCHANGED vars
  BY <1>0, <1>12 DEF GenerateMaterial, ApproveMaterial, vars, Settled, At
<1> QED
  BY <1>2, <1>3, <1>4, <1>5, <1>6, <1>7, <1>8, <1>9, <1>10, <1>11, <1>12 DEF Next, Serve

(* Once an application has its event and no caller is between the look for *)
(* it and the commit, no later or slower call adds another or takes the    *)
(* application back.                                                       *)
THEOREM OutcomeIsFinal == Spec => OutcomeStands
<1>1. TypeOK /\ SubmitInv /\ [Next]_vars =>
        [Settled => Settled' /\ events' = events /\ status' \in Handed]_vars
  BY SettledStep
<1> QED
  BY <1>1, SubmitInvStep, SubmitInvInit, FinalSubmitTypeCorrect, PTL DEF Spec, OutcomeStands
-----------------------------------------------------------------------------
(* Pipeline takes record_submission as one step.  It may: of calls that do *)
(* not overlap, the one that is served holds a copy which is still the row *)
(* while nothing has been recorded, and commits only if nothing has.       *)
Active(c) == call[c].at \notin {"new", "answered"}
Holding   == {"send", "check", "commit"}

SerialInv ==
  /\ \A c, d \in Callers : Active(c) /\ Active(d) => c = d
  /\ \A c \in Callers : call[c].at = "commit" => events = 0
  /\ \A c \in Callers : call[c].at \in Holding /\ events = 0 => call[c].copy = status

RecordsInOneStep ==
  [][\/ /\ events = 0 /\ events' = 1
        /\ status \in Gate /\ status' \in Submitted /\ CanTransition(status, status')
     \/ /\ events' = events
        /\ \/ status = BLOCKED_DETECTION /\ status' \in Gate
           \/ status \in Submitted /\ status' = POST_SUBMISSION]_row

(* The steps of one call that leave the row alone.                         *)
Prepares(c) ==
  \/ \E kind \in Kinds : ReadStatus(c, kind) \/ BeginRecording(c, kind)
  \/ BeginSubmitStep(c) \/ CheckInFlight(c) \/ Claim(c) \/ Click(c) \/ ClickRaises(c)
  \/ Load(c) \/ Send(c) \/ Check(c) \/ CommitFails(c) \/ Release(c)

LEMMA Preparing ==
  ASSUME TypeOK, NEW c \in Callers, Prepares(c)
  PROVE  /\ UNCHANGED row
         /\ \A d \in Callers \ {c} : call'[d] = call[d]
         /\ Active(c) \/ Fresh(c)
         /\ call'[c].at = "commit" => events = 0
         /\ call'[c].at \in Holding =>
              \/ call'[c].copy = status
              \/ call[c].at \in Holding /\ call'[c].copy = call[c].copy
<1>1. UNCHANGED row /\ (Active(c) \/ Fresh(c))
  BY DEF Prepares, ReadStatus, BeginRecording, BeginSubmitStep, CheckInFlight, Claim, Click,
     ClickRaises, Load, Send, Check, CommitFails, Release, row, Active, At
<1>2. \A d \in Callers \ {c} : call'[d] = call[d]
  <2>1. call \in [Callers -> Calls]
    BY DEF TypeOK
  <2> QED
    BY <2>1 DEF Prepares, ReadStatus, BeginRecording, BeginSubmitStep, CheckInFlight, Claim,
       Click, ClickRaises, Load, Send, Check, CommitFails, Release, Take, Goto, End, Recorded
<1>3. CASE \E kind \in Kinds : ReadStatus(c, kind) \/ BeginRecording(c, kind)
  <2>1. call'[c].at \in {"guard", "load", "answered"}
    BY <1>3, Fields DEF ReadStatus, BeginRecording
  <2> QED
    BY <1>1, <1>2, <2>1 DEF Holding
<1>4. CASE BeginSubmitStep(c)
  <2>1. call'[c].at = "answered" \/ (call'[c].at = "check" /\ call'[c].copy = status)
    BY <1>4, Fields DEF BeginSubmitStep
  <2> QED
    BY <1>1, <1>2, <2>1 DEF Holding
<1>5. CASE CheckInFlight(c) \/ Claim(c) \/ Click(c) \/ ClickRaises(c) \/ CommitFails(c) \/ Release(c)
  <2>1. call'[c].at \in {"answered", "claim", "click", "load", "release"}
    <3>1. CASE CheckInFlight(c)
      <4>1. call[c] \in Calls /\ call \in [Callers -> Calls]
        BY DEF TypeOK
      <4> QED
        BY <3>1, <4>1 DEF CheckInFlight, Goto, Calls
    <3>2. CASE Claim(c) \/ Click(c) \/ ClickRaises(c) \/ CommitFails(c) \/ Release(c)
      BY <3>2, Fields DEF Claim, Click, ClickRaises, CommitFails, Release
    <3> QED
      BY <1>5, <3>1, <3>2
  <2> QED
    BY <1>1, <1>2, <2>1 DEF Holding
<1>6. CASE Load(c)
  <2>1. call[c] \in Calls /\ call \in [Callers -> Calls]
    BY DEF TypeOK
  <2>2. CASE status \in Gate
    <3>1. call'[c].copy = status /\ call'[c].at \in {"send", "check"}
      BY <1>6, <2>1, <2>2 DEF Load, Calls
    <3> QED
      BY <1>1, <1>2, <3>1
  <2>3. CASE status \notin Gate
    <3>1. call'[c].at \in {"release", "answered"}
      BY <1>6, <2>3, Fields DEF Load
    <3> QED
      BY <1>1, <1>2, <3>1 DEF Holding
  <2> QED
    BY <2>2, <2>3
<1>7. CASE Send(c)
  <2>1. call[c].at = "send" /\ call'[c].at = "check" /\ call'[c].copy = call[c].copy
    BY <1>7, Fields DEF Send, At
  <2> QED
    BY <1>1, <1>2, <2>1 DEF Holding
<1>8. CASE Check(c)
  <2>1. CASE events > 0
    <3>1. call'[c].at \in {"enter_post", "release", "answered"}
      BY <1>8, <2>1, Fields DEF Check, Recorded
    <3> QED
      BY <1>1, <1>2, <3>1 DEF Holding
  <2>2. CASE ~(events > 0)
    <3>1. call[c].at = "check" /\ call'[c].copy = call[c].copy
      BY <1>8, <2>2, Fields DEF Check, At
    <3>2. events = 0
      BY <2>2 DEF TypeOK
    <3> QED
      BY <1>1, <1>2, <3>1, <3>2 DEF Holding
  <2> QED
    BY <2>1, <2>2
<1> QED
  BY <1>3, <1>4, <1>5, <1>6, <1>7, <1>8 DEF Prepares

(* Only the call that is served goes on, or one begins when none is.       *)
LEMMA OneAtATime ==
  ASSUME Overlap = FALSE, SerialInv, NEW c \in Callers, Active(c) \/ Fresh(c),
         \A d \in Callers \ {c} : call'[d] = call[d]
  PROVE  /\ \A d \in Callers \ {c} : ~Active(d)
         /\ (\A d, e \in Callers : Active(d) /\ Active(e) => d = e)'
<1>1. \A d \in Callers \ {c} : ~Active(d)
  BY DEF SerialInv, Fresh, Active
<1> QED
  BY <1>1 DEF Active

LEMMA SerialStep ==
  ASSUME Overlap = FALSE, TypeOK, SubmitInv, SerialInv, [Next]_vars
  PROVE  SerialInv'
<1>1. ASSUME NEW c \in Callers, Prepares(c)
      PROVE  SerialInv'
  <2>1. /\ UNCHANGED row /\ \A d \in Callers \ {c} : call'[d] = call[d]
        /\ Active(c) \/ Fresh(c)
        /\ call'[c].at = "commit" => events = 0
        /\ call'[c].at \in Holding =>
             \/ call'[c].copy = status
             \/ call[c].at \in Holding /\ call'[c].copy = call[c].copy
    BY <1>1, Preparing
  <2>2. (\A d, e \in Callers : Active(d) /\ Active(e) => d = e)'
    BY <2>1, OneAtATime
  <2>3. (\A d \in Callers : call[d].at = "commit" => events = 0)'
    BY <2>1 DEF SerialInv, row
  <2>4. (\A d \in Callers : call[d].at \in Holding /\ events = 0 => call[d].copy = status)'
    BY <2>1 DEF SerialInv, row
  <2> QED
    BY <2>2, <2>3, <2>4 DEF SerialInv
<1>2. ASSUME NEW c \in Callers, Commit(c) \/ EnterPost(c)
      PROVE  SerialInv'
  <2>1. \A d \in Callers \ {c} : call'[d] = call[d]
    BY <1>2 DEF Commit, EnterPost, Recorded, Goto, End, TypeOK
  <2>2. Active(c) /\ call'[c].at \in {"enter_post", "release", "answered"}
    BY <1>2, Fields DEF Commit, EnterPost, Recorded, At, Active
  <2>3. /\ \A d \in Callers \ {c} : ~Active(d)
        /\ (\A d, e \in Callers : Active(d) /\ Active(e) => d = e)'
    BY <2>1, <2>2, OneAtATime
  <2>4. \A d \in Callers : call'[d].at \notin Holding
    BY <2>1, <2>2, <2>3 DEF Active, Holding
  <2> QED
    BY <2>3, <2>4 DEF SerialInv, Holding
<1>3. CASE LandAtGate
  <2>1. \A c \in Callers : call[c].at \notin Holding
    BY <1>3 DEF LandAtGate, SubmitInv, Knows, Holding
  <2> QED
    BY <1>3, <2>1 DEF LandAtGate, SerialInv, Active, Holding
<1>4. CASE GenerateMaterial \/ ApproveMaterial \/ UNCHANGED vars
  BY <1>4 DEF GenerateMaterial, ApproveMaterial, vars, row, SerialInv, Active
<1> QED
  BY <1>1, <1>2, <1>3, <1>4 DEF Next, Serve, Prepares

LEMMA RecordingStep ==
  ASSUME TypeOK, SubmitInv, SerialInv, [Next]_vars, row' # row
  PROVE  \/ /\ events = 0 /\ events' = 1
            /\ status \in Gate /\ status' \in Submitted /\ CanTransition(status, status')
         \/ /\ events' = events
            /\ \/ status = BLOCKED_DETECTION /\ status' \in Gate
               \/ status \in Submitted /\ status' = POST_SUBMISSION
<1>1. ASSUME NEW c \in Callers, Commit(c)
      PROVE  /\ events = 0 /\ events' = 1
             /\ status \in Gate /\ status' \in Submitted /\ CanTransition(status, status')
  <2>1. events = 0 /\ call[c].copy = status
    BY <1>1 DEF Commit, At, SerialInv, Holding
  <2>2. status \in Gate /\ CanTransition(status, Terminal(call[c].kind))
    BY <1>1, <2>1 DEF Commit, At, SubmitInv, Knows
  <2> QED
    BY <1>1, <2>1, <2>2 DEF Commit, Terminal, Submitted
<1>2. ASSUME NEW c \in Callers, EnterPost(c)
      PROVE  events' = events /\ status \in Submitted /\ status' = POST_SUBMISSION
  <2>1. UNCHANGED events /\ status' = POST_SUBMISSION /\ status' # status
    BY <1>2 DEF EnterPost, row
  <2>2. status \in Handed
    BY <1>2 DEF EnterPost, At, SubmitInv, Knows, OutcomeMatchesRow
  <2> QED
    BY <2>1, <2>2 DEF Handed
<1>3. ASSUME NEW c \in Callers, Prepares(c)
      PROVE  FALSE
  BY <1>3, Preparing
<1>4. CASE LandAtGate
  BY <1>4 DEF LandAtGate
<1>5. CASE GenerateMaterial \/ ApproveMaterial \/ UNCHANGED vars
  BY <1>5 DEF GenerateMaterial, ApproveMaterial, vars, row
<1> QED
  BY <1>1, <1>2, <1>3, <1>4, <1>5 DEF Next, Serve, Prepares

(* Calls that do not overlap record as Pipeline's one step does, however   *)
(* many come one after the other and however they end: the row goes from   *)
(* the gate to the decision's terminal status together with the one event  *)
(* there will ever be, and after that only on to POST_SUBMISSION.          *)
THEOREM SerialCallsRecordInOneStep ==
  ASSUME Overlap = FALSE
  PROVE  Spec => RecordsInOneStep
<1>1. Init => SerialInv
  BY DEF Init, SerialInv, Active, Holding
<1>2. TypeOK /\ SubmitInv /\ SerialInv /\ [Next]_vars => SerialInv'
  BY SerialStep
<1>3. TypeOK /\ SubmitInv /\ SerialInv /\ [Next]_vars =>
        [\/ /\ events = 0 /\ events' = 1
            /\ status \in Gate /\ status' \in Submitted /\ CanTransition(status, status')
         \/ /\ events' = events
            /\ \/ status = BLOCKED_DETECTION /\ status' \in Gate
               \/ status \in Submitted /\ status' = POST_SUBMISSION]_row
  BY RecordingStep
<1> QED
  BY <1>1, <1>2, <1>3, SubmitInvInit, SubmitInvStep, FinalSubmitTypeCorrect, PTL
  DEF Spec, RecordsInOneStep

-----------------------------------------------------------------------------
(* What GuardReleased rests on.  While the application counts as being in  *)
(* flight a deciding call is still on its way to the `finally` that drops  *)
(* it: whatever raised or was refused on the way, calls that have answered *)
(* leave nothing in the set.                                               *)
InTry    == {"click", "load", "send", "check", "commit", "enter_post", "release"}
Holds(c) == call[c].kind \in Deciding /\ call[c].at \in InTry

GuardHeld == inflight => \E c \in Callers : Holds(c)

GuardInv ==
  /\ GuardHeld
  /\ \A c \in Callers : call[c].at \in {"guard", "claim"} => call[c].kind \in Deciding

(* A step of one call that does not end it without its `finally`.          *)
LEMMA GuardKept ==
  ASSUME GuardInv, NEW c \in Callers, \A d \in Callers \ {c} : call'[d] = call[d],
         Holds(c) => Holds(c)', inflight' => inflight \/ Holds(c)',
         call'[c].at \in {"guard", "claim"} => call'[c].kind \in Deciding
  PROVE  GuardInv'
BY DEF GuardInv, GuardHeld, Holds

LEMMA GuardStep == TypeOK /\ GuardInv /\ [Next]_vars => GuardInv'
<1> SUFFICES ASSUME TypeOK, GuardInv, [Next]_vars PROVE GuardInv'
  OBVIOUS
<1>1. call \in [Callers -> Calls]
  BY DEF TypeOK
<1>2. ASSUME NEW c \in Callers,
             \/ \E kind \in Kinds : ReadStatus(c, kind) \/ BeginRecording(c, kind)
             \/ BeginSubmitStep(c)
      PROVE  GuardInv'
  <2>1. /\ \A d \in Callers \ {c} : call'[d] = call[d]
        /\ call[c].at = "new" /\ UNCHANGED inflight
    BY <1>1, <1>2 DEF ReadStatus, BeginRecording, BeginSubmitStep, Take, Fresh, At
  <2>2. call'[c].at \in {"guard", "claim"} => call'[c].kind \in Deciding
    BY <1>2, Fields DEF ReadStatus, BeginRecording, BeginSubmitStep
  <2> QED
    BY <2>1, <2>2, GuardKept DEF Holds, InTry
<1>3. ASSUME NEW c \in Callers, CheckInFlight(c)
      PROVE  GuardInv'
  <2>1. \A d \in Callers \ {c} : call'[d] = call[d]
    BY <1>1, <1>3 DEF CheckInFlight, Goto
  <2>2. call[c].at = "guard" /\ UNCHANGED inflight /\ call'[c].kind = call[c].kind
    <3>1. call[c] \in Calls
      BY <1>1
    <3> QED
      BY <1>1, <1>3, <3>1 DEF CheckInFlight, At, Goto, Calls
  <2> QED
    BY <2>1, <2>2, GuardKept DEF Holds, InTry, GuardInv
<1>4. ASSUME NEW c \in Callers, Claim(c)
      PROVE  GuardInv'
  <2>1. \A d \in Callers \ {c} : call'[d] = call[d]
    BY <1>1, <1>4 DEF Claim, Goto
  <2>2. call'[c].kind \in Deciding /\ call'[c].at \in {"click", "load"}
    BY <1>4, Fields DEF Claim, At, GuardInv
  <2> QED
    BY <2>1, <2>2, GuardKept DEF Holds, InTry
<1>5. ASSUME NEW c \in Callers,
             \/ Click(c) \/ ClickRaises(c) \/ Send(c) \/ Check(c) \/ Commit(c)
             \/ CommitFails(c) \/ EnterPost(c)
      PROVE  GuardInv'
  <2>1. (\A d \in Callers \ {c} : call'[d] = call[d]) /\ UNCHANGED inflight
    BY <1>1, <1>5 DEF Click, ClickRaises, Send, Check, Commit, CommitFails, EnterPost,
       Recorded, Goto, End
  <2>2. /\ call'[c].kind = call[c].kind
        /\ call'[c].at \in InTry \/ (call[c].kind \notin Deciding /\ call'[c].at = "answered")
    <3>1. \A r : End(c, r) => /\ call'[c].kind = call[c].kind
                              /\ call'[c].at = IF call[c].kind \in Deciding THEN "release"
                                                                            ELSE "answered"
      <4>1. call[c] \in Calls
        BY <1>1
      <4> QED
        BY <1>1, <4>1 DEF End, Calls
    <3> QED
      BY <1>5, <3>1, Fields DEF Click, ClickRaises, Send, Check, Commit, CommitFails,
         EnterPost, Recorded, InTry
  <2>3. call'[c].at \notin {"guard", "claim"}
    BY <2>2 DEF InTry
  <2> QED
    BY <2>1, <2>2, <2>3, GuardKept DEF Holds
<1>6. ASSUME NEW c \in Callers, Load(c)
      PROVE  GuardInv'
  <2>1. (\A d \in Callers \ {c} : call'[d] = call[d]) /\ UNCHANGED inflight
    BY <1>1, <1>6 DEF Load, End
  <2>2. /\ call'[c].kind = call[c].kind
        /\ call'[c].at \in {"send", "check", "release", "answered"}
        /\ call[c].kind \in Deciding => call'[c].at \in {"send", "release"}
    <3>1. call[c] \in Calls
      BY <1>1
    <3>2. CASE status \in Gate
      BY <1>1, <1>6, <3>1, <3>2 DEF Load, Calls
    <3>3. CASE status \notin Gate
      BY <1>1, <1>6, <3>1, <3>3 DEF Load, End, Calls
    <3> QED
      BY <3>2, <3>3
  <2> QED
    BY <2>1, <2>2, GuardKept DEF Holds, InTry
<1>7. ASSUME NEW c \in Callers, Release(c)
      PROVE  GuardInv'
  <2>1. ~inflight' /\ \A d \in Callers \ {c} : call'[d] = call[d]
    BY <1>1, <1>7 DEF Release, Goto
  <2>2. call'[c].at = "answered"
    BY <1>7, Fields DEF Release
  <2> QED
    BY <2>1, <2>2 DEF GuardInv, GuardHeld
<1>8. CASE LandAtGate \/ GenerateMaterial \/ ApproveMaterial \/ UNCHANGED vars
  BY <1>8 DEF LandAtGate, GenerateMaterial, ApproveMaterial, vars, GuardInv, GuardHeld, Holds
<1> QED
  BY <1>2, <1>3, <1>4, <1>5, <1>6, <1>7, <1>8 DEF Next, Serve

(* The in-flight guard is never left behind, by any number of callers.     *)
THEOREM GuardHasAHolder == Spec => []GuardHeld
<1>1. Init => GuardInv
  BY DEF Init, GuardInv, GuardHeld
<1>2. GuardInv => GuardHeld
  BY DEF GuardInv
<1> QED
  BY <1>1, <1>2, GuardStep, FinalSubmitTypeCorrect, PTL DEF Spec
=============================================================================
