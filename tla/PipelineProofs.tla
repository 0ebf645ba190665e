--------------------------- MODULE PipelineProofs ---------------------------
(***************************************************************************)
(* Proofs about the pipeline of one application, for any cap on failures,  *)
(* any number of crashes and exceptions and any mailbox.                   *)
(***************************************************************************)
EXTENDS Pipeline, TLAPS

(* The sets of states the pipeline works with are states, and the last     *)
(* landing before a submission is never one after it.                      *)
LEMMA StateFacts ==
  /\ APPROVED \in ApplicationState /\ POST_SUBMISSION \in ApplicationState
  /\ Landings \subseteq ApplicationState /\ Enterable \subseteq ApplicationState
  /\ Submitted \subseteq Handed /\ Handed \subseteq ApplicationState
  /\ Gate \subseteq ApplicationState
  /\ POST_SUBMISSION \in Handed /\ APPROVED \notin Handed
  /\ Handed \cap (Landings \cup Enterable \cup Gate) = {}
  /\ Gate \cap Enterable = {}
  /\ {AWAITING_ACCOUNT_HUMAN_STEP, BLOCKED_DETECTION} \subseteq Enterable
  /\ AWAITING_FINAL_APPROVAL \in Gate
BY DEF ApplicationState, Landings, PrefillHandoffs, Enterable, Handed, Gate, Submitted,
   Blocked, PostStates, TERMINAL_STATES, DISCOVERED, SCORED, DIGESTED, DECLINED,
   APPROVED, SANDBOX_PROVISIONING, ACCOUNT_PREFILL, AWAITING_ACCOUNT_HUMAN_STEP,
   PREFILLING, BLOCKED_DETECTION, BLOCKED_MISSING_ATTR, BLOCKED_QUESTION,
   MATERIAL_PREP, MATERIAL_REVIEW, AWAITING_FINAL_APPROVAL, SUBMITTED_BY_USER,
   FINISHED_BY_ENGINE, EMERGENCY_DATA_HANDOFF, FAILED, POST_SUBMISSION,
   AWAITING_RESPONSE, REJECTED, GHOSTED, FOLLOWING_UP, ARCHIVED

-----------------------------------------------------------------------------
(* The type invariant is not inductive alone: a pass that raises adds one  *)
(* to a failure count, which stays within the cap because the tick begins  *)
(* no pass for an application that has reached it.                         *)
Tries == /\ pass.at # "idle" => pass.kind # None
         /\ pass.kind = "start"  => fails.start  < FailureCap
         /\ pass.kind = "resume" => fails.resume < FailureCap

TypeInv == TypeOK /\ Tries

(* The constant values of the model have the types they are used at.       *)
LEMMA Literals ==
  /\ {"idle", "prefill", "filling", "landed", "synced", "material", "linking",
      "generated", "review", "request", "recv", "submit", "recorded", "teardown", "torn", "apply"}
        \subseteq Stages
  /\ {"start", "resume", "redrive"} \subseteq PassKinds
  /\ {"done", "failed", "handoff", "review", "awaiting"} \subseteq Verdicts
  /\ {"material", "request_approval", "submit", "teardown"} \subseteq DoneSteps
  /\ {"send", "record", "enter_post", "post", "fill"} \subseteq RequestStages
  /\ "resume_step" \in RequestKinds /\ Requests \subseteq RequestKinds
  /\ None \notin PassKinds /\ None \notin RequestStages
BY PipelineAssumption DEF Stages, PassKinds, Verdicts, DoneSteps, RequestStages, RequestKinds

LEMMA Idle ==
  /\ NoFile \in Checkpoint /\ NoPass \in PassState /\ NoReq \in RequestState
  /\ NoPass.at = "idle" /\ NoPass.kind = None
BY Literals DEF NoFile, NoPass, NoReq, Checkpoint, PassState, RequestState

(* Where the pass goes after pre-fill, it goes as a pass.                  *)
LEMMA AfterType ==
  ASSUME NEW p \in PassState, NEW landed
  PROVE  /\ After(p, landed) \in PassState
         /\ After(p, landed).at \in {"apply", "teardown", "material"}
         /\ After(p, landed).kind = p.kind
BY Literals DEF After, PassState

(* The mailbox stays one of decisions, whether one is added or taken.      *)
LEMMA MailboxMoves ==
  ASSUME NEW c \in Checkpoint
  PROVE  /\ \A d \in Decisions : Append(c.box, d) \in Seq(Decisions)
         /\ c.box # <<>> => Head(c.box) \in Decisions /\ Tail(c.box) \in Seq(Decisions)
<1>1. c.box \in Seq(Decisions)
  BY DEF Checkpoint
<1> QED
  BY <1>1

(* A pass that goes on keeps its kind, and with it its right to fail.      *)
LEMMA GoesOn ==
  ASSUME Tries, pass.at # "idle", pass'.kind = pass.kind, UNCHANGED fails
  PROVE  Tries'
BY DEF Tries

(* A pass that raises leaves counts and a pass of their types.             *)
LEMMA AbandonType ==
  ASSUME TypeInv, pass.at # "idle", Abandon
  PROVE  /\ pass' = NoPass /\ fails' \in FailureCounts
         /\ slot' \in {"free", "waiting", "held"} /\ session' \in BOOLEAN
<1>1. pass.kind \in PassKinds
  BY DEF TypeInv, Tries, TypeOK, PassState
<1>2. fails \in FailureCounts
  BY DEF TypeInv, TypeOK
<1>3. fails' \in FailureCounts
  BY <1>1, <1>2, PipelineAssumption
     DEF Abandon, TypeInv, Tries, FailureCounts, PassKinds
<1> QED
  BY <1>3 DEF Abandon, Released, TypeInv, TypeOK

LEMMA TypeInvInit == Init => TypeInv
<1> SUFFICES ASSUME Init PROVE TypeInv
  OBVIOUS
<1>1. fails \in FailureCounts
  BY PipelineAssumption DEF Init, FailureCounts
<1>2. pass.at = "idle" /\ pass.kind \notin PassKinds
  BY Idle, Literals DEF Init
<1>3. Tries
  BY <1>2, Literals DEF Tries
<1>4. status \in ApplicationState /\ crashes \in 0..MaxCrashes /\ faults \in 0..MaxFaults
  BY PipelineAssumption, StateFacts DEF Init
<1> QED
  BY <1>1, <1>3, <1>4, Idle DEF Init, TypeInv, TypeOK

(* What each stage of a pass has behind it: the inductive form of the      *)
(* gates. A pass is past a step only with that step's checkpoint, and past *)
(* the review only while no material is unreviewed.                        *)
Filling      == {"filling", "landed", "synced"}
PastPrefill  == {"material", "linking", "generated", "review", "request", "recv", "submit",
                 "recorded"}
PastMaterial == {"review", "request", "recv", "submit", "recorded"}
PastReview   == {"request", "recv", "submit", "recorded"}
PastRequest  == {"recv", "submit", "recorded"}

GateInv ==
  /\ pass.at \in {"idle", "prefill"} => pass.live = FALSE
  /\ pass.at \in Filling /\ pass.live = TRUE => ckpt.prefill # None
  /\ pass.at \in Filling \cup {"linking"} => pass.seen # None
  /\ pass.at \in PastPrefill  => ckpt.prefill # None
  /\ pass.at \in PastMaterial => "material" \in ckpt.done
  /\ pass.at \in PastReview   => material # "pending"
  /\ pass.at \in PastRequest  => "request_approval" \in ckpt.done
  /\ pass.at \in {"submit", "recorded"} => pass.decision # None

LEMMA TypeInvStep == TypeInv /\ GateInv /\ [Next]_vars => TypeInv'
<1> SUFFICES ASSUME TypeInv, GateInv, [Next]_vars PROVE TypeInv'
  OBVIOUS
<1> USE DEF TypeInv, row, ledger, environment, pipeline
<1>1. CASE Start
  <2>1. pass' \in PassState /\ ckpt' \in Checkpoint
    BY <1>1, Literals, Idle DEF Start, Open, At, PassState, Checkpoint, TypeOK
  <2>2. Tries'
    BY <1>1, Idle, Literals DEF Start, Open, At, NoPass, PassKinds, Tries
  <2> QED
    BY <1>1, <2>1, <2>2 DEF Start, TypeOK
<1>2. CASE StartDeferred
  BY <1>2 DEF StartDeferred, At, TypeOK, Tries
<1>3. CASE Promoted
  BY <1>3 DEF Promoted, TypeOK, Tries
<1>4. CASE Resume
  <2>1. pass' \in PassState /\ ckpt' \in Checkpoint
    BY <1>4, Literals, Idle DEF Resume, Open, At, PassState, Checkpoint, TypeOK
  <2>2. Tries'
    BY <1>4, Idle, Literals DEF Resume, Open, At, NoPass, PassKinds, Tries
  <2> QED
    BY <1>4, <2>1, <2>2 DEF Resume, TypeOK
<1>5. CASE Redrive
  <2>1. pass' \in PassState /\ ckpt' \in Checkpoint
    BY <1>5, Literals, Idle DEF Redrive, Open, At, PassState, Checkpoint, TypeOK
  <2>2. Tries'
    BY <1>5, Idle, Literals DEF Redrive, Open, At, NoPass, PassKinds, Tries
  <2> QED
    BY <1>5, <2>1, <2>2 DEF Redrive, TypeOK
<1>6. CASE NothingToRedrive
  BY <1>6 DEF NothingToRedrive, At, TypeOK, Tries
<1>7. CASE EnterPrefill
  <2>1. pass' \in PassState
    BY <1>7, Literals DEF EnterPrefill, At, PassState, TypeOK
  <2>2. Tries'
    <3>1. pass.at # "idle" /\ pass'.kind = pass.kind /\ UNCHANGED fails
      BY <1>7 DEF EnterPrefill, At, PassState, TypeOK
    <3> QED
      BY <3>1, GoesOn
  <2> QED
    BY <1>7, <2>1, <2>2 DEF EnterPrefill, TypeOK
<1>8. CASE CachedPrefill
  <2>1. pass' \in PassState /\ pass'.kind = pass.kind
    <3>1. pass \in PassState
      BY DEF TypeOK
    <3>2. CASE pass' = [pass EXCEPT !.at = "filling", !.seen = status, !.live = TRUE]
      BY <3>2, Literals DEF PassState, TypeOK
    <3>3. CASE \E landed : pass' = After(pass, landed)
      <4>1. PICK landed : pass' = After(pass, landed)
        BY <3>3
      <4> QED
        BY <3>1, <4>1, AfterType
    <3> QED
      BY <1>8, <3>2, <3>3 DEF CachedPrefill
  <2>2. Tries'
    <3>1. pass.at # "idle" /\ UNCHANGED fails
      BY <1>8 DEF CachedPrefill, At
    <3> QED
      BY <2>1, <3>1, GoesOn
  <2> QED
    BY <1>8, <2>1, <2>2 DEF CachedPrefill, TypeOK
<1>9. CASE LandPrefill
  <2>1. pass' \in PassState
    BY <1>9, Literals, StateFacts DEF LandPrefill, At, PassState, TypeOK
  <2>2. Tries'
    <3>1. pass.at # "idle" /\ pass'.kind = pass.kind /\ UNCHANGED fails
      BY <1>9 DEF LandPrefill, At, PassState, TypeOK
    <3> QED
      BY <3>1, GoesOn
  <2> QED
    BY <1>9, <2>1, <2>2, StateFacts DEF LandPrefill, TypeOK
<1>10. CASE SavePrefill
  <2> DEFINE p == [pass EXCEPT !.live = FALSE, !.seen = None]
  <2>1. p \in PassState /\ p.kind = pass.kind
    BY DEF PassState, TypeOK
  <2>2. pass' = After(p, pass.seen)
    BY <1>10 DEF SavePrefill
  <2> HIDE DEF p
  <2>3. pass' \in PassState /\ pass'.kind = pass.kind
    BY <2>1, <2>2, AfterType
  <2>4. Tries'
    <3>1. pass.at # "idle" /\ UNCHANGED fails
      BY <1>10 DEF SavePrefill, At
    <3> QED
      BY <2>3, <3>1, GoesOn
  <2>5. ckpt' \in Checkpoint
    BY <1>10 DEF SavePrefill, Checkpoint, PassState, TypeOK
  <2> QED
    BY <1>10, <2>3, <2>4, <2>5 DEF SavePrefill, TypeOK
<1>11. CASE GenerateMaterial
  <2>1. pass' \in PassState
    BY <1>11, Literals DEF GenerateMaterial, At, PassState, TypeOK
  <2>2. Tries'
    <3>1. pass.at # "idle" /\ pass'.kind = pass.kind /\ UNCHANGED fails
      BY <1>11 DEF GenerateMaterial, At, PassState, TypeOK
    <3> QED
      BY <3>1, GoesOn
  <2> QED
    BY <1>11, <2>1, <2>2 DEF GenerateMaterial, TypeOK
<1>12. CASE SaveMaterial
  <2>1. pass' \in PassState
    BY <1>12, Literals DEF SaveMaterial, At, Goto, SaveStep, PassState, TypeOK
  <2>2. Tries'
    <3>1. pass.at # "idle" /\ pass'.kind = pass.kind /\ UNCHANGED fails
      BY <1>12 DEF SaveMaterial, At, Goto, SaveStep, PassState, TypeOK
    <3> QED
      BY <3>1, GoesOn
  <2>3. ckpt' \in Checkpoint
    BY <1>12, Literals DEF SaveMaterial, Goto, SaveStep, Checkpoint, PassState, TypeOK
  <2> QED
    BY <1>12, <2>1, <2>2, <2>3 DEF SaveMaterial, TypeOK
<1>13. CASE SkipMaterial
  <2>1. pass' \in PassState
    BY <1>13, Literals DEF SkipMaterial, At, Goto, PassState, TypeOK
  <2>2. Tries'
    <3>1. pass.at # "idle" /\ pass'.kind = pass.kind /\ UNCHANGED fails
      BY <1>13 DEF SkipMaterial, At, Goto, PassState, TypeOK
    <3> QED
      BY <3>1, GoesOn
  <2> QED
    BY <1>13, <2>1, <2>2 DEF SkipMaterial, TypeOK
<1>14. CASE CheckReview
  <2>1. pass' \in PassState
    BY <1>14, Literals DEF CheckReview, At, PassState, TypeOK
  <2>2. Tries'
    <3>1. pass.at # "idle" /\ pass'.kind = pass.kind /\ UNCHANGED fails
      BY <1>14 DEF CheckReview, At, PassState, TypeOK
    <3> QED
      BY <3>1, GoesOn
  <2> QED
    BY <1>14, <2>1, <2>2 DEF CheckReview, TypeOK
<1>15. CASE RequestApproval
  <2>1. pass' \in PassState
    BY <1>15, Literals DEF RequestApproval, At, Goto, SaveStep, PassState, TypeOK
  <2>2. Tries'
    <3>1. pass.at # "idle" /\ pass'.kind = pass.kind /\ UNCHANGED fails
      BY <1>15 DEF RequestApproval, At, Goto, SaveStep, PassState, TypeOK
    <3> QED
      BY <3>1, GoesOn
  <2>3. ckpt' \in Checkpoint
    BY <1>15, Literals DEF RequestApproval, Goto, SaveStep, Checkpoint, PassState, TypeOK
  <2> QED
    BY <1>15, <2>1, <2>2, <2>3 DEF RequestApproval, TypeOK
<1>16. CASE Receive
  <2>1. pass' \in PassState
    BY <1>16, Literals, MailboxMoves DEF Receive, At, PassState, TypeOK
  <2>2. Tries'
    <3>1. pass.at # "idle" /\ pass'.kind = pass.kind /\ UNCHANGED fails
      BY <1>16, MailboxMoves DEF Receive, At, PassState, TypeOK
    <3> QED
      BY <3>1, GoesOn
  <2>3. ckpt' \in Checkpoint
    BY <1>16, Literals, MailboxMoves DEF Receive, Checkpoint, PassState, TypeOK
  <2> QED
    BY <1>16, <2>1, <2>2, <2>3 DEF Receive, TypeOK
<1>17. CASE ReceiveNothing
  <2>1. pass' \in PassState
    BY <1>17, Literals DEF ReceiveNothing, At, PassState, TypeOK
  <2>2. Tries'
    <3>1. pass.at # "idle" /\ pass'.kind = pass.kind /\ UNCHANGED fails
      BY <1>17 DEF ReceiveNothing, At, PassState, TypeOK
    <3> QED
      BY <3>1, GoesOn
  <2> QED
    BY <1>17, <2>1, <2>2 DEF ReceiveNothing, TypeOK
<1>18. CASE Submit
  <2>1. pass' \in PassState
    BY <1>18, Literals DEF Submit, At, Goto, PassState, TypeOK
  <2>2. Tries'
    <3>1. pass.at # "idle" /\ pass'.kind = pass.kind /\ UNCHANGED fails
      BY <1>18 DEF Submit, At, Goto, PassState, TypeOK
    <3> QED
      BY <3>1, GoesOn
  <2> QED
    BY <1>18, <2>1, <2>2, StateFacts DEF Submit, Record, TerminalFor, Submitted, TypeOK
<1>19. CASE SaveSubmit
  <2>1. pass' \in PassState
    BY <1>19, Literals DEF SaveSubmit, At, SaveStep, PassState, TypeOK
  <2>2. Tries'
    <3>1. pass.at # "idle" /\ pass'.kind = pass.kind /\ UNCHANGED fails
      BY <1>19 DEF SaveSubmit, At, SaveStep, PassState, TypeOK
    <3> QED
      BY <3>1, GoesOn
  <2>3. ckpt' \in Checkpoint
    BY <1>19, Literals DEF SaveSubmit, SaveStep, Checkpoint, PassState, TypeOK
  <2> QED
    BY <1>19, <2>1, <2>2, <2>3 DEF SaveSubmit, TypeOK
<1>20. CASE SkipSubmit
  <2>1. pass' \in PassState
    BY <1>20, Literals DEF SkipSubmit, At, PassState, TypeOK
  <2>2. Tries'
    <3>1. pass.at # "idle" /\ pass'.kind = pass.kind /\ UNCHANGED fails
      BY <1>20 DEF SkipSubmit, At, PassState, TypeOK
    <3> QED
      BY <3>1, GoesOn
  <2> QED
    BY <1>20, <2>1, <2>2 DEF SkipSubmit, TypeOK
<1>21. CASE Teardown
  <2>1. pass' \in PassState
    BY <1>21, Literals DEF Teardown, At, Goto, PassState, TypeOK
  <2>2. Tries'
    <3>1. pass.at # "idle" /\ pass'.kind = pass.kind /\ UNCHANGED fails
      BY <1>21 DEF Teardown, At, Goto, PassState, TypeOK
    <3> QED
      BY <3>1, GoesOn
  <2> QED
    BY <1>21, <2>1, <2>2 DEF Teardown, Released, TypeOK
<1>22. CASE SaveTeardown
  <2>1. pass' \in PassState
    BY <1>22, Literals DEF SaveTeardown, At, Goto, SaveStep, PassState, TypeOK
  <2>2. Tries'
    <3>1. pass.at # "idle" /\ pass'.kind = pass.kind /\ UNCHANGED fails
      BY <1>22 DEF SaveTeardown, At, Goto, SaveStep, PassState, TypeOK
    <3> QED
      BY <3>1, GoesOn
  <2>3. ckpt' \in Checkpoint
    BY <1>22, Literals DEF SaveTeardown, Goto, SaveStep, Checkpoint, PassState, TypeOK
  <2> QED
    BY <1>22, <2>1, <2>2, <2>3 DEF SaveTeardown, TypeOK
<1>23. CASE ApplyOutcome
  <2>1. fails' \in FailureCounts
    BY <1>23, PipelineAssumption DEF ApplyOutcome, At, Tries, TypeOK, PassState, PassKinds, FailureCounts
  <2>2. ckpt' \in Checkpoint /\ pass' \in PassState
    BY <1>23, Idle DEF ApplyOutcome, TypeOK
  <2>3. Tries'
    BY <1>23, Idle, Literals DEF ApplyOutcome, Tries
  <2> QED
    BY <1>23, <2>1, <2>2, <2>3 DEF ApplyOutcome, Released, TypeOK
<1>24. CASE IllegalTransition
  <2>1. pass.at # "idle" /\ Abandon /\ faults' \in 0..MaxFaults
    BY <1>24, PipelineAssumption DEF IllegalTransition, At, TypeOK
  <2>2. pass' = NoPass /\ fails' \in FailureCounts
          /\ slot' \in {"free", "waiting", "held"} /\ session' \in BOOLEAN
    BY <2>1, AbandonType
  <2>3. Tries'
    BY <2>2, Idle, Literals DEF Tries
  <2> QED
    BY <2>1, <2>2, <2>3, Idle DEF Abandon, TypeOK
<1>25. CASE StepRaises
  <2>1. pass.at # "idle" /\ Abandon /\ faults' \in 0..MaxFaults
    BY <1>25, PipelineAssumption DEF StepRaises, At, TypeOK
  <2>2. pass' = NoPass /\ fails' \in FailureCounts
          /\ slot' \in {"free", "waiting", "held"} /\ session' \in BOOLEAN
    BY <2>1, AbandonType
  <2>3. Tries'
    BY <2>2, Idle, Literals DEF Tries
  <2> QED
    BY <2>1, <2>2, <2>3, Idle DEF Abandon, TypeOK
<1>26. ASSUME NEW kind \in Requests, RequestSubmission(kind)
      PROVE  TypeInv'
  <2>1. req' \in RequestState
    BY <1>26, Idle, Literals DEF RequestSubmission, RequestState, TypeOK
  <2> QED
    BY <1>26, <2>1 DEF RequestSubmission, TypeOK, Tries
<1>27. CASE SendDecision
  <2>1. DecisionOf(req.kind) \in Decisions
    BY DEF DecisionOf, Decisions
  <2>2. req' \in RequestState
    BY <1>27, Literals DEF SendDecision, RequestState, TypeOK
  <2>3. Append(ckpt.box, DecisionOf(req.kind)) \in Seq(Decisions)
    BY <2>1, MailboxMoves DEF TypeOK
  <2>4. ckpt' \in Checkpoint
    BY <1>27, <2>3 DEF SendDecision, Checkpoint, TypeOK
  <2> QED
    BY <1>27, <2>2, <2>4 DEF SendDecision, TypeOK, Tries
<1>28. CASE RecordSubmission
  <2>1. req' \in RequestState
    BY <1>28, Idle, Literals DEF RecordSubmission, RequestState, TypeOK
  <2> QED
    BY <1>28, <2>1, StateFacts DEF RecordSubmission, Record, TerminalFor, Submitted, TypeOK, Tries
<1>29. CASE RefuseSubmission
  <2>1. req' \in RequestState
    BY <1>29, Idle, Literals DEF RefuseSubmission, RequestState, TypeOK
  <2> QED
    BY <1>29, <2>1 DEF RefuseSubmission, TypeOK, Tries
<1>30. CASE EnterPostSubmission
  <2>1. req' \in RequestState
    BY <1>30, Idle, Literals DEF EnterPostSubmission, RequestState, TypeOK
  <2> QED
    BY <1>30, <2>1, StateFacts DEF EnterPostSubmission, TypeOK, Tries
<1>31. CASE RequestResume
  <2>1. req' \in RequestState
    BY <1>31, Idle, Literals DEF RequestResume, RequestState, TypeOK
  <2> QED
    BY <1>31, <2>1 DEF RequestResume, TypeOK, Tries
<1>32. CASE LandResume
  <2>1. req' \in RequestState
    BY <1>32, Idle, Literals DEF LandResume, RequestState, TypeOK
  <2> QED
    BY <1>32, <2>1, StateFacts DEF LandResume, TypeOK, Tries
<1>33. CASE ApproveMaterial
  BY <1>33 DEF ApproveMaterial, TypeOK, Tries
<1>34. CASE RetryGivenUp
  <2>1. fails' \in FailureCounts /\ fails'.start <= fails.start /\ fails'.resume <= fails.resume
    BY <1>34, PipelineAssumption DEF RetryGivenUp, FailureCounts, TypeOK
  <2>2. Tries'
    BY <1>34, <2>1, PipelineAssumption DEF RetryGivenUp, Tries, FailureCounts, TypeOK
  <2> QED
    BY <1>34, <2>1, <2>2 DEF RetryGivenUp, TypeOK
<1>35. CASE Crash
  <2>1. fails' \in FailureCounts
    BY <1>35, PipelineAssumption DEF Crash, FailureCounts, TypeOK
  <2>2. Tries'
    BY <1>35, Idle, Literals DEF Crash, Tries
  <2>3. crashes' \in 0..MaxCrashes
    BY <1>35, PipelineAssumption DEF Crash, TypeOK
  <2> QED
    BY <1>35, <2>1, <2>2, <2>3, Idle DEF Crash, TypeOK
<1>36. CASE Restart
  BY <1>36 DEF Restart, TypeOK, Tries
<1>37. CASE SyncStatus
  <2>1. pass' \in PassState /\ status' \in ApplicationState
    BY <1>37, Literals DEF SyncStatus, At, PassState, TypeOK, GateInv, Filling
  <2>2. Tries'
    <3>1. pass.at # "idle" /\ pass'.kind = pass.kind /\ UNCHANGED fails
      BY <1>37 DEF SyncStatus, At, PassState, TypeOK
    <3> QED
      BY <3>1, GoesOn
  <2> QED
    BY <1>37, <2>1, <2>2 DEF SyncStatus, TypeOK
<1>38. CASE LinkVariant
  <2>1. pass' \in PassState /\ status' \in ApplicationState
    BY <1>38, Literals DEF LinkVariant, At, PassState, TypeOK, GateInv
  <2>2. Tries'
    <3>1. pass.at # "idle" /\ pass'.kind = pass.kind /\ UNCHANGED fails
      BY <1>38 DEF LinkVariant, At, PassState, TypeOK
    <3> QED
      BY <3>1, GoesOn
  <2>3. material' \in {"none", "pending", "approved"}
    BY <1>38 DEF LinkVariant, TypeOK
  <2> QED
    BY <1>38, <2>1, <2>2, <2>3 DEF LinkVariant, TypeOK
<1>39. CASE WritePostSubmission
  <2>1. req' \in RequestState
    BY <1>39, Idle DEF WritePostSubmission
  <2> QED
    BY <1>39, <2>1, StateFacts DEF WritePostSubmission, TypeOK, Tries
<1>40. CASE UNCHANGED vars
  BY <1>40 DEF vars, TypeOK, Tries
<1> QED
  BY <1>1, <1>2, <1>3, <1>4, <1>5, <1>6, <1>7, <1>8, <1>9, <1>10, <1>11,
     <1>12, <1>13, <1>14, <1>15, <1>16, <1>17, <1>18, <1>19, <1>20,
     <1>21, <1>22, <1>23, <1>24, <1>25, <1>26, <1>27, <1>28, <1>29,
     <1>30, <1>31, <1>32, <1>33, <1>34, <1>35, <1>36, <1>37, <1>38, <1>39,
     <1>40
  DEF Next, Pass, Serve, User

-----------------------------------------------------------------------------
LEMMA PassesAreRecords ==
  ASSUME TypeOK
  PROVE  /\ pass = [at |-> pass.at, kind |-> pass.kind, seen |-> pass.seen, live |-> pass.live,
                    decision |-> pass.decision, verdict |-> pass.verdict]
         /\ ckpt = [file |-> ckpt.file, prefill |-> ckpt.prefill, done |-> ckpt.done,
                    box |-> ckpt.box]
         /\ pass.live \in BOOLEAN /\ status # None
         /\ ckpt \in Checkpoint
BY PipelineAssumption DEF TypeOK, PassState, Checkpoint

LEMMA GateInvStep == TypeOK /\ GateInv /\ [Next]_vars => GateInv'
<1> SUFFICES ASSUME TypeOK, GateInv, [Next]_vars PROVE GateInv'
  OBVIOUS
<1> USE PipelineAssumption
    DEF row, ledger, environment, pipeline, Filling, PastPrefill, PastMaterial, PastReview, PastRequest
<1>1. CASE Start
  BY <1>1, PassesAreRecords DEF Start, At, Open, NoPass, GateInv
<1>2. CASE StartDeferred
  BY <1>2 DEF StartDeferred, GateInv
<1>3. CASE Promoted
  BY <1>3 DEF Promoted, GateInv
<1>4. CASE Resume
  BY <1>4, PassesAreRecords DEF Resume, At, Open, NoPass, GateInv
<1>5. CASE Redrive
  BY <1>5, PassesAreRecords DEF Redrive, At, Open, NoPass, GateInv
<1>6. CASE NothingToRedrive
  BY <1>6 DEF NothingToRedrive, GateInv
<1>7. CASE EnterPrefill
  BY <1>7, PassesAreRecords DEF EnterPrefill, At, GateInv
<1>8. CASE CachedPrefill
  BY <1>8, PassesAreRecords DEF CachedPrefill, At, After, GateInv
<1>9. CASE LandPrefill
  BY <1>9, StateFacts, PassesAreRecords DEF LandPrefill, At, GateInv
<1>10. CASE SavePrefill
  BY <1>10, PassesAreRecords DEF SavePrefill, At, After, GateInv
<1>11. CASE GenerateMaterial
  BY <1>11, PassesAreRecords DEF GenerateMaterial, At, GateInv
<1>12. CASE SaveMaterial
  BY <1>12, PassesAreRecords DEF SaveMaterial, At, Goto, SaveStep, GateInv
<1>13. CASE SkipMaterial
  BY <1>13, PassesAreRecords DEF SkipMaterial, At, Goto, Checkpointed, GateInv
<1>14. CASE CheckReview
  BY <1>14, PassesAreRecords DEF CheckReview, At, GateInv
<1>15. CASE RequestApproval
  BY <1>15, PassesAreRecords DEF RequestApproval, At, Goto, SaveStep, GateInv
<1>16. CASE Receive
  BY <1>16, PassesAreRecords, MailboxMoves DEF Receive, At, GateInv
<1>17. CASE ReceiveNothing
  BY <1>17, PassesAreRecords DEF ReceiveNothing, At, GateInv
<1>18. CASE Submit
  BY <1>18, PassesAreRecords DEF Submit, At, Goto, GateInv
<1>19. CASE SaveSubmit
  BY <1>19, PassesAreRecords DEF SaveSubmit, At, SaveStep, GateInv
<1>20. CASE SkipSubmit
  BY <1>20, PassesAreRecords DEF SkipSubmit, At, GateInv
<1>21. CASE Teardown
  BY <1>21, PassesAreRecords DEF Teardown, At, Goto, GateInv
<1>22. CASE SaveTeardown
  BY <1>22, PassesAreRecords DEF SaveTeardown, At, Goto, SaveStep, GateInv
<1>23. CASE ApplyOutcome
  BY <1>23 DEF ApplyOutcome, NoPass, GateInv
<1>24. CASE IllegalTransition
  BY <1>24 DEF IllegalTransition, Abandon, NoPass, GateInv
<1>25. CASE StepRaises
  BY <1>25 DEF StepRaises, Abandon, NoPass, GateInv
<1>26. ASSUME NEW kind \in Requests, RequestSubmission(kind)
      PROVE  GateInv'
  BY <1>26 DEF RequestSubmission, GateInv
<1>27. CASE SendDecision
  BY <1>27 DEF SendDecision, GateInv
<1>28. CASE RecordSubmission
  BY <1>28 DEF RecordSubmission, GateInv
<1>29. CASE RefuseSubmission
  BY <1>29 DEF RefuseSubmission, GateInv
<1>30. CASE EnterPostSubmission
  BY <1>30 DEF EnterPostSubmission, GateInv
<1>31. CASE RequestResume
  BY <1>31 DEF RequestResume, GateInv
<1>32. CASE LandResume
  BY <1>32 DEF LandResume, GateInv
<1>33. CASE ApproveMaterial
  BY <1>33 DEF ApproveMaterial, GateInv
<1>34. CASE RetryGivenUp
  BY <1>34 DEF RetryGivenUp, GateInv
<1>35. CASE Crash
  BY <1>35 DEF Crash, NoPass, GateInv
<1>36. CASE Restart
  BY <1>36 DEF Restart, GateInv
<1>37. CASE SyncStatus
  BY <1>37, PassesAreRecords DEF SyncStatus, At, GateInv
<1>38. CASE LinkVariant
  BY <1>38, PassesAreRecords DEF LinkVariant, At, GateInv
<1>39. CASE WritePostSubmission
  BY <1>39 DEF WritePostSubmission, GateInv
<1>40. CASE UNCHANGED vars
  BY <1>40 DEF vars, GateInv
<1> QED
  BY <1>1, <1>2, <1>3, <1>4, <1>5, <1>6, <1>7, <1>8, <1>9, <1>10, <1>11,
     <1>12, <1>13, <1>14, <1>15, <1>16, <1>17, <1>18, <1>19, <1>20,
     <1>21, <1>22, <1>23, <1>24, <1>25, <1>26, <1>27, <1>28, <1>29,
     <1>30, <1>31, <1>32, <1>33, <1>34, <1>35, <1>36, <1>37, <1>38, <1>39,
     <1>40
  DEF Next, Pass, Serve, User

LEMMA Typed == Spec => [](TypeInv /\ GateInv)
<1>1. Init => GateInv
  BY DEF Init, GateInv, NoPass, Filling, PastPrefill, PastMaterial, PastReview, PastRequest
<1>2. TypeInv /\ GateInv /\ [Next]_vars => GateInv'
  BY GateInvStep DEF TypeInv
<1> QED
  BY <1>1, <1>2, TypeInvInit, TypeInvStep, PTL DEF Spec

(* Every variable keeps its type; no failure count passes its cap.         *)
THEOREM PipelineTypeCorrect == Spec => []TypeOK
<1>1. TypeInv => TypeOK
  BY DEF TypeInv
<1> QED
  BY <1>1, Typed, PTL

(* No restart, re-drive, cached step or exception lets a pass of the       *)
(* engine reach its submit step around pre-fill, the material, its review, *)
(* the request for approval or the user's decision.                        *)
THEOREM SubmitsPastEveryGate == Spec => []SubmitOnlyPastEveryGate
<1>1. GateInv => SubmitOnlyPastEveryGate
  BY DEF GateInv, SubmitOnlyPastEveryGate, PastPrefill, PastMaterial, PastReview, PastRequest
<1> QED
  BY <1>1, Typed, PTL
-----------------------------------------------------------------------------
(* Why status and outcome agree.  Both are written by whoever submits, from *)
(* a copy of the row it read: the pass at its submit step, a request after  *)
(* it sent its decision.  What a copy says still holds when it is used,     *)
(* but for a submission by somebody else; no pre-fill, the pass's or the    *)
(* user's, is under way over a row that has been submitted; and once        *)
(* pre-fill has landed the row stays at the final approval or past it.      *)
PassKnowsRow ==
  /\ pass.at = "filling" => status = pass.seen /\ pass.seen \in Enterable
  /\ pass.at \in {"landed", "synced"} =>
       /\ pass.seen \in Landings
       /\ status = pass.seen \/ (pass.seen \in Gate /\ status \in Handed)
  /\ pass.at = "linking" =>
       /\ pass.seen \in {AWAITING_FINAL_APPROVAL} \cup Handed
       /\ pass.seen \in Handed => outcomes > 0
  /\ pass.at \in PastPrefill => status \in {AWAITING_FINAL_APPROVAL} \cup Handed
  /\ pass.at \in Filling =>
       ckpt.prefill \in IF pass.live = TRUE THEN PrefillHandoffs ELSE {None}

FileKnowsRow ==
  /\ ckpt.prefill \in Landings \cup {None}
  /\ ckpt.prefill # None => status # APPROVED
  /\ ckpt.prefill = AWAITING_FINAL_APPROVAL => status \in {AWAITING_FINAL_APPROVAL} \cup Handed
  /\ ckpt.prefill = FAILED => status = FAILED

SubmittingFromGate ==
  req.stage \in {"send", "record"} =>
    /\ req.seen \in Gate
    /\ status \in {req.seen} \cup Handed
    /\ pass.at \in {"landed", "linking"} => pass.seen \in {req.seen} \cup Handed

ResumeOwnsRow ==
  req.stage = "fill" =>
    /\ req.kind = "resume_step" /\ pass.at = "idle"
    /\ status \in {AWAITING_ACCOUNT_HUMAN_STEP, BLOCKED_DETECTION}

RequestKnowsRow ==
  /\ SubmittingFromGate
  /\ req.stage \in {"enter_post", "post"} => outcomes > 0
  /\ ResumeOwnsRow

OutcomeInv ==
  /\ status \in {APPROVED} \cup Landings \cup Handed
  /\ status \in Handed => outcomes > 0
  /\ outcomes > 0 => status \in Gate \cup Handed
  /\ PassKnowsRow
  /\ FileKnowsRow
  /\ RequestKnowsRow

LEMMA ApprovalFacts ==
  /\ AWAITING_FINAL_APPROVAL \notin PrefillHandoffs \cup Handed \cup Enterable \cup TERMINAL_STATES
  /\ FAILED \notin PrefillHandoffs \cup Enterable \cup Gate \cup Handed
  /\ FAILED \in TERMINAL_STATES
  /\ \A l \in Landings : l \in TERMINAL_STATES => l = FAILED
  /\ \A l \in Landings : l \in PrefillHandoffs \cup {AWAITING_FINAL_APPROVAL, FAILED}
  /\ APPROVED \notin Landings \cup Gate \cup PrefillHandoffs \cup TERMINAL_STATES
  /\ Gate \subseteq Landings /\ AWAITING_FINAL_APPROVAL \in Landings
BY DEF ApplicationState, Landings, PrefillHandoffs, Enterable, Handed, Gate, Submitted,
   Blocked, PostStates, TERMINAL_STATES, DISCOVERED, SCORED, DIGESTED, DECLINED,
   APPROVED, SANDBOX_PROVISIONING, ACCOUNT_PREFILL, AWAITING_ACCOUNT_HUMAN_STEP,
   PREFILLING, BLOCKED_DETECTION, BLOCKED_MISSING_ATTR, BLOCKED_QUESTION,
   MATERIAL_PREP, MATERIAL_REVIEW, AWAITING_FINAL_APPROVAL, SUBMITTED_BY_USER,
   FINISHED_BY_ENGINE, EMERGENCY_DATA_HANDOFF, FAILED, POST_SUBMISSION,
   AWAITING_RESPONSE, REJECTED, GHOSTED, FOLLOWING_UP, ARCHIVED

LEMMA NoneIsNothing ==
  None \notin Verdicts /\ None \notin Decisions /\ None \notin ApplicationState
BY PipelineAssumption

LEMMA NoneIsNoState ==
  None \notin Landings \cup Handed \cup Gate \cup PrefillHandoffs \cup {APPROVED, FAILED,
                AWAITING_FINAL_APPROVAL}
<1>1. PrefillHandoffs \cup {APPROVED, FAILED, AWAITING_FINAL_APPROVAL} \subseteq ApplicationState
  BY DEF PrefillHandoffs, Blocked, ApplicationState, TERMINAL_STATES
<1> QED
  BY <1>1, StateFacts, NoneIsNothing

(* A step of the pass over a row that stays as it is, which neither begins *)
(* nor ends a pre-fill and does not read the row to write it back.         *)
LEMMA RowUntouched ==
  ASSUME OutcomeInv, UNCHANGED <<status, outcomes, req>>,
         pass'.at \notin Filling \cup {"linking"},
         pass'.at \in PastPrefill => pass.at \in PastPrefill,
         ckpt'.prefill \in {None, ckpt.prefill},
         req.stage = "fill" => pass'.at = "idle"
  PROVE  OutcomeInv'
<1>1. PassKnowsRow'
  BY DEF OutcomeInv, PassKnowsRow, Filling, PastPrefill
<1>2. FileKnowsRow'
  BY NoneIsNoState DEF OutcomeInv, FileKnowsRow
<1>3. RequestKnowsRow'
  BY DEF OutcomeInv, RequestKnowsRow, SubmittingFromGate, ResumeOwnsRow, Filling
<1> QED
  BY <1>1, <1>2, <1>3 DEF OutcomeInv

(* Somebody submits, or moves a submission on, while no pre-fill is under  *)
(* way: every copy of the row allows for it.                               *)
LEMMA RowHandedOver ==
  ASSUME OutcomeInv, status \in Gate \cup Handed, status' \in Handed, outcomes' > 0,
         UNCHANGED <<pass, ckpt.prefill>>,
         UNCHANGED req \/ req'.stage \in {None, "enter_post", "post"}
  PROVE  OutcomeInv'
<1> USE StateFacts, ApprovalFacts
<1>1. PassKnowsRow'
  <2>1. pass.at # "filling"
    BY DEF OutcomeInv, PassKnowsRow
  <2>2. (pass.at \in {"landed", "synced"} =>
           /\ pass.seen \in Landings
           /\ status = pass.seen \/ (pass.seen \in Gate /\ status \in Handed))'
    BY DEF OutcomeInv, PassKnowsRow
  <2> QED
    BY <2>1, <2>2 DEF OutcomeInv, PassKnowsRow
<1>2. FileKnowsRow'
  BY DEF OutcomeInv, FileKnowsRow
<1>3. CASE UNCHANGED req
  <2>1. RequestKnowsRow'
    BY <1>3 DEF OutcomeInv, RequestKnowsRow, SubmittingFromGate, ResumeOwnsRow
  <2> QED
    BY <1>1, <1>2, <2>1 DEF OutcomeInv
<1>4. CASE req'.stage \in {None, "enter_post", "post"}
  <2>1. RequestKnowsRow'
    BY <1>4, Literals DEF RequestKnowsRow, SubmittingFromGate, ResumeOwnsRow, RequestStages
  <2> QED
    BY <1>1, <1>2, <2>1 DEF OutcomeInv
<1> QED
  BY <1>3, <1>4

(* A request ends, or goes on, over a row and a pass that stay.            *)
LEMMA RequestGoesOn ==
  ASSUME OutcomeInv, UNCHANGED <<status, outcomes, pass, ckpt.prefill>>, RequestKnowsRow'
  PROVE  OutcomeInv'
BY DEF OutcomeInv, PassKnowsRow, FileKnowsRow

(* Where a pass stands decides that no user's resume is under way.         *)
LEMMA PassExcludesResume ==
  ASSUME OutcomeInv, pass.at # "idle"
  PROVE  req.stage # "fill"
BY DEF OutcomeInv, RequestKnowsRow, ResumeOwnsRow

(* What submitting does to the row: the event is there, and a row that     *)
(* had none is past the submission.                                        *)
LEMMA RecordSubmits ==
  ASSUME NEW d, Record(TerminalFor(d)), outcomes \in Nat
  PROVE  /\ outcomes' \in Nat /\ outcomes' > 0
         /\ UNCHANGED <<status, outcomes>> \/ (outcomes = 0 /\ status' \in Handed)
<1>1. TerminalFor(d) \in Submitted
  BY DEF TerminalFor, Submitted
<1>2. CASE outcomes > 0
  BY <1>2 DEF Record
<1>3. CASE ~(outcomes > 0)
  BY <1>1, <1>3, StateFacts DEF Record
<1> QED
  BY <1>2, <1>3

LEMMA RequestsAreRecords ==
  ASSUME TypeOK
  PROVE  req = [kind |-> req.kind, stage |-> req.stage, seen |-> req.seen]
BY DEF TypeOK, RequestState

LEMMA OutcomeInvInit == Init => OutcomeInv
BY StateFacts, Literals, Idle, NoneIsNoState DEF Init, OutcomeInv, PassKnowsRow, FileKnowsRow,
   RequestKnowsRow, SubmittingFromGate, ResumeOwnsRow, NoReq, NoFile, RequestStages, Filling,
   PastPrefill

LEMMA OutcomeInvStep ==
  ASSUME Overlap = FALSE, TypeOK, GateInv, OutcomeInv, [Next]_vars
  PROVE  OutcomeInv'
<1> USE PipelineAssumption, PassesAreRecords DEF row, ledger, environment, pipeline
<1>1. CASE Start \/ Resume \/ Redrive
  <2>1. /\ UNCHANGED <<status, outcomes, req, ckpt.prefill>>
        /\ pass'.at = "prefill" /\ req.kind # "resume_step"
    BY <1>1, Idle DEF Start, Resume, Redrive, Open, NoPass
  <2>2. req.stage # "fill"
    BY <2>1 DEF OutcomeInv, RequestKnowsRow, ResumeOwnsRow
  <2> QED
    BY <2>1, <2>2, RowUntouched DEF Filling, PastPrefill
<1>2. CASE \/ StartDeferred \/ Promoted \/ NothingToRedrive \/ ApproveMaterial
           \/ RetryGivenUp \/ Restart \/ UNCHANGED vars
  <2>1. UNCHANGED <<status, outcomes, req, ckpt, pass>>
    BY <1>2 DEF StartDeferred, Promoted, NothingToRedrive, ApproveMaterial, RetryGivenUp,
       Restart, vars
  <2> QED
    BY <2>1 DEF OutcomeInv, PassKnowsRow, FileKnowsRow, RequestKnowsRow, SubmittingFromGate,
       ResumeOwnsRow
<1>3. CASE EnterPrefill
  <2>1. /\ pass.at = "prefill" /\ UNCHANGED <<status, outcomes, req, ckpt>>
        /\ pass' = [pass EXCEPT !.at = "filling", !.seen = status]
        /\ ckpt.prefill = None /\ status \in Enterable
    BY <1>3 DEF EnterPrefill, At
  <2>2. PassKnowsRow'
    BY <2>1 DEF PassKnowsRow, Filling, PastPrefill, GateInv
  <2>3. req.stage # "fill"
    BY <2>1, PassExcludesResume
  <2> QED
    BY <2>1, <2>2, <2>3 DEF OutcomeInv, FileKnowsRow, RequestKnowsRow, SubmittingFromGate,
       ResumeOwnsRow
<1>4. CASE CachedPrefill
  <2>1. /\ pass.at = "prefill" /\ UNCHANGED <<status, outcomes, req, ckpt>>
        /\ ckpt.prefill # None
    BY <1>4 DEF CachedPrefill, At
  <2>2. req.stage # "fill"
    BY <2>1, PassExcludesResume
  <2>3. CASE ckpt.prefill \in PrefillHandoffs /\ status \in PrefillHandoffs
    <3>1. /\ status \in Enterable
          /\ pass' = [pass EXCEPT !.at = "filling", !.seen = status, !.live = TRUE]
      BY <1>4, <2>3 DEF CachedPrefill
    <3>2. PassKnowsRow'
      BY <2>1, <2>3, <3>1 DEF PassKnowsRow, Filling, PastPrefill
    <3> QED
      BY <2>1, <2>2, <3>1, <3>2 DEF OutcomeInv, FileKnowsRow, RequestKnowsRow,
         SubmittingFromGate, ResumeOwnsRow
  <2>4. CASE ~(ckpt.prefill \in PrefillHandoffs /\ status \in PrefillHandoffs)
    <3> DEFINE l == IF ckpt.prefill \in PrefillHandoffs THEN status ELSE ckpt.prefill
    <3>1. pass' = After(pass, l)
      BY <1>4, <2>4 DEF CachedPrefill
    <3>2. pass'.at \in {"apply", "teardown", "material"}
      BY <3>1, AfterType DEF TypeOK
    <3>3. pass'.at = "material" => l \notin PrefillHandoffs \cup TERMINAL_STATES
      BY <3>1 DEF After
    <3>4. l \notin PrefillHandoffs \cup TERMINAL_STATES =>
            status \in {AWAITING_FINAL_APPROVAL} \cup Handed
      BY <2>1, <2>4, ApprovalFacts, StateFacts DEF OutcomeInv, FileKnowsRow
    <3>5. PassKnowsRow'
      BY <2>1, <3>2, <3>3, <3>4 DEF PassKnowsRow, Filling, PastPrefill
    <3> QED
      BY <2>1, <2>2, <3>2, <3>5 DEF OutcomeInv, FileKnowsRow, RequestKnowsRow,
         SubmittingFromGate, ResumeOwnsRow
  <2> QED
    BY <2>3, <2>4
<1>5. CASE LandPrefill
  <2>1. status \in Enterable /\ status' \in Landings
    BY <1>5 DEF LandPrefill, At, OutcomeInv, PassKnowsRow
  <2>2. status \notin Handed \cup Gate /\ status' \notin Handed \cup {APPROVED}
    BY <2>1, StateFacts, ApprovalFacts
  <2>3. /\ pass.at = "filling" /\ pass'.at = "landed" /\ pass'.seen = status'
        /\ pass'.live = pass.live /\ UNCHANGED <<outcomes, req, ckpt>>
    BY <1>5 DEF LandPrefill, At
  <2>4. req.stage \notin {"fill", "send", "record", "enter_post", "post"}
    BY <2>2, <2>3, PassExcludesResume DEF OutcomeInv, RequestKnowsRow, SubmittingFromGate
  <2>5. ckpt.prefill \in PrefillHandoffs \cup {None}
    BY <2>3 DEF OutcomeInv, PassKnowsRow, Filling
  <2>6. FileKnowsRow'
    BY <2>2, <2>3, <2>5, ApprovalFacts, NoneIsNoState DEF OutcomeInv, FileKnowsRow
  <2>7. PassKnowsRow'
    BY <2>1, <2>3 DEF OutcomeInv, PassKnowsRow, Filling, PastPrefill
  <2>8. RequestKnowsRow'
    BY <2>3, <2>4 DEF OutcomeInv, RequestKnowsRow, SubmittingFromGate, ResumeOwnsRow
  <2> QED
    BY <2>1, <2>2, <2>3, <2>6, <2>7, <2>8 DEF OutcomeInv
<1>6. CASE SyncStatus
  <2>1. /\ pass.at = "landed" /\ pass'.at = "synced" /\ pass'.seen = pass.seen
        /\ pass'.live = pass.live /\ status' = pass.seen /\ UNCHANGED <<outcomes, req, ckpt>>
    BY <1>6 DEF SyncStatus, At
  <2>2. /\ pass.seen \in Landings
        /\ status = pass.seen \/ (pass.seen \in Gate /\ status \in Handed)
    BY <2>1 DEF OutcomeInv, PassKnowsRow
  <2>3. ckpt.prefill \in PrefillHandoffs \cup {None}
    BY <2>1 DEF OutcomeInv, PassKnowsRow, Filling
  <2>4. FileKnowsRow'
    BY <2>1, <2>2, <2>3, ApprovalFacts, NoneIsNoState DEF OutcomeInv, FileKnowsRow
  <2>5. PassKnowsRow'
    BY <2>1, <2>2 DEF OutcomeInv, PassKnowsRow, Filling, PastPrefill
  <2>6. req.stage # "fill"
    BY <2>1, PassExcludesResume
  <2>7. RequestKnowsRow'
    BY <2>1, <2>2, <2>6 DEF OutcomeInv, RequestKnowsRow, SubmittingFromGate, ResumeOwnsRow
  <2>8. outcomes > 0 => status' \in Gate \cup Handed
    BY <2>1, <2>2 DEF OutcomeInv
  <2> QED
    BY <2>1, <2>2, <2>4, <2>5, <2>7, <2>8, StateFacts DEF OutcomeInv
<1>7. CASE SavePrefill
  <2> DEFINE p == [pass EXCEPT !.live = FALSE, !.seen = None]
  <2>1. /\ pass.at = "synced" /\ UNCHANGED <<status, outcomes, req>>
        /\ pass' = After(p, pass.seen)
        /\ ckpt'.prefill \in {ckpt.prefill, pass.seen}
    BY <1>7 DEF SavePrefill, At
  <2>2. p \in PassState
    BY DEF TypeOK, PassState
  <2> HIDE DEF p
  <2>3. pass'.at \in {"apply", "teardown", "material"}
    BY <2>1, <2>2, AfterType
  <2>4. pass'.at = "material" => pass.seen \notin PrefillHandoffs \cup TERMINAL_STATES
    BY <2>1 DEF After
  <2>5. /\ pass.seen \in Landings
        /\ status = pass.seen \/ (pass.seen \in Gate /\ status \in Handed)
    BY <2>1 DEF OutcomeInv, PassKnowsRow
  <2>6. PassKnowsRow'
    BY <2>1, <2>3, <2>4, <2>5, ApprovalFacts DEF PassKnowsRow, Filling, PastPrefill
  <2>7. FileKnowsRow'
    BY <2>1, <2>5, ApprovalFacts, StateFacts DEF OutcomeInv, FileKnowsRow
  <2>8. req.stage # "fill"
    BY <2>1, PassExcludesResume
  <2> QED
    BY <2>1, <2>3, <2>6, <2>7, <2>8 DEF OutcomeInv, RequestKnowsRow, SubmittingFromGate,
       ResumeOwnsRow
<1>8. CASE GenerateMaterial
  <2>1. /\ pass.at = "material" /\ UNCHANGED <<status, outcomes, req, ckpt>>
        /\ pass'.at = "linking" /\ pass'.seen = status
    BY <1>8 DEF GenerateMaterial, At
  <2>2. PassKnowsRow'
    BY <2>1 DEF OutcomeInv, PassKnowsRow, Filling, PastPrefill
  <2>3. req.stage # "fill"
    BY <2>1, PassExcludesResume
  <2> QED
    BY <2>1, <2>2, <2>3 DEF OutcomeInv, FileKnowsRow, RequestKnowsRow, SubmittingFromGate,
       ResumeOwnsRow
<1>9. CASE LinkVariant
  <2>1. /\ pass.at = "linking" /\ UNCHANGED <<outcomes, req, ckpt>>
        /\ pass'.at = "generated" /\ status' \in {status, pass.seen}
    BY <1>9 DEF LinkVariant, At
  <2>2. /\ pass.seen \in {AWAITING_FINAL_APPROVAL} \cup Handed
        /\ status \in {AWAITING_FINAL_APPROVAL} \cup Handed
        /\ status' \in Handed => outcomes > 0
    BY <2>1 DEF OutcomeInv, PassKnowsRow, PastPrefill
  <2>3. status' \in {AWAITING_FINAL_APPROVAL} \cup Handed
    BY <2>1, <2>2
  <2>4. PassKnowsRow'
    BY <2>1, <2>3 DEF PassKnowsRow, Filling, PastPrefill
  <2>5. FileKnowsRow'
    BY <2>1, <2>2, <2>3, ApprovalFacts, StateFacts DEF OutcomeInv, FileKnowsRow
  <2>6. req.stage # "fill"
    BY <2>1, PassExcludesResume
  <2>7. RequestKnowsRow'
    BY <2>1, <2>6 DEF OutcomeInv, RequestKnowsRow, SubmittingFromGate, ResumeOwnsRow
  <2> QED
    BY <2>1, <2>2, <2>3, <2>4, <2>5, <2>7, StateFacts, ApprovalFacts DEF OutcomeInv
<1>10. CASE \/ SaveMaterial \/ SkipMaterial \/ CheckReview \/ RequestApproval \/ Receive
            \/ ReceiveNothing
  <2>1. /\ pass.at \in {"generated", "material", "review", "request", "recv"}
        /\ UNCHANGED <<status, outcomes, req, ckpt.prefill>>
        /\ pass'.at \in {"review", "apply", "request", "recv", "submit"}
    BY <1>10 DEF SaveMaterial, SkipMaterial, CheckReview, RequestApproval, Receive,
       ReceiveNothing, At, Goto, SaveStep
  <2> QED
    BY <2>1, RowUntouched, PassExcludesResume DEF Filling, PastPrefill
<1>11. CASE SaveSubmit \/ SkipSubmit \/ Teardown \/ SaveTeardown
  <2>1. /\ pass.at \in {"submit", "recorded", "teardown", "torn"}
        /\ UNCHANGED <<status, outcomes, req, ckpt.prefill>>
        /\ pass'.at \in {"teardown", "torn", "apply"}
    BY <1>11 DEF SaveSubmit, SkipSubmit, Teardown, SaveTeardown, At, Goto, SaveStep
  <2> QED
    BY <2>1, RowUntouched, PassExcludesResume DEF Filling, PastPrefill
<1>12. CASE ApplyOutcome \/ IllegalTransition \/ StepRaises
  <2>1. /\ pass'.at = "idle" /\ UNCHANGED <<status, outcomes, req>>
        /\ ckpt'.prefill \in {None, ckpt.prefill}
    BY <1>12, Idle DEF ApplyOutcome, IllegalTransition, StepRaises, Abandon, NoFile
  <2> QED
    BY <2>1, RowUntouched DEF Filling, PastPrefill
<1>13. CASE Submit
  <2>1. /\ pass.at = "submit" /\ pass'.at = "recorded" /\ UNCHANGED <<req, ckpt>>
        /\ status = AWAITING_FINAL_APPROVAL
    BY <1>13 DEF Submit, At, Goto, CanSubmit
  <2>2. /\ outcomes' > 0
        /\ UNCHANGED <<status, outcomes>> \/ (outcomes = 0 /\ status' \in Handed)
    BY <1>13, RecordSubmits DEF Submit, TypeOK
  <2>3. req.stage # "fill"
    BY <2>1, PassExcludesResume
  <2>4. PassKnowsRow'
    BY <2>1, <2>2 DEF PassKnowsRow, Filling
  <2>5. FileKnowsRow'
    BY <2>1, <2>2, StateFacts, ApprovalFacts DEF OutcomeInv, FileKnowsRow
  <2>6. RequestKnowsRow'
    BY <2>1, <2>2, <2>3 DEF OutcomeInv, RequestKnowsRow, SubmittingFromGate, ResumeOwnsRow
  <2> QED
    BY <2>1, <2>2, <2>4, <2>5, <2>6, StateFacts, ApprovalFacts DEF OutcomeInv
<1>14. ASSUME NEW kind \in Requests \ {"resume_step"}, RequestSubmission(kind)
      PROVE  OutcomeInv'
  <2>1. /\ UNCHANGED <<status, outcomes, pass, ckpt.prefill>>
        /\ req'.stage \in {"send", "record"} /\ req'.seen = status /\ status \in Gate
    BY <1>14 DEF RequestSubmission
  <2>2. pass.at \in {"landed", "linking"} => pass.seen \in {status} \cup Handed
    BY <2>1, StateFacts DEF OutcomeInv, PassKnowsRow, PastPrefill
  <2>3. RequestKnowsRow'
    BY <2>1, <2>2 DEF RequestKnowsRow, SubmittingFromGate, ResumeOwnsRow
  <2> QED
    BY <2>1, <2>3, RequestGoesOn
<1>15. CASE SendDecision
  <2>1. /\ req.stage = "send" /\ req'.stage = "record" /\ req'.seen = req.seen
        /\ UNCHANGED <<status, outcomes, pass, ckpt.prefill>>
    BY <1>15, RequestsAreRecords DEF SendDecision, Serving
  <2>2. RequestKnowsRow'
    BY <2>1 DEF OutcomeInv, RequestKnowsRow, SubmittingFromGate, ResumeOwnsRow
  <2> QED
    BY <2>1, <2>2, RequestGoesOn
<1>16. CASE RecordSubmission
  <2>1. /\ req.stage = "record" /\ req'.stage \in {"enter_post", None}
        /\ UNCHANGED <<pass, ckpt>>
    BY <1>16, RequestsAreRecords DEF RecordSubmission, Serving, NoReq
  <2>2. /\ outcomes' > 0
        /\ UNCHANGED <<status, outcomes>> \/ (outcomes = 0 /\ status' \in Handed)
    BY <1>16, RecordSubmits DEF RecordSubmission, TypeOK
  <2>3. status \in Gate \cup Handed
    BY <2>1 DEF OutcomeInv, RequestKnowsRow, SubmittingFromGate
  <2>4. CASE status' \in Handed
    BY <2>1, <2>2, <2>3, <2>4, RowHandedOver
  <2>5. CASE UNCHANGED <<status, outcomes>>
    <3>1. RequestKnowsRow'
      BY <2>1, <2>2, Literals DEF RequestKnowsRow, SubmittingFromGate, ResumeOwnsRow,
         RequestStages
    <3> QED
      BY <2>1, <2>5, <3>1, RequestGoesOn
  <2> QED
    BY <2>2, <2>4, <2>5
<1>17. CASE RefuseSubmission
  <2>1. req'.stage = None /\ UNCHANGED <<status, outcomes, pass, ckpt.prefill>>
    BY <1>17 DEF RefuseSubmission, NoReq
  <2>2. RequestKnowsRow'
    BY <2>1, Literals DEF RequestKnowsRow, SubmittingFromGate, ResumeOwnsRow, RequestStages
  <2> QED
    BY <2>1, <2>2, RequestGoesOn
<1>18. CASE EnterPostSubmission
  <2>1. /\ req.stage = "enter_post" /\ req'.stage \in {"post", None}
        /\ UNCHANGED <<status, outcomes, pass, ckpt.prefill>>
    BY <1>18, RequestsAreRecords DEF EnterPostSubmission, Serving, NoReq
  <2>2. RequestKnowsRow'
    BY <2>1, Literals DEF OutcomeInv, RequestKnowsRow, SubmittingFromGate, ResumeOwnsRow,
       RequestStages
  <2> QED
    BY <2>1, <2>2, RequestGoesOn
<1>19. CASE WritePostSubmission
  <2>1. /\ req.stage = "post" /\ req'.stage = None /\ status' = POST_SUBMISSION
        /\ UNCHANGED <<outcomes, pass, ckpt.prefill>>
    BY <1>19 DEF WritePostSubmission, Serving, NoReq
  <2>2. outcomes > 0 /\ status \in Gate \cup Handed
    BY <2>1 DEF OutcomeInv, RequestKnowsRow
  <2> QED
    BY <2>1, <2>2, StateFacts, RowHandedOver
<1>20. CASE RequestResume
  <2>1. /\ req'.stage = "fill" /\ req'.kind = "resume_step" /\ pass.at = "idle"
        /\ status \in {AWAITING_ACCOUNT_HUMAN_STEP, BLOCKED_DETECTION}
        /\ UNCHANGED <<status, outcomes, pass, ckpt.prefill>>
    BY <1>20, Idle DEF RequestResume
  <2>2. RequestKnowsRow'
    BY <2>1 DEF RequestKnowsRow, SubmittingFromGate, ResumeOwnsRow
  <2> QED
    BY <2>1, <2>2, RequestGoesOn
<1>21. CASE LandResume
  <2>1. /\ req.stage = "fill" /\ req'.stage = None /\ UNCHANGED <<outcomes, pass, ckpt>>
    BY <1>21 DEF LandResume, Serving, NoReq
  <2>2. pass.at = "idle" /\ status \in Enterable /\ status' \in Landings
    BY <1>21, <2>1, StateFacts DEF LandResume, OutcomeInv, RequestKnowsRow, ResumeOwnsRow
  <2>3. status \notin Handed \cup Gate \cup {FAILED, AWAITING_FINAL_APPROVAL}
    BY <2>2, StateFacts, ApprovalFacts
  <2>4. FileKnowsRow'
    BY <2>1, <2>2, <2>3, ApprovalFacts, NoneIsNoState, StateFacts DEF OutcomeInv, FileKnowsRow
  <2>5. PassKnowsRow'
    BY <2>1, <2>2 DEF PassKnowsRow, Filling, PastPrefill
  <2>6. RequestKnowsRow'
    BY <2>1, Literals DEF RequestKnowsRow, SubmittingFromGate, ResumeOwnsRow, RequestStages
  <2> QED
    BY <2>1, <2>2, <2>3, <2>4, <2>5, <2>6, StateFacts DEF OutcomeInv
<1>22. CASE Crash
  <2>1. /\ pass'.at = "idle" /\ req'.stage = None /\ UNCHANGED <<status, outcomes, ckpt>>
    BY <1>22, Idle DEF Crash, NoReq
  <2> QED
    BY <2>1, Literals DEF OutcomeInv, PassKnowsRow, FileKnowsRow, RequestKnowsRow,
       SubmittingFromGate, ResumeOwnsRow, RequestStages, Filling, PastPrefill
<1> QED
  BY <1>1, <1>2, <1>3, <1>4, <1>5, <1>6, <1>7, <1>8, <1>9, <1>10, <1>11, <1>12, <1>13,
     <1>14, <1>15, <1>16, <1>17, <1>18, <1>19, <1>20, <1>21, <1>22
  DEF Next, Pass, Serve, User

(* Whatever happens to the row, its status and its outcome go on saying    *)
(* the same, but for the two writes that take a submission back.           *)
LEMMA AgreementLasts ==
  ASSUME OutcomeInv, OutcomeInv', [Next]_vars, TypeOK, Agree
  PROVE  Agree' \/ TakenBack
<1> USE DEF row, ledger, environment, pipeline
<1>1. CASE outcomes' > 0 => status' \in Handed
  BY <1>1 DEF OutcomeInv, Agree
<1>2. CASE outcomes' > 0 /\ status' \notin Handed
  <2>1. CASE Submit
    <3>1. UNCHANGED <<status, outcomes>>
      BY <1>2, <2>1, RecordSubmits DEF Submit, TypeOK
    <3> QED
      BY <3>1 DEF Agree
  <2>2. CASE RecordSubmission
    <3>1. UNCHANGED <<status, outcomes>>
      BY <1>2, <2>2, RecordSubmits DEF RecordSubmission, TypeOK
    <3> QED
      BY <3>1 DEF Agree
  <2>3. CASE ~(Submit \/ RecordSubmission)
    <3>1. UNCHANGED outcomes
      BY <2>3 DEF Next, Pass, Serve, User, vars, Start, StartDeferred, Promoted, Resume,
         Redrive, NothingToRedrive, EnterPrefill, CachedPrefill, LandPrefill, SyncStatus,
         SavePrefill, GenerateMaterial, LinkVariant, SaveMaterial, SkipMaterial, CheckReview,
         RequestApproval, Receive, ReceiveNothing, SaveSubmit, SkipSubmit, Teardown,
         SaveTeardown, ApplyOutcome, IllegalTransition, StepRaises, Abandon, SendDecision,
         RefuseSubmission, EnterPostSubmission, WritePostSubmission, LandResume,
         RequestSubmission, RequestResume, ApproveMaterial, RetryGivenUp, Crash, Restart
    <3>2. status \in Handed /\ status' # status
      BY <1>2, <3>1 DEF Agree
    <3>3. ~LandPrefill /\ ~LandResume /\ ~WritePostSubmission
      BY <1>2, <3>2, StateFacts DEF LandPrefill, At, LandResume, Serving, WritePostSubmission,
         OutcomeInv, PassKnowsRow, RequestKnowsRow, ResumeOwnsRow
    <3>4. SyncStatus \/ LinkVariant
      BY <2>3, <3>2, <3>3 DEF Next, Pass, Serve, User, vars, Start, StartDeferred, Promoted,
         Resume, Redrive, NothingToRedrive, EnterPrefill, CachedPrefill, SavePrefill,
         GenerateMaterial, SaveMaterial, SkipMaterial, CheckReview, RequestApproval, Receive,
         ReceiveNothing, SaveSubmit, SkipSubmit, Teardown, SaveTeardown, ApplyOutcome,
         IllegalTransition, StepRaises, Abandon, SendDecision, RefuseSubmission,
         EnterPostSubmission, RequestSubmission, RequestResume, ApproveMaterial, RetryGivenUp,
         Crash, Restart
    <3> QED
      BY <3>2, <3>4 DEF TakenBack
  <2> QED
    BY <2>1, <2>2, <2>3
<1> QED
  BY <1>1, <1>2

LEMMA Outcomes ==
  ASSUME Overlap = FALSE
  PROVE  Spec => [](TypeInv /\ GateInv /\ OutcomeInv)
<1>1. Init => OutcomeInv
  BY OutcomeInvInit
<1>2. TypeInv /\ GateInv /\ OutcomeInv /\ [Next]_vars => OutcomeInv'
  BY OutcomeInvStep DEF TypeInv
<1> QED
  BY <1>1, <1>2, Typed, PTL DEF Spec

(* However the tick, the boot, the requests of the user and crashes        *)
(* interleave, no row is in or after a submitted status without its        *)
(* "submitted" event, and a row that has the event leaves those states by  *)
(* the two writes that take a submission back and by no other step, as     *)
(* long as no user's resume runs beside a pass.                            *)
THEOREM OutcomesMatch ==
  ASSUME Overlap = FALSE
  PROVE  Spec => OutcomeMatchesStatus
<1>1. OutcomeInv => (status \in Handed => outcomes > 0)
  BY DEF OutcomeInv
<1>2. TypeInv /\ OutcomeInv /\ OutcomeInv' /\ [Next]_vars => [Agree => Agree' \/ TakenBack]_vars
  BY AgreementLasts DEF TypeInv
<1> QED
  BY <1>1, <1>2, Outcomes, PTL DEF Spec, OutcomeMatchesStatus
-----------------------------------------------------------------------------
(* The row moves only where legal moves lead.  What the closure of the     *)
(* transition table contains: one or two moves of a relation are in its    *)
(* doubling.                                                               *)
Relations == [ApplicationState -> SUBSET ApplicationState]

LEMMA DoubledSteps ==
  ASSUME NEW r \in Relations
  PROVE  /\ Doubled(r) \in Relations
         /\ \A s \in ApplicationState : r[s] \subseteq Doubled(r)[s]
         /\ \A s \in ApplicationState : \A t \in r[s] : r[t] \subseteq Doubled(r)[s]
BY DEF Doubled, Relations

LEMMA StatesOfTheWalk ==
  {APPROVED, SANDBOX_PROVISIONING, PREFILLING, MATERIAL_PREP, MATERIAL_REVIEW,
   AWAITING_FINAL_APPROVAL, FAILED} \subseteq ApplicationState
BY DEF ApplicationState, TERMINAL_STATES

(* The legal moves that a pre-fill walks: into pre-filling, and from there *)
(* to where it stops, the final approval being three moves away.           *)
LEMMA WalkedMoves ==
  /\ CanTransition(APPROVED, SANDBOX_PROVISIONING)
  /\ CanTransition(SANDBOX_PROVISIONING, PREFILLING)
  /\ \A s \in Enterable \ {APPROVED} : CanTransition(s, PREFILLING)
  /\ \A l \in Landings \ {AWAITING_FINAL_APPROVAL} : CanTransition(PREFILLING, l)
  /\ CanTransition(PREFILLING, MATERIAL_PREP)
  /\ CanTransition(MATERIAL_PREP, MATERIAL_REVIEW)
  /\ CanTransition(MATERIAL_REVIEW, AWAITING_FINAL_APPROVAL)
<1> USE StatesOfTheWalk DEF CanTransition, AllowedTransitions
<1>1. /\ <<APPROVED, SANDBOX_PROVISIONING>> \in Transitions
      /\ <<SANDBOX_PROVISIONING, PREFILLING>> \in Transitions
      /\ <<PREFILLING, MATERIAL_PREP>> \in Transitions
      /\ <<MATERIAL_PREP, MATERIAL_REVIEW>> \in Transitions
      /\ <<MATERIAL_REVIEW, AWAITING_FINAL_APPROVAL>> \in Transitions
  BY DEF Transitions
<1>2. \A s \in Enterable \ {APPROVED} : <<s, PREFILLING>> \in Transitions
  BY DEF Transitions, Enterable, Blocked
<1>3. ASSUME NEW l \in Landings \ {AWAITING_FINAL_APPROVAL, FAILED}
      PROVE  <<PREFILLING, l>> \in Transitions
  BY DEF Transitions, Landings, PrefillHandoffs, Blocked
<1>4. PREFILLING \notin TERMINAL_STATES
  BY DEF TERMINAL_STATES, PREFILLING, DECLINED, FAILED, ARCHIVED
<1>5. Landings \subseteq ApplicationState
  BY StateFacts
<1> QED
  BY <1>1, <1>2, <1>3, <1>4, <1>5

(* The moves of a submission and from it.                                  *)
LEMMA SubmittedMoves ==
  /\ \A t \in Submitted : CanTransition(t, POST_SUBMISSION)
  /\ \A s \in Gate : CanTransition(s, SUBMITTED_BY_USER)
  /\ \A t \in Submitted : CanTransition(AWAITING_FINAL_APPROVAL, t)
  /\ SUBMITTED_BY_USER \in Submitted
<1>1. Submitted \cup {POST_SUBMISSION} \subseteq ApplicationState
  BY StateFacts
<1>2. /\ Submitted \X {POST_SUBMISSION} \subseteq Transitions
      /\ {AWAITING_FINAL_APPROVAL} \X Submitted \subseteq Transitions
      /\ {EMERGENCY_DATA_HANDOFF} \X {SUBMITTED_BY_USER} \subseteq Transitions
  BY DEF Transitions
<1>3. SUBMITTED_BY_USER \in Submitted
  BY DEF Submitted
<1> QED
  BY <1>1, <1>2, <1>3 DEF CanTransition, AllowedTransitions, Gate

LEMMA ReachableOf ==
  /\ \A s \in ApplicationState : AllowedTransitions(s) \subseteq ReachableFrom[s]
  /\ \A s \in Enterable : Landings \subseteq ReachableFrom[s]
  /\ \A s \in Gate \cup Submitted : POST_SUBMISSION \in ReachableFrom[s]
<1> DEFINE R1 == Doubled(Moves)
           R2 == Doubled(R1)
           R3 == Doubled(R2)
           R4 == Doubled(R3)
           R5 == Doubled(R4)
<1>1. FAILED \in ApplicationState
  BY StatesOfTheWalk
<1>2. /\ Moves \in Relations
      /\ \A s \in ApplicationState : \A t : CanTransition(s, t) <=> t \in Moves[s]
      /\ \A s \in ApplicationState : AllowedTransitions(s) = Moves[s]
  BY <1>1 DEF Moves, AllowedTransitions, Relations, CanTransition
<1>3. R1 \in Relations /\ R2 \in Relations /\ R3 \in Relations /\ R4 \in Relations
  BY <1>2, DoubledSteps
<1>4. /\ \A s \in ApplicationState : Moves[s] \subseteq R1[s]
      /\ \A s \in ApplicationState : \A t \in Moves[s] : Moves[t] \subseteq R1[s]
  BY <1>2, DoubledSteps
<1>5. /\ \A s \in ApplicationState : R1[s] \subseteq R2[s]
      /\ \A s \in ApplicationState : \A t \in R1[s] : R1[t] \subseteq R2[s]
  BY <1>3, DoubledSteps
<1>6. /\ \A s \in ApplicationState : R2[s] \subseteq R3[s]
      /\ \A s \in ApplicationState : \A t \in R2[s] : R2[t] \subseteq R3[s]
  BY <1>3, DoubledSteps
<1>7. \A s \in ApplicationState : R3[s] \subseteq R4[s] /\ R4[s] \subseteq R5[s]
  BY <1>3, DoubledSteps
<1>8. ReachableFrom = R5
  BY DEF ReachableFrom
<1> HIDE DEF R1, R2, R3, R4, R5
<1>9. \A s \in Enterable : s \in ApplicationState /\ PREFILLING \in R2[s]
  BY <1>2, <1>4, <1>5, WalkedMoves, StatesOfTheWalk, StateFacts
<1>10. MATERIAL_REVIEW \in R1[PREFILLING] /\ AWAITING_FINAL_APPROVAL \in R1[MATERIAL_REVIEW]
  BY <1>2, <1>4, WalkedMoves, StatesOfTheWalk
<1>11. ASSUME NEW l \in Landings PROVE l \in R2[PREFILLING]
  <2>1. CASE l = AWAITING_FINAL_APPROVAL
    BY <1>5, <1>10, <2>1, StatesOfTheWalk
  <2>2. CASE l # AWAITING_FINAL_APPROVAL
    BY <1>2, <1>4, <1>5, <1>11, <2>2, WalkedMoves, StatesOfTheWalk
  <2> QED
    BY <2>1, <2>2
<1>12. \A s \in Enterable : Landings \subseteq R3[s]
  BY <1>6, <1>9, <1>11
<1>13. \A s \in Submitted : s \in ApplicationState /\ POST_SUBMISSION \in R1[s]
  BY <1>2, <1>4, SubmittedMoves, StateFacts
<1>14. ASSUME NEW s \in Gate PROVE POST_SUBMISSION \in R1[s]
  <2>1. PICK t \in Submitted : CanTransition(s, t) /\ CanTransition(t, POST_SUBMISSION)
    BY SubmittedMoves
  <2> QED
    BY <1>2, <1>4, <2>1, StateFacts
<1>15. \A s \in Gate \cup Submitted : POST_SUBMISSION \in R5[s]
  BY <1>5, <1>6, <1>7, <1>13, <1>14, StateFacts
<1> QED
  BY <1>2, <1>4, <1>5, <1>6, <1>7, <1>8, <1>9, <1>12, <1>15

(* The abstract specification's table is this module's.                    *)
LEMMA SameTable ==
  /\ L!ReachableFrom = ReachableFrom
  /\ L!APPROVED = APPROVED
<1> USE DEF L!DISCOVERED, L!SCORED, L!DIGESTED, L!DECLINED,
   L!APPROVED, L!SANDBOX_PROVISIONING, L!ACCOUNT_PREFILL, L!AWAITING_ACCOUNT_HUMAN_STEP,
   L!PREFILLING, L!BLOCKED_DETECTION, L!BLOCKED_MISSING_ATTR, L!BLOCKED_QUESTION,
   L!MATERIAL_PREP, L!MATERIAL_REVIEW, L!AWAITING_FINAL_APPROVAL, L!SUBMITTED_BY_USER,
   L!FINISHED_BY_ENGINE, L!EMERGENCY_DATA_HANDOFF, L!FAILED, L!POST_SUBMISSION,
   L!AWAITING_RESPONSE, L!REJECTED, L!GHOSTED, L!FOLLOWING_UP, L!ARCHIVED,
   DISCOVERED, SCORED, DIGESTED, DECLINED,
   APPROVED, SANDBOX_PROVISIONING, ACCOUNT_PREFILL, AWAITING_ACCOUNT_HUMAN_STEP,
   PREFILLING, BLOCKED_DETECTION, BLOCKED_MISSING_ATTR, BLOCKED_QUESTION,
   MATERIAL_PREP, MATERIAL_REVIEW, AWAITING_FINAL_APPROVAL, SUBMITTED_BY_USER,
   FINISHED_BY_ENGINE, EMERGENCY_DATA_HANDOFF, FAILED, POST_SUBMISSION,
   AWAITING_RESPONSE, REJECTED, GHOSTED, FOLLOWING_UP, ARCHIVED
<1>1. L!TERMINAL_STATES = TERMINAL_STATES /\ L!Submitted = Submitted /\ L!Blocked = Blocked
      /\ L!PostStates = PostStates
  BY DEF L!TERMINAL_STATES, TERMINAL_STATES, L!Submitted, Submitted, L!Blocked, Blocked,
     L!PostStates, PostStates
<1>2. L!ApplicationState = ApplicationState
  BY <1>1 DEF L!ApplicationState, ApplicationState
<1>3. L!Transitions = Transitions
  BY <1>1 DEF L!Transitions, Transitions
<1>4. L!Moves = Moves
  BY <1>1, <1>2, <1>3 DEF L!Moves, Moves, L!AllowedTransitions, AllowedTransitions
<1>5. ASSUME NEW r PROVE L!Doubled(r) = Doubled(r)
  BY <1>2 DEF L!Doubled, Doubled
<1> QED
  BY <1>4, <1>5 DEF L!ReachableFrom, ReachableFrom

(* A submission that is recorded moves the row along the table: the copy   *)
(* it was checked against still holds, or somebody else had submitted.     *)
LEMMA RecordLands ==
  ASSUME TypeOK, OutcomeInv, NEW from \in Gate, status \in {from} \cup Handed,
         NEW d, CanRecord(from, TerminalFor(d)), Record(TerminalFor(d))
  PROVE  status' = status \/ status' \in ReachableFrom[status]
<1>1. CASE outcomes > 0
  BY <1>1 DEF Record
<1>2. CASE ~(outcomes > 0)
  <2>1. status = from /\ status' = TerminalFor(d)
    BY <1>2 DEF Record, OutcomeInv
  <2>2. TerminalFor(d) \in AllowedTransitions(from)
    BY <1>2 DEF CanRecord, CanTransition
  <2> QED
    BY <2>1, <2>2, ReachableOf DEF TypeOK
<1> QED
  BY <1>1, <1>2

LEMMA LandingStep ==
  ASSUME TypeOK, OutcomeInv, [Next]_vars
  PROVE  [L!Land \/ TakenBack]_status
<1> SUFFICES TakenBack \/ status' = status \/ status' \in ReachableFrom[status]
  BY SameTable DEF L!Land
<1> USE DEF row, ledger, environment, pipeline
<1>1. CASE LandPrefill
  <2>1. status \in Enterable /\ status' \in Landings
    BY <1>1 DEF LandPrefill, At, OutcomeInv, PassKnowsRow
  <2> QED
    BY <2>1, ReachableOf
<1>2. CASE Submit
  <2>1. status \in Gate /\ CanRecord(status, TerminalFor(pass.decision))
    BY <1>2, StateFacts DEF Submit, CanSubmit
  <2> QED
    BY <1>2, <2>1, RecordLands DEF Submit
<1>3. CASE RecordSubmission
  <2>1. req.seen \in Gate /\ status \in {req.seen} \cup Handed
    BY <1>3 DEF RecordSubmission, Serving, OutcomeInv, RequestKnowsRow, SubmittingFromGate
  <2> QED
    BY <1>3, <2>1, RecordLands DEF RecordSubmission
<1>4. CASE WritePostSubmission
  <2>1. status \in Gate \cup Handed /\ status' = POST_SUBMISSION
    BY <1>4 DEF WritePostSubmission, Serving, OutcomeInv, RequestKnowsRow
  <2> QED
    BY <2>1, ReachableOf DEF Handed
<1>5. CASE LandResume
  <2>1. status \in Enterable /\ status' \in Landings
    BY <1>5, StateFacts DEF LandResume, Serving, OutcomeInv, RequestKnowsRow, ResumeOwnsRow
  <2> QED
    BY <2>1, ReachableOf
<1>6. CASE SyncStatus
  BY <1>6 DEF SyncStatus, At, TakenBack, OutcomeInv, PassKnowsRow
<1>7. CASE LinkVariant
  <2>1. /\ status \in {AWAITING_FINAL_APPROVAL} \cup Handed
        /\ status' \in {status, AWAITING_FINAL_APPROVAL} \cup Handed
    BY <1>7 DEF LinkVariant, At, OutcomeInv, PassKnowsRow, PastPrefill
  <2>2. CASE status \in Handed
    BY <1>7, <2>2 DEF TakenBack
  <2>3. CASE status = AWAITING_FINAL_APPROVAL /\ status' \in Submitted
    BY <2>3, SubmittedMoves, ReachableOf DEF CanTransition, TypeOK
  <2>4. CASE status = AWAITING_FINAL_APPROVAL /\ status' = POST_SUBMISSION
    BY <2>4, StateFacts, ReachableOf
  <2> QED
    BY <2>1, <2>2, <2>3, <2>4 DEF Handed
<1>8. CASE Start \/ StartDeferred \/ Promoted \/ StepRaises \/ User \/ Crash \/ Restart
  BY <1>8 DEF Start, StartDeferred, Promoted, StepRaises, Abandon, User, RequestSubmission,
     RequestResume, ApproveMaterial, RetryGivenUp, Crash, Restart
<1>9. CASE \/ Resume \/ Redrive \/ NothingToRedrive \/ EnterPrefill \/ CachedPrefill
           \/ SavePrefill \/ GenerateMaterial \/ SaveMaterial \/ SkipMaterial \/ CheckReview
  BY <1>9 DEF Resume, Redrive, NothingToRedrive, EnterPrefill, CachedPrefill, SavePrefill,
     GenerateMaterial, SaveMaterial, SkipMaterial, CheckReview
<1>10. CASE \/ RequestApproval \/ Receive \/ ReceiveNothing \/ SaveSubmit \/ SkipSubmit
            \/ Teardown \/ SaveTeardown \/ ApplyOutcome \/ IllegalTransition
  BY <1>10 DEF RequestApproval, Receive, ReceiveNothing, SaveSubmit, SkipSubmit, Teardown,
     SaveTeardown, ApplyOutcome, IllegalTransition, Abandon
<1>11. CASE SendDecision \/ RefuseSubmission \/ EnterPostSubmission \/ UNCHANGED vars
  BY <1>11 DEF SendDecision, RefuseSubmission, EnterPostSubmission, vars
<1> QED
  BY <1>1, <1>2, <1>3, <1>4, <1>5, <1>6, <1>7, <1>8, <1>9, <1>10, <1>11 DEF Next, Pass, Serve

(* The pipeline implements Lifecycle but for two writes: over ticks, boots, *)
(* requests and crashes, what storage shows of an application's status     *)
(* moves only from a state to one that legal moves lead to, or is set back *)
(* over a submission that the pass did not see, as long as no user's       *)
(* resume runs beside a pass.                                              *)
THEOREM ImplementsLifecycle ==
  ASSUME Overlap = FALSE
  PROVE  Spec => FollowsLifecycle
<1>1. Init => L!LInit
  BY SameTable DEF Init, L!LInit
<1>2. TypeInv /\ OutcomeInv /\ [Next]_vars => [L!Land \/ TakenBack]_status
  BY LandingStep DEF TypeInv
<1> QED
  BY <1>1, <1>2, Outcomes, PTL DEF Spec, FollowsLifecycle
-----------------------------------------------------------------------------
(* Why no decision is lost on the way.  What lets a pass take a decision   *)
(* out of the mailbox for good, or remove the mailbox, is knowledge about  *)
(* the row that the pass carries or the checkpoint caches, and that others *)
(* may have overtaken: it is still true that the row no longer awaits the  *)
(* decision.                                                               *)
Parked == ~Awaiting

Closing == {"teardown", "torn", "apply"}

FileIsTrue == "submit" \in ckpt.done => outcomes > 0

VerdictIsTrue ==
  pass.verdict \in {"done", "failed", "handoff"} => Parked /\ pass.at \in Closing

HandIsTrue ==
  pass.decision # None =>
    pass.at \in {"submit", "recorded"} \/ (Parked /\ pass.at \in Closing)

DeliveryInv ==
  /\ FileIsTrue
  /\ VerdictIsTrue
  /\ HandIsTrue
  /\ pass.at = "recorded" => outcomes > 0

(* From the final approval both decisions lead somewhere legal.            *)
LEMMA ApprovedMaySubmit == \A d : CanTransition(AWAITING_FINAL_APPROVAL, TerminalFor(d))
<1>1. Submitted \subseteq ApplicationState
  BY StateFacts
<1>2. {AWAITING_FINAL_APPROVAL} \X Submitted \subseteq Transitions
  BY DEF Transitions
<1>3. \A d : TerminalFor(d) \in Submitted
  BY DEF TerminalFor, Submitted
<1> QED
  BY <1>1, <1>2, <1>3 DEF CanTransition, AllowedTransitions

(* How others move the row under a pass: not at all, from where only a     *)
(* pre-fill moves it on, or over to the employer.                          *)
RowLands == status \in Enterable /\ pass.at = "idle" /\ UNCHANGED outcomes
RowIsHanded == outcomes' > 0

LEMMA OthersMoveRow ==
  ASSUME TypeOK, OutcomeInv, [Next]_vars, UNCHANGED pass
  PROVE  UNCHANGED <<status, outcomes>> \/ RowLands \/ RowIsHanded
<1> USE DEF row, ledger, environment, pipeline
<1>1. CASE LandPrefill \/ SyncStatus \/ LinkVariant
  <2>1. pass.at # pass'.at
    BY <1>1, PassesAreRecords DEF LandPrefill, SyncStatus, LinkVariant, At
  <2> QED
    BY <2>1
<1>2. CASE Submit
  BY <1>2, RecordSubmits DEF Submit, TypeOK, RowIsHanded
<1>3. CASE RecordSubmission
  BY <1>3, RecordSubmits DEF RecordSubmission, TypeOK, RowIsHanded
<1>4. CASE WritePostSubmission
  BY <1>4 DEF WritePostSubmission, Serving, OutcomeInv, RequestKnowsRow, RowIsHanded
<1>5. CASE LandResume
  BY <1>5, StateFacts DEF LandResume, Serving, OutcomeInv, RequestKnowsRow, ResumeOwnsRow,
     RowLands
<1>6. CASE Start \/ StartDeferred \/ Promoted \/ StepRaises \/ User \/ Crash \/ Restart
  BY <1>6 DEF Start, StartDeferred, Promoted, StepRaises, Abandon, User, RequestSubmission,
     RequestResume, ApproveMaterial, RetryGivenUp, Crash, Restart
<1>7. CASE \/ Resume \/ Redrive \/ NothingToRedrive \/ EnterPrefill \/ CachedPrefill
           \/ SavePrefill \/ GenerateMaterial \/ SaveMaterial \/ SkipMaterial \/ CheckReview
  BY <1>7 DEF Resume, Redrive, NothingToRedrive, EnterPrefill, CachedPrefill, SavePrefill,
     GenerateMaterial, SaveMaterial, SkipMaterial, CheckReview
<1>8. CASE \/ RequestApproval \/ Receive \/ ReceiveNothing \/ SaveSubmit \/ SkipSubmit
           \/ Teardown \/ SaveTeardown \/ ApplyOutcome \/ IllegalTransition
  BY <1>8 DEF RequestApproval, Receive, ReceiveNothing, SaveSubmit, SkipSubmit, Teardown,
     SaveTeardown, ApplyOutcome, IllegalTransition, Abandon
<1>9. CASE SendDecision \/ RefuseSubmission \/ EnterPostSubmission \/ UNCHANGED vars
  BY <1>9 DEF SendDecision, RefuseSubmission, EnterPostSubmission, vars
<1> QED
  BY <1>1, <1>2, <1>3, <1>4, <1>5, <1>6, <1>7, <1>8, <1>9 DEF Next, Pass, Serve

(* What the pass and the file know outlives every such move of the row.    *)
LEMMA KnowledgeLasts ==
  ASSUME DeliveryInv, UNCHANGED <<status, outcomes>> \/ RowLands \/ RowIsHanded,
         UNCHANGED <<pass, ckpt.prefill, ckpt.done>>
  PROVE  DeliveryInv'
<1>1. outcomes > 0 => outcomes' > 0
  BY DEF RowLands, RowIsHanded
<1>2. pass.at \in Closing /\ Parked => Parked'
  <2>1. CASE RowIsHanded
    BY <2>1 DEF RowIsHanded, Parked, Awaiting
  <2>2. CASE UNCHANGED <<status, outcomes>>
    BY <2>2 DEF Parked, Awaiting
  <2> QED
    BY <2>1, <2>2 DEF RowLands, Closing
<1> QED
  BY <1>1, <1>2 DEF DeliveryInv, FileIsTrue, VerdictIsTrue, HandIsTrue

(* A step of the pass that records nothing, concludes nothing and caches   *)
(* no submission.                                                          *)
LEMMA NothingConcluded ==
  ASSUME DeliveryInv, UNCHANGED outcomes,
         "submit" \in ckpt'.done => "submit" \in ckpt.done,
         pass'.at # "recorded",
         pass'.verdict \notin {"done", "failed", "handoff"},
         pass'.decision = None \/ pass'.at = "submit"
  PROVE  DeliveryInv'
BY DEF DeliveryInv, FileIsTrue, VerdictIsTrue, HandIsTrue

(* Before the submit step a pass has concluded nothing and holds nothing.  *)
LEMMA EmptyHanded ==
  ASSUME DeliveryInv, TypeOK, pass.at \notin {"submit", "recorded"} \cup Closing
  PROVE  pass.decision = None /\ pass.verdict \notin {"done", "failed", "handoff"}
BY DEF DeliveryInv, VerdictIsTrue, HandIsTrue

(* What follows from pre-fill's result, if the result is still true.       *)
LEMMA AfterIsTrue ==
  ASSUME NEW p \in PassState, NEW landed,
         landed \in PrefillHandoffs \cup TERMINAL_STATES => Parked,
         p.decision = None, p.verdict \notin {"done", "failed", "handoff"}
  PROVE  /\ After(p, landed).decision = None
         /\ After(p, landed).at # "recorded"
         /\ After(p, landed).verdict \in {"done", "failed", "handoff"} =>
              Parked /\ After(p, landed).at \in Closing
BY DEF After, PassState, Closing

LEMMA DeliveryInvInit == Init => DeliveryInv
BY NoneIsNothing DEF Init, NoPass, NoFile, DeliveryInv, FileIsTrue, VerdictIsTrue, HandIsTrue, Verdicts

LEMMA DeliveryInvStep ==
  ASSUME TypeOK, OutcomeInv, DeliveryInv, [Next]_vars
  PROVE  DeliveryInv'
<1> USE PassesAreRecords DEF row, ledger, environment, pipeline
<1>1. CASE \/ StartDeferred \/ Promoted \/ NothingToRedrive \/ Serve \/ User \/ Restart
           \/ UNCHANGED vars
  <2>1. UNCHANGED <<pass, ckpt.prefill, ckpt.done>>
    BY <1>1 DEF StartDeferred, Promoted, NothingToRedrive, Serve, SendDecision,
       RecordSubmission, RefuseSubmission, EnterPostSubmission, WritePostSubmission,
       LandResume, User, RequestSubmission, RequestResume, ApproveMaterial, RetryGivenUp,
       Restart, vars
  <2> QED
    BY <2>1, OthersMoveRow, KnowledgeLasts
<1>2. CASE Start \/ Resume \/ Redrive
  <2>1. pass' = [NoPass EXCEPT !.at = "prefill", !.kind = pass'.kind]
    BY <1>2 DEF Start, Resume, Redrive, Open, NoPass
  <2>2. UNCHANGED <<outcomes, ckpt.done>>
    BY <1>2 DEF Start, Resume, Redrive, Open
  <2> QED
    BY <2>1, <2>2, NothingConcluded, NoneIsNothing DEF NoPass, Verdicts
<1>3. CASE \/ EnterPrefill \/ (CachedPrefill /\ pass'.at = "filling")
           \/ LandPrefill \/ SyncStatus
  <2>1. pass.at \in {"prefill"} \cup Filling /\ UNCHANGED <<outcomes, ckpt>>
    BY <1>3 DEF EnterPrefill, CachedPrefill, LandPrefill, SyncStatus, At, Filling
  <2>2. pass'.at \in Filling /\ UNCHANGED <<pass.decision, pass.verdict>>
    BY <1>3 DEF EnterPrefill, CachedPrefill, LandPrefill, SyncStatus, At, After, Filling
  <2> QED
    BY <2>1, <2>2, EmptyHanded, NothingConcluded DEF Closing, Filling
<1>4. CASE CachedPrefill /\ pass'.at # "filling"
  <2> DEFINE landed == IF ckpt.prefill \in PrefillHandoffs THEN status ELSE ckpt.prefill
  <2>1. /\ pass.at = "prefill" /\ UNCHANGED <<status, outcomes, ckpt>>
        /\ pass' = After(pass, landed)
    BY <1>4 DEF CachedPrefill, At
  <2>2. landed \in PrefillHandoffs \cup TERMINAL_STATES => Parked
    BY <1>4, ApprovalFacts DEF CachedPrefill, OutcomeInv, FileKnowsRow, Parked, Awaiting
  <2> HIDE DEF landed
  <2>3. pass \in PassState /\ pass.decision = None /\ pass.verdict \notin {"done", "failed", "handoff"}
    BY <2>1, EmptyHanded DEF TypeOK, Closing
  <2>4. /\ pass'.decision = None /\ pass'.at # "recorded"
        /\ pass'.verdict \in {"done", "failed", "handoff"} => Parked /\ pass'.at \in Closing
    BY <2>1, <2>2, <2>3, AfterIsTrue
  <2> QED
    BY <2>1, <2>4 DEF DeliveryInv, FileIsTrue, VerdictIsTrue, HandIsTrue, Parked, Awaiting
<1>5. CASE SavePrefill
  <2> DEFINE p == [pass EXCEPT !.live = FALSE, !.seen = None]
  <2>1. p \in PassState /\ p.decision = pass.decision /\ p.verdict = pass.verdict
    BY DEF TypeOK, PassState
  <2>2. /\ pass.at = "synced" /\ UNCHANGED <<status, outcomes, ckpt.done>>
        /\ pass' = After(p, pass.seen)
    BY <1>5 DEF SavePrefill, At
  <2> HIDE DEF p
  <2>3. /\ pass.seen \in Landings
        /\ status = pass.seen \/ (pass.seen \in Gate /\ status \in Handed)
    BY <2>2 DEF OutcomeInv, PassKnowsRow
  <2>4. pass.seen \in PrefillHandoffs \cup TERMINAL_STATES => Parked
    BY <2>3, ApprovalFacts DEF Parked, Awaiting
  <2>5. pass.decision = None /\ pass.verdict \notin {"done", "failed", "handoff"}
    BY <2>2, EmptyHanded DEF Closing
  <2>6. /\ pass'.decision = None /\ pass'.at # "recorded"
        /\ pass'.verdict \in {"done", "failed", "handoff"} => Parked /\ pass'.at \in Closing
    BY <2>1, <2>2, <2>4, <2>5, AfterIsTrue
  <2> QED
    BY <2>2, <2>6 DEF DeliveryInv, FileIsTrue, VerdictIsTrue, HandIsTrue, Parked, Awaiting
<1>6. CASE \/ GenerateMaterial \/ LinkVariant \/ SaveMaterial \/ SkipMaterial \/ CheckReview
           \/ RequestApproval \/ ReceiveNothing \/ Receive
  <2>1. pass.at \in {"material", "linking", "generated", "review", "request", "recv"}
    BY <1>6 DEF GenerateMaterial, LinkVariant, SaveMaterial, SkipMaterial, CheckReview,
       RequestApproval, ReceiveNothing, Receive, At
  <2>2. pass.decision = None /\ pass.verdict \notin {"done", "failed", "handoff"}
    BY <2>1, EmptyHanded DEF Closing
  <2>3. /\ UNCHANGED outcomes
        /\ "submit" \in ckpt'.done => "submit" \in ckpt.done
    BY <1>6 DEF GenerateMaterial, LinkVariant, SaveMaterial, SkipMaterial, CheckReview,
       RequestApproval, ReceiveNothing, Receive, SaveStep
  <2>4. /\ pass'.at # "recorded"
        /\ pass'.verdict \in {pass.verdict, "review", "awaiting"}
        /\ pass'.decision = pass.decision \/ pass'.at = "submit"
    BY <1>6 DEF GenerateMaterial, LinkVariant, SaveMaterial, SkipMaterial, CheckReview,
       RequestApproval, ReceiveNothing, Receive, Goto
  <2> QED
    BY <2>2, <2>3, <2>4, NothingConcluded
<1>7. CASE Submit
  <2>1. pass.at = "submit" /\ pass'.at = "recorded" /\ UNCHANGED <<ckpt, pass.verdict>>
    BY <1>7 DEF Submit, At, Goto
  <2>2. outcomes' > 0
    BY <1>7, RecordSubmits DEF Submit, TypeOK
  <2>3. pass.verdict \notin {"done", "failed", "handoff"}
    BY <2>1 DEF DeliveryInv, VerdictIsTrue, Closing
  <2> QED
    BY <2>1, <2>2, <2>3 DEF DeliveryInv, FileIsTrue, VerdictIsTrue, HandIsTrue
<1>8. CASE SaveSubmit \/ SkipSubmit
  <2>1. /\ pass'.at = "teardown" /\ UNCHANGED outcomes
        /\ "submit" \in ckpt'.done
    <3>1. CASE SaveSubmit
      BY <3>1 DEF SaveSubmit, SaveStep
    <3>2. CASE SkipSubmit
      BY <3>2 DEF SkipSubmit, Checkpointed
    <3> QED
      BY <1>8, <3>1, <3>2
  <2>2. outcomes > 0
    BY <1>8 DEF SaveSubmit, SkipSubmit, Checkpointed, At, DeliveryInv, FileIsTrue
  <2> QED
    BY <2>1, <2>2 DEF DeliveryInv, FileIsTrue, VerdictIsTrue, HandIsTrue, Parked, Awaiting,
       Closing
<1>9. CASE Teardown \/ SaveTeardown
  <2>1. /\ pass.at \in {"teardown", "torn"} /\ pass'.at \in {"torn", "apply"}
        /\ UNCHANGED <<status, outcomes, pass.verdict, pass.decision>>
        /\ "submit" \in ckpt'.done <=> "submit" \in ckpt.done
    BY <1>9 DEF Teardown, SaveTeardown, At, Goto, SaveStep
  <2> QED
    BY <2>1 DEF DeliveryInv, FileIsTrue, VerdictIsTrue, HandIsTrue, Parked, Awaiting, Closing
<1>10. CASE ApplyOutcome \/ IllegalTransition \/ StepRaises \/ Crash
  <2>1. pass' = NoPass /\ UNCHANGED outcomes
    BY <1>10 DEF ApplyOutcome, IllegalTransition, StepRaises, Crash, Abandon
  <2>2. ckpt' \in {ckpt, NoFile}
    BY <1>10 DEF ApplyOutcome, IllegalTransition, StepRaises, Crash, Abandon
  <2>3. "submit" \in ckpt'.done => "submit" \in ckpt.done
    BY <2>2 DEF NoFile
  <2> QED
    BY <2>1, <2>3, NothingConcluded, NoneIsNothing DEF NoPass, Verdicts
<1> QED
  BY <1>1, <1>2, <1>3, <1>4, <1>5, <1>6, <1>7, <1>8, <1>9, <1>10 DEF Next, Pass

(* What is undelivered is counted in natural numbers, and what a pass      *)
(* takes from the mailbox it holds.                                        *)
LEMMA UndeliveredCounts ==
  ASSUME TypeOK
  PROVE  /\ ckpt.box \in Seq(Decisions) /\ Len(ckpt.box) \in Nat
         /\ Undelivered \in Nat /\ Undelivered >= Len(ckpt.box)
         /\ pass.decision = None => Undelivered = Len(ckpt.box)
<1>1. ckpt.box \in Seq(Decisions)
  BY DEF TypeOK, Checkpoint
<1>2. Len(ckpt.box) \in Nat
  BY <1>1
<1>3. CASE pass.decision = None
  BY <1>1, <1>2, <1>3 DEF Undelivered
<1>4. CASE pass.decision # None
  <2>1. Undelivered = Len(ckpt.box) + 1
    BY <1>4 DEF Undelivered
  <2> QED
    BY <1>1, <1>2, <1>4, <2>1
<1> QED
  BY <1>3, <1>4

LEMMA DeliveryStep ==
  ASSUME TypeOK, GateInv, OutcomeInv, DeliveryInv, [Next]_vars, ~Crash, ~StepRaises,
         Awaiting, Awaiting'
  PROVE  Undelivered' >= Undelivered
<1> USE PassesAreRecords, UndeliveredCounts DEF row, ledger, environment, pipeline
<1>1. CASE \/ StartDeferred \/ Promoted \/ NothingToRedrive \/ User \/ Restart
           \/ RecordSubmission \/ RefuseSubmission \/ EnterPostSubmission
           \/ WritePostSubmission \/ LandResume \/ UNCHANGED vars
  <2>1. UNCHANGED <<pass, ckpt>>
    BY <1>1 DEF StartDeferred, Promoted, NothingToRedrive, RecordSubmission, RefuseSubmission,
       EnterPostSubmission, WritePostSubmission, LandResume, User, RequestSubmission,
       RequestResume, ApproveMaterial, RetryGivenUp, Restart, vars
  <2> QED
    BY <2>1 DEF Undelivered
<1>2. CASE SendDecision
  <2>1. ckpt'.box = Append(ckpt.box, DecisionOf(req.kind)) /\ UNCHANGED pass
    BY <1>2 DEF SendDecision
  <2>2. DecisionOf(req.kind) \in Decisions
    BY DEF DecisionOf, Decisions
  <2>3. Len(ckpt'.box) = Len(ckpt.box) + 1
    BY <2>1, <2>2
  <2> QED
    BY <2>1, <2>3 DEF Undelivered
<1>3. CASE Start \/ Resume \/ Redrive
  <2>1. pass.decision = None /\ UNCHANGED ckpt.box
    BY <1>3, EmptyHanded DEF Start, Resume, Redrive, At, Open, Closing
  <2>2. pass'.decision = None
    BY <1>3 DEF Start, Resume, Redrive, Open, NoPass
  <2> QED
    BY <2>1, <2>2 DEF Undelivered
<1>4. CASE \/ EnterPrefill \/ CachedPrefill \/ SyncStatus \/ SavePrefill
  <2>1. UNCHANGED <<ckpt.box, pass.decision>>
    BY <1>4 DEF EnterPrefill, CachedPrefill, SyncStatus, SavePrefill, After
  <2> QED
    BY <2>1 DEF Undelivered
<1>5. CASE \/ GenerateMaterial \/ LinkVariant \/ SaveMaterial \/ SkipMaterial
           \/ CheckReview \/ RequestApproval \/ ReceiveNothing \/ SkipSubmit \/ SaveSubmit
           \/ Teardown \/ SaveTeardown
  <2>1. UNCHANGED <<ckpt.box, pass.decision>>
    BY <1>5 DEF GenerateMaterial, LinkVariant, SaveMaterial, SkipMaterial, CheckReview,
       RequestApproval, ReceiveNothing, SkipSubmit, SaveSubmit, Teardown, SaveTeardown, Goto, SaveStep
  <2> QED
    BY <2>1 DEF Undelivered
<1>6. CASE LandPrefill
  <2>1. status \in Enterable
    BY <1>6 DEF LandPrefill, At, OutcomeInv, PassKnowsRow
  <2> QED
    BY <2>1, ApprovalFacts DEF Awaiting
<1>7. CASE Receive
  <2>1. pass.decision = None
    BY <1>7, EmptyHanded DEF Receive, At, Closing
  <2>2. /\ ckpt.box # <<>> /\ pass'.decision = Head(ckpt.box)
        /\ ckpt'.box = Tail(ckpt.box)
    BY <1>7 DEF Receive
  <2>3. pass'.decision # None /\ Len(ckpt'.box) = Len(ckpt.box) - 1
    BY <2>2, MailboxMoves, NoneIsNothing
  <2> QED
    BY <2>1, <2>3 DEF Undelivered
<1>8. CASE Submit
  <2>1. outcomes' > 0
    BY <1>8, RecordSubmits DEF Submit, TypeOK
  <2> QED
    BY <2>1 DEF Awaiting
<1>9. CASE ApplyOutcome
  <2>1. pass.verdict \notin {"done", "failed", "handoff"} /\ pass.decision = None
    BY <1>9 DEF ApplyOutcome, At, DeliveryInv, VerdictIsTrue, HandIsTrue, Parked
  <2>2. UNCHANGED ckpt /\ pass'.decision = None
    BY <1>9, <2>1 DEF ApplyOutcome, NoPass
  <2> QED
    BY <2>1, <2>2 DEF Undelivered
<1>10. CASE IllegalTransition
  <2>1. pass.at # "submit"
    <3>1. SUFFICES ASSUME pass.at = "submit" PROVE FALSE
      OBVIOUS
    <3>2. material # "pending"
      BY <3>1 DEF GateInv, PastReview
    <3>3. CanSubmit
      BY <3>2, ApprovedMaySubmit DEF CanSubmit, CanRecord, Awaiting
    <3> QED
      BY <1>10, <3>1, <3>3 DEF IllegalTransition, At
  <2>2. pass.at = "prefill"
    BY <1>10, <2>1 DEF IllegalTransition, At
  <2>3. pass.decision = None
    BY <2>2, EmptyHanded DEF Closing
  <2>4. UNCHANGED ckpt /\ pass'.decision = None
    BY <1>10 DEF IllegalTransition, Abandon, NoPass
  <2> QED
    BY <2>3, <2>4 DEF Undelivered
<1> QED
  BY <1>1, <1>2, <1>3, <1>4, <1>5, <1>6, <1>7, <1>8, <1>9, <1>10 DEF Next, Pass, Serve

(* A crash and an exception lose what the pass holds and nothing more.     *)
LEMMA RaisingStep ==
  ASSUME TypeOK, TypeOK', Crash \/ StepRaises
  PROVE  Undelivered' >= Len(ckpt.box)
<1>1. UNCHANGED ckpt
  BY DEF Crash, StepRaises, Abandon
<1>2. pass' = NoPass
  BY DEF Crash, StepRaises, Abandon
<1>3. pass'.decision = None
  BY <1>2 DEF NoPass
<1>4. Len(ckpt.box) \in Nat
  BY UndeliveredCounts
<1> QED
  BY <1>1, <1>3, <1>4 DEF Undelivered

(* While an application awaits its user's decision, no decision is lost    *)
(* but one a pass holds when it crashes or an exception hits it: neither a *)
(* finished pass nor a stale checkpoint nor another request's submission   *)
(* removes the mailbox, as long as no user's resume runs beside a pass.    *)
THEOREM MailboxKept ==
  ASSUME Overlap = FALSE
  PROVE  Spec => MailboxLosesNothing
<1> DEFINE Lossless ==
      Awaiting /\ Awaiting' =>
        Undelivered' >= IF Crash \/ StepRaises THEN Len(ckpt.box) ELSE Undelivered
<1>1. TypeInv /\ OutcomeInv /\ DeliveryInv /\ [Next]_vars => DeliveryInv'
  BY DeliveryInvStep DEF TypeInv
<1>2. TypeInv /\ GateInv /\ OutcomeInv /\ DeliveryInv /\ [Next]_vars => [Lossless]_vars
  BY DeliveryStep, RaisingStep, TypeInvStep DEF TypeInv
<1> QED
  BY <1>1, <1>2, Outcomes, DeliveryInvInit, PTL DEF Spec, MailboxLosesNothing
=============================================================================
