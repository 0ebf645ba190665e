------------------------------ MODULE Pipeline ------------------------------
(***************************************************************************)
(* One approved application and everything that moves it: the durable      *)
(* pipeline workflow that the scheduler's tick starts and resumes and that *)
(* the boot re-drives, the request handlers through which the user acts,   *)
(* and a process that may die at any step.                                 *)
(*                                                                         *)
(* Durable: the application row (status, material, outcomes), the          *)
(* checkpoint file (finished steps and mailbox), the sandbox slot and the  *)
(* resume ledger.  Lost with the process: the pass that runs, the request, *)
(* the sandbox session and the start-failure ledger.                       *)
(*                                                                         *)
(* A step of the workflow is two actions, what its body does to storage    *)
(* and the write of its checkpoint, so that a crash falls in between.      *)
(* run_step holds the workflow's lock over both, and send waits for it.    *)
(* The requests that record without a send do not: where a body reads the  *)
(* row and writes it back later, the read and the write are two actions.   *)
(***************************************************************************)
EXTENDS LifecycleTable, Sequences

CONSTANTS Requests,    \* the kinds of request the user may make
          Overlap,     \* may a user's resume run beside a pass?
          FailureCap,  \* _RESUME_FAILURE_CAP, _APPROVAL_START_FAILURE_CAP
          MaxCrashes,  \* bound on the crashes of a behaviour
          MaxFaults,   \* bound on the exceptions of the environment
          MaxBox,      \* bound on the decisions in the mailbox
          None

RequestKinds == {"submit_self", "authorize_engine_finish", "mark_submitted",
                 "detect_submission", "resume_step"}
RequestStages == {"send", "record", "enter_post", "post", "fill"}
PassKinds == {"start", "resume", "redrive"}
Decisions == {"submitted_by_user", "finished_by_engine"}
Verdicts  == {"done", "failed", "handoff", "review", "awaiting"}

ASSUME PipelineAssumption ==
  /\ Requests \subseteq RequestKinds
  /\ Overlap \in BOOLEAN
  /\ FailureCap \in Nat \ {0}
  /\ MaxCrashes \in Nat /\ MaxFaults \in Nat /\ MaxBox \in Nat \ {0}
  /\ None \notin ApplicationState \cup RequestKinds \cup RequestStages
                   \cup PassKinds \cup Decisions \cup Verdicts

VARIABLES status,    \* Application.status
          material,  \* the material: "none" yet, review "pending", "approved"
          outcomes,  \* number of "submitted" OutcomeEvents
          ckpt,      \* the workflow's checkpoint file
          slot,      \* the application in the sandbox queue
          session,   \* does a live sandbox session exist?
          pass,      \* the run of the pipeline that is under way
          req,       \* the request that is under way
          fails,     \* consecutive failed starts and resumes
          up, boot,  \* is the process running; does boot still have to re-drive?
          decided,   \* history: was a decision put in the mailbox, and not refused?
          crashes, faults

vars == <<status, material, outcomes, ckpt, slot, session, pass, req, fails,
          up, boot, decided, crashes, faults>>

-----------------------------------------------------------------------------
PrefillHandoffs == Blocked \cup {AWAITING_ACCOUNT_HUMAN_STEP, EMERGENCY_DATA_HANDOFF}
Gate      == {AWAITING_FINAL_APPROVAL, EMERGENCY_DATA_HANDOFF}
\* Slip: the final approval does not yield.
YieldingNoFinal == Blocked \cup {EMERGENCY_DATA_HANDOFF,
                                 AWAITING_ACCOUNT_HUMAN_STEP, MATERIAL_REVIEW}
Yielding  == Blocked \cup Gate \cup {AWAITING_ACCOUNT_HUMAN_STEP, MATERIAL_REVIEW}
\* Slip: an application at the final approval is not resumed.
ResumableNoFinal == Blocked \cup {AWAITING_ACCOUNT_HUMAN_STEP, MATERIAL_REVIEW}
Resumable == Blocked \cup {AWAITING_ACCOUNT_HUMAN_STEP, MATERIAL_REVIEW,
                           AWAITING_FINAL_APPROVAL}

(* What the employer has: recorded as submitted, or tracked after that.    *)
Handed == Submitted \cup {POST_SUBMISSION}

(* Where pre-fill can stop (BLOCKED_QUESTION is never produced).           *)
Landings == (PrefillHandoffs \ {BLOCKED_QUESTION})
              \cup {AWAITING_FINAL_APPROVAL, FAILED}

(* What _run_prefill_step can enter pre-fill from: a fresh application, or *)
(* one parked where a resume_after_* picks up.  From any other status      *)
(* prefill_application's first with_status raises.                         *)
Enterable == {APPROVED, AWAITING_ACCOUNT_HUMAN_STEP, BLOCKED_DETECTION,
              BLOCKED_MISSING_ATTR}

DoneSteps == {"material", "request_approval", "submit", "teardown"}

NoFile  == [file |-> FALSE, prefill |-> None, done |-> {}, box |-> <<>>]
NoPass  == [at |-> "idle", kind |-> None, seen |-> None, live |-> FALSE,
            decision |-> None, verdict |-> None]
NoReq   == [kind |-> None, stage |-> None, seen |-> None]

Stages == {"idle", "prefill", "filling", "landed", "synced", "material", "linking",
           "generated", "review", "request", "recv", "submit", "recorded", "teardown",
           "torn", "apply"}

Checkpoint == [file : BOOLEAN, prefill : ApplicationState \cup {None},
               done : SUBSET DoneSteps, box : Seq(Decisions)]
PassState  == [at : Stages, kind : PassKinds \cup {None},
               seen : ApplicationState \cup {None}, live : BOOLEAN,
               decision : Decisions \cup {None}, verdict : Verdicts \cup {None}]
RequestState == [kind : RequestKinds \cup {None}, stage : RequestStages \cup {None},
                 seen : ApplicationState \cup {None}]
FailureCounts == [start : 0..FailureCap, resume : 0..FailureCap]

TypeOK ==
  /\ status   \in ApplicationState
  /\ material \in {"none", "pending", "approved"}
  /\ outcomes \in Nat
  /\ ckpt  \in Checkpoint
  /\ slot  \in {"free", "waiting", "held"}
  /\ session \in BOOLEAN
  /\ pass  \in PassState
  /\ req   \in RequestState
  /\ fails \in FailureCounts
  /\ up \in BOOLEAN /\ boot \in BOOLEAN /\ decided \in BOOLEAN
  /\ crashes \in 0..MaxCrashes /\ faults \in 0..MaxFaults

Init ==
  /\ status = APPROVED /\ material = "none" /\ outcomes = 0
  /\ ckpt = NoFile /\ slot = "free" /\ session = FALSE
  /\ pass = NoPass /\ req = NoReq
  /\ fails = [start |-> 0, resume |-> 0]
  /\ up = TRUE /\ boot = FALSE /\ decided = FALSE
  /\ crashes = 0 /\ faults = 0

-----------------------------------------------------------------------------
(* Helpers of the pass.                                                    *)
At(stage) == up /\ pass.at = stage

Released == IF slot = "held" THEN "free" ELSE slot

environment == <<up, boot, decided, crashes, faults>>
ledger      == <<fails, environment>>
row         == <<status, material, outcomes>>

(* Startup, with its re-drives, is over: the tick runs, requests are served. *)
Ready == up /\ ~boot /\ pass.kind # "redrive"

(* The workflow's lock: held by run_step while a step's body runs and      *)
(* until its checkpoint is written.                                        *)
LockHeld == \/ pass.at \in {"filling", "landed", "synced"} /\ ~pass.live
            \/ pass.at \in {"linking", "generated", "recorded", "torn"}

(* start_workflow: the checkpoint file exists from here on. Nothing keeps  *)
(* the tick off an application whose user runs a resume: that interleaving *)
(* is Overlap, without it the tick finds no resume under way.              *)
Open(kind) ==
  /\ Overlap \/ req.kind # "resume_step"
  /\ ckpt' = [ckpt EXCEPT !.file = TRUE]
  /\ pass' = [NoPass EXCEPT !.at = "prefill", !.kind = kind]

(* _start_pipeline: the tick found the application APPROVED and the slot   *)
(* queue admits it, or it holds a slot by promotion. (DurableQueues shows  *)
(* that a waiter is never admitted while it waits: every slot is taken.)   *)
Start ==
  /\ At("idle") /\ ~boot
  /\ status = APPROVED
  /\ fails.start < FailureCap
  /\ slot # "waiting" /\ slot' = "held"
  /\ Open("start")
  /\ UNCHANGED <<row, session, req, ledger>>

(* Admission deferred: every slot is taken, the application waits.         *)
StartDeferred ==
  /\ At("idle") /\ ~boot
  /\ status = APPROVED
  /\ fails.start < FailureCap
  /\ slot = "free" /\ slot' = "waiting"
  /\ UNCHANGED <<row, ckpt, session, pass, req, ledger>>

(* Another application released its slot and this one was next.            *)
Promoted ==
  /\ up /\ slot = "waiting" /\ slot' = "held"
  /\ UNCHANGED <<row, ckpt, session, pass, req, ledger>>

\* Slip: the ledger's cap is not consulted.
ResumeNoCap ==
  /\ At("idle") /\ ~boot
  /\ status \in Resumable
  /\ Open("resume")
  /\ UNCHANGED <<row, slot, session, req, ledger>>

(* _resume_in_flight: no admission. The backoff only says when.            *)
Resume ==
  /\ At("idle") /\ ~boot
  /\ status \in Resumable
  /\ fails.resume < FailureCap
  /\ Open("resume")
  /\ UNCHANGED <<row, slot, session, req, ledger>>

(* _redrive_pending: before the first tick and the first request, every    *)
(* checkpoint that has not reached its terminal step is driven again.      *)
Redrive ==
  /\ At("idle") /\ boot
  /\ ckpt.file /\ "teardown" \notin ckpt.done
  /\ Open("redrive")
  /\ boot' = FALSE
  /\ UNCHANGED <<row, slot, session, req, fails, up, decided, crashes, faults>>

NothingToRedrive ==
  /\ At("idle") /\ boot
  /\ ~ckpt.file \/ "teardown" \in ckpt.done
  /\ boot' = FALSE
  /\ UNCHANGED <<row, ckpt, slot, session, pass, req, fails, up, decided, crashes, faults>>

\* Slip: a failed pre-fill is handled as a hand-off.
AfterNoFailure(p, landed) ==
  IF landed \in PrefillHandoffs \cup TERMINAL_STATES
  THEN [p EXCEPT !.at = "apply", !.verdict = "handoff"]
  ELSE [p EXCEPT !.at = "material"]

(* Where the pass goes once pre-fill's result is known.                    *)
After(p, landed) ==
  CASE landed \in PrefillHandoffs -> [p EXCEPT !.at = "apply", !.verdict = "handoff"]
    [] landed \in TERMINAL_STATES -> [p EXCEPT !.at = "teardown", !.verdict = "failed"]
    [] OTHER                      -> [p EXCEPT !.at = "material"]

(* Step prefill, not checkpointed: its body reads the row.                 *)
EnterPrefill ==
  /\ At("prefill")
  /\ ckpt.prefill = None
  /\ status \in Enterable
  /\ pass' = [pass EXCEPT !.at = "filling", !.seen = status]
  /\ UNCHANGED <<row, ckpt, slot, session, req, ledger>>

(* Step prefill served from the checkpoint. A cached hand-off is stale:    *)
(* if the row still shows a hand-off, pre-fill runs again outside run_step *)
(* (no lock, no new checkpoint); if not, the row is trusted.               *)
CachedPrefill ==
  /\ At("prefill")
  /\ ckpt.prefill # None
  /\ IF ckpt.prefill \in PrefillHandoffs /\ status \in PrefillHandoffs
     THEN /\ status \in Enterable
          /\ pass' = [pass EXCEPT !.at = "filling", !.seen = status, !.live = TRUE]
     ELSE pass' = After(pass, IF ckpt.prefill \in PrefillHandoffs THEN status
                                                                  ELSE ckpt.prefill)
  /\ UNCHANGED <<row, ckpt, slot, session, req, ledger>>

(* Pre-fill lands: the user has been notified, and now it writes the whole *)
(* row from the copy it read (_persist). A fresh pre-fill provisioned a    *)
(* session first, unless that is what failed.                              *)
LandPrefill ==
  /\ At("filling")
  /\ \E l \in Landings :
       /\ status' = l
       /\ session' \in IF pass.seen # APPROVED THEN {session}
                       ELSE IF l = FAILED THEN {session, TRUE} ELSE {TRUE}
       /\ pass' = [pass EXCEPT !.at = "landed", !.seen = l]
  /\ UNCHANGED <<material, outcomes, ckpt, slot, req, ledger>>

(* _sync_status, when pre-fill has returned: unless the row still shows    *)
(* where pre-fill landed, it is forced back there (_force_status), even    *)
(* over a submission that was recorded since.                              *)
SyncStatus ==
  /\ At("landed")
  /\ status' = pass.seen
  /\ pass' = [pass EXCEPT !.at = "synced"]
  /\ UNCHANGED <<material, outcomes, ckpt, slot, session, req, ledger>>

SavePrefill ==
  /\ At("synced")
  /\ pass' = After([pass EXCEPT !.live = FALSE, !.seen = None], pass.seen)
  /\ ckpt' = IF pass.live THEN ckpt ELSE [ckpt EXCEPT !.prefill = pass.seen]
  /\ UNCHANGED <<row, slot, session, req, ledger>>

Checkpointed(step) == step \in ckpt.done
SaveStep(step) == ckpt' = [ckpt EXCEPT !.done = @ \cup {step}]
Goto(stage) == pass' = [pass EXCEPT !.at = stage]

(* Step material: a resume variant is chosen or generated, and the row is  *)
(* read to link it (_link_variant).                                        *)
GenerateMaterial ==
  /\ At("material")
  /\ ~Checkpointed("material")
  /\ pass' = [pass EXCEPT !.at = "linking", !.seen = status]
  /\ UNCHANGED <<row, ckpt, slot, session, req, ledger>>

(* The whole row is written back, status included, unless it has that      *)
(* variant already. Variant and documents are unapproved unless nothing    *)
(* was warranted or an approved variant was reused: then nothing is left   *)
(* to review, which "approved" stands for.                                 *)
LinkVariant ==
  /\ At("linking")
  /\ status' \in {status, pass.seen}
  /\ material' \in {"pending", IF material = "none" THEN "approved" ELSE material}
  /\ pass' = [pass EXCEPT !.at = "generated", !.seen = None]
  /\ UNCHANGED <<outcomes, ckpt, slot, session, req, ledger>>

SaveMaterial ==
  /\ At("generated")
  /\ SaveStep("material")
  /\ Goto("review")
  /\ UNCHANGED <<row, slot, session, req, ledger>>

\* Slip: the review flag cached with the step is believed for ever.
SkipMaterialCachedReview ==
  /\ At("material")
  /\ Checkpointed("material")
  /\ pass' = [pass EXCEPT !.at = "apply", !.verdict = "review"]
  /\ UNCHANGED <<row, ckpt, slot, session, req, ledger>>

SkipMaterial ==
  /\ At("material")
  /\ Checkpointed("material")
  /\ Goto("review")
  /\ UNCHANGED <<row, ckpt, slot, session, req, ledger>>

\* Slip: a finished material step counts as a finished review.
CheckReviewByStep ==
  /\ At("review")
  /\ Goto("request")
  /\ UNCHANGED <<row, ckpt, slot, session, req, ledger>>

(* The review gate is read live on every pass, outside the step.           *)
CheckReview ==
  /\ At("review")
  /\ pass' = IF material = "pending"
             THEN [pass EXCEPT !.at = "apply", !.verdict = "review"]
             ELSE [pass EXCEPT !.at = "request"]
  /\ UNCHANGED <<row, ckpt, slot, session, req, ledger>>

(* Step request_approval: the user is notified, once.                      *)
RequestApproval ==
  /\ At("request")
  /\ SaveStep("request_approval")
  /\ Goto("recv")
  /\ UNCHANGED <<row, slot, session, req, ledger>>

(* recv pops the oldest decision and saves the shorter mailbox. The wait   *)
(* is no step: nothing but the pass remembers the decision.                *)
Receive ==
  /\ At("recv")
  /\ ckpt.box # <<>>
  /\ pass' = [pass EXCEPT !.at = "submit", !.decision = Head(ckpt.box)]
  /\ ckpt' = [ckpt EXCEPT !.box = Tail(@)]
  /\ UNCHANGED <<row, slot, session, req, ledger>>

ReceiveNothing ==
  /\ At("recv")
  /\ ckpt.box = <<>>
  /\ pass' = [pass EXCEPT !.at = "apply", !.verdict = "awaiting"]
  /\ UNCHANGED <<row, ckpt, slot, session, req, ledger>>

TerminalFor(decision) ==
  IF decision = "submitted_by_user" THEN SUBMITTED_BY_USER ELSE FINISHED_BY_ENGINE

(* record_submission over the row `from`: an event that exists is returned *)
(* as it is, unreviewed material or an illegal move raises, and otherwise  *)
(* the terminal status and the event are committed together.               *)
CanRecord(from, terminal) ==
  outcomes > 0 \/ (material # "pending" /\ CanTransition(from, terminal))

\* Slip: the status is committed and the event is not.
RecordNoEvent(terminal) ==
  /\ status' = IF outcomes > 0 THEN status ELSE terminal
  /\ UNCHANGED outcomes

\* Slip: the status is written before the existing event is looked for.
RecordStatusFirst(terminal) ==
  /\ status' = terminal
  /\ outcomes' = IF outcomes > 0 THEN outcomes ELSE outcomes + 1

Record(terminal) ==
  /\ status'   = IF outcomes > 0 THEN status ELSE terminal
  /\ outcomes' = IF outcomes > 0 THEN outcomes ELSE outcomes + 1

(* Step submit: the row must be at the gate, _advance_to raises otherwise. *)
CanSubmit ==
  /\ status = AWAITING_FINAL_APPROVAL
  /\ CanRecord(status, TerminalFor(pass.decision))

Submit ==
  /\ At("submit")
  /\ ~Checkpointed("submit")
  /\ CanSubmit
  /\ Record(TerminalFor(pass.decision))
  /\ Goto("recorded")
  /\ UNCHANGED <<material, ckpt, slot, session, req, ledger>>

SaveSubmit ==
  /\ At("recorded")
  /\ SaveStep("submit")
  /\ pass' = [pass EXCEPT !.at = "teardown", !.verdict = "done"]
  /\ UNCHANGED <<row, slot, session, req, ledger>>

SkipSubmit ==
  /\ At("submit")
  /\ Checkpointed("submit")
  /\ pass' = [pass EXCEPT !.at = "teardown", !.verdict = "done"]
  /\ UNCHANGED <<row, ckpt, slot, session, req, ledger>>

(* Step teardown: the session is destroyed, then the slot is freed.        *)
Teardown ==
  /\ At("teardown")
  /\ session' = FALSE
  /\ slot' = Released
  /\ Goto("torn")
  /\ UNCHANGED <<row, ckpt, req, ledger>>

SaveTeardown ==
  /\ At("torn")
  /\ SaveStep("teardown")
  /\ Goto("apply")
  /\ UNCHANGED <<row, slot, session, req, ledger>>

\* Slip: a pass that found no decision removes the checkpoint too.
ApplyOutcomeClears ==
  /\ At("apply")
  /\ slot' = IF pass.verdict \in {"done", "failed"} \/ status \in Yielding
             THEN Released ELSE slot
  /\ ckpt' = NoFile
  /\ fails' = CASE pass.kind = "start"   -> [fails EXCEPT !.start = 0]
                [] pass.kind = "resume"  -> [fails EXCEPT !.resume = 0]
                [] pass.kind = "redrive" -> fails
  /\ pass' = NoPass
  /\ UNCHANGED <<row, session, req, environment>>

(* _apply_outcome. A finished run releases the slot and removes the        *)
(* checkpoint; a waiting one yields the slot if the row, read now, is in a *)
(* yielding state; a pre-fill hand-off also removes the checkpoint.        *)
ApplyOutcome ==
  /\ At("apply")
  /\ slot' = IF pass.verdict \in {"done", "failed"} \/ status \in Yielding
             THEN Released ELSE slot
  /\ ckpt' = IF pass.verdict \in {"done", "failed", "handoff"} THEN NoFile ELSE ckpt
  /\ fails' = CASE pass.kind = "start"   -> [fails EXCEPT !.start = 0]
                [] pass.kind = "resume"  -> [fails EXCEPT !.resume = 0]
                [] pass.kind = "redrive" -> fails
  /\ pass' = NoPass
  /\ UNCHANGED <<row, session, req, environment>>

(* A pass that raises. The tick releases the slot, tears the session down  *)
(* and counts the failure; at boot the exception is only logged.           *)
Abandon ==
  /\ pass' = NoPass
  /\ IF pass.kind = "redrive"
     THEN UNCHANGED <<slot, session, fails>>
     ELSE /\ slot' = Released
          /\ session' = FALSE
          /\ fails' = IF pass.kind = "start"
                      THEN [fails EXCEPT !.start = @ + 1]
                      ELSE [fails EXCEPT !.resume = @ + 1]
  /\ UNCHANGED <<row, ckpt, req, up, boot, decided, crashes>>

(* Pre-fill, or the submit step, met a status it has no legal move from.   *)
IllegalTransition ==
  /\ \/ At("prefill") /\ ckpt.prefill = None /\ status \notin Enterable
     \/ /\ At("prefill") /\ ckpt.prefill \in PrefillHandoffs
        /\ status \in PrefillHandoffs \ Enterable
     \/ At("submit") /\ ~Checkpointed("submit") /\ ~CanSubmit
  /\ Abandon
  /\ UNCHANGED faults

(* Anything else a step calls may raise: the browser, storage, the disk.   *)
StepRaises ==
  /\ up
  /\ pass.at \in Stages \ {"idle", "apply"}
  /\ faults < MaxFaults
  /\ faults' = faults + 1
  /\ Abandon

Pass ==
  \/ Resume \/ Redrive \/ NothingToRedrive
  \/ EnterPrefill \/ CachedPrefill \/ LandPrefill \/ SyncStatus \/ SavePrefill
  \/ GenerateMaterial \/ LinkVariant \/ SaveMaterial \/ SkipMaterial \/ CheckReview
  \/ RequestApproval \/ Receive \/ ReceiveNothing
  \/ Submit \/ SaveSubmit \/ SkipSubmit
  \/ Teardown \/ SaveTeardown \/ ApplyOutcome \/ IllegalTransition

-----------------------------------------------------------------------------
(* Requests. Each handler reads the row once and then acts on that copy.   *)
Serving(stage) == up /\ req.stage = stage
pipeline == <<slot, session, pass, ledger>>

DecisionOf(kind) ==
  IF kind \in {"submit_self", "mark_submitted"} THEN "submitted_by_user"
                                                ELSE "finished_by_engine"

(* submit-self and authorize-engine-finish go through _deliver_decision;   *)
(* mark-submitted and detect record at once. All need a row at the gate.   *)
RequestSubmission(kind) ==
  /\ Ready /\ req = NoReq
  /\ status \in Gate
  /\ req' = [kind |-> kind, seen |-> status,
             stage |-> IF kind \in {"submit_self", "authorize_engine_finish"}
                       THEN "send" ELSE "record"]
  /\ UNCHANGED <<row, ckpt, pipeline>>

(* submit_decision: the decision goes to the mailbox first.                *)
SendDecision ==
  /\ Serving("send") /\ ~LockHeld
  /\ Len(ckpt.box) < MaxBox
  /\ ckpt' = [ckpt EXCEPT !.file = TRUE, !.box = Append(@, DecisionOf(req.kind))]
  /\ req' = [req EXCEPT !.stage = "record"]
  /\ decided' = TRUE
  /\ UNCHANGED <<row, slot, session, pass, fails, up, boot, crashes, faults>>

RecordSubmission ==
  /\ Serving("record")
  /\ CanRecord(req.seen, TerminalFor(DecisionOf(req.kind)))
  /\ Record(TerminalFor(DecisionOf(req.kind)))
  /\ req' = IF req.kind \in {"submit_self", "authorize_engine_finish"}
            THEN [req EXCEPT !.stage = "enter_post"] ELSE NoReq
  /\ UNCHANGED <<material, ckpt, pipeline>>

(* ReviewRequired or IllegalStateTransition: the user sees a 409 and knows *)
(* that his decision was not taken, though it stays in the mailbox.        *)
RefuseSubmission ==
  /\ Serving("record")
  /\ ~CanRecord(req.seen, TerminalFor(DecisionOf(req.kind)))
  /\ req' = NoReq
  /\ decided' = FALSE
  /\ UNCHANGED <<row, ckpt, slot, session, pass, fails, up, boot, crashes, faults>>

(* enter_post_submission over the row read anew, which it then writes;     *)
(* what it raises is swallowed.                                            *)
EnterPostSubmission ==
  /\ Serving("enter_post")
  /\ req' = IF CanTransition(status, POST_SUBMISSION)
            THEN [req EXCEPT !.stage = "post"] ELSE NoReq
  /\ UNCHANGED <<row, ckpt, pipeline>>

WritePostSubmission ==
  /\ Serving("post")
  /\ status' = POST_SUBMISSION
  /\ req' = NoReq
  /\ UNCHANGED <<material, outcomes, ckpt, pipeline>>

(* resume-account / resume-detection-step: the handler runs pre-fill in    *)
(* the request's thread and writes the row where that lands.               *)
RequestResume ==
  /\ Ready /\ req = NoReq
  /\ Overlap \/ pass = NoPass
  /\ status \in {AWAITING_ACCOUNT_HUMAN_STEP, BLOCKED_DETECTION}
  /\ req' = [kind |-> "resume_step", stage |-> "fill", seen |-> status]
  /\ UNCHANGED <<row, ckpt, pipeline>>

LandResume ==
  /\ Serving("fill")
  /\ status' \in Landings
  /\ req' = NoReq
  /\ UNCHANGED <<material, outcomes, ckpt, pipeline>>

(* The redline is approved.                                                *)
ApproveMaterial ==
  /\ Ready
  /\ material = "pending" /\ material' = "approved"
  /\ UNCHANGED <<status, outcomes, ckpt, req, pipeline>>

(* The operator asks for another try (retry_given_up).                     *)
RetryGivenUp ==
  /\ Ready
  /\ FailureCap \in {fails.start, fails.resume}
  /\ fails' = [k \in {"start", "resume"} |-> IF fails[k] = FailureCap THEN 0 ELSE fails[k]]
  /\ UNCHANGED <<row, ckpt, slot, session, pass, req, environment>>

Serve == SendDecision \/ RecordSubmission \/ RefuseSubmission
           \/ EnterPostSubmission \/ WritePostSubmission \/ LandResume

User ==
  \/ \E kind \in Requests \ {"resume_step"} : RequestSubmission(kind)
  \/ "resume_step" \in Requests /\ RequestResume
  \/ ApproveMaterial
  \/ RetryGivenUp

-----------------------------------------------------------------------------
Crash ==
  /\ up /\ crashes < MaxCrashes
  /\ crashes' = crashes + 1
  /\ up' = FALSE
  /\ pass' = NoPass /\ req' = NoReq
  /\ session' = FALSE
  /\ fails' = [fails EXCEPT !.start = 0]
  /\ UNCHANGED <<row, ckpt, slot, boot, decided, faults>>

Restart ==
  /\ ~up
  /\ up' = TRUE /\ boot' = TRUE
  /\ UNCHANGED <<row, ckpt, slot, session, pass, req, fails, decided, crashes, faults>>

Next == Start \/ Pass \/ StartDeferred \/ Promoted \/ StepRaises \/ Serve \/ User
          \/ Crash \/ Restart

Spec == Init /\ [][Next]_vars

(* The scheduler ticks forever and a pass, once begun, runs to its end; a  *)
(* request that was accepted is served; a supervisor restarts the process. *)
(* A user who resumes again and again cannot keep the tick away (strong    *)
(* fairness of Resume: the code's tick does not even wait for him).        *)
(* Nothing obliges the user to act, or other applications to free a slot.  *)
Fairness ==
  WF_vars(Pass) /\ SF_vars(Resume) /\ WF_vars(Serve) /\ WF_vars(Restart)

LiveSpec == Spec /\ Fairness
-----------------------------------------------------------------------------
(* The two writes of a pass that put back a status from before: a          *)
(* submission that was recorded after the pass wrote or read the row, by a *)
(* request that needs no lock, is taken off the row, its event remains.    *)
TakenBack == (SyncStatus \/ LinkVariant) /\ status \in Handed

(* The outcome and the status say the same thing, however tick, requests,  *)
(* boot and crashes interleave: no row is in or after a submitted status   *)
(* without its "submitted" event, and the two stop agreeing only when a    *)
(* submission is taken back.                                               *)
Agree == (outcomes > 0) <=> (status \in Handed)
OutcomeMatchesStatus ==
  /\ [](status \in Handed => outcomes > 0)
  /\ [][Agree => Agree' \/ TakenBack]_vars

(* The engine reaches its submit step only with pre-fill, material and     *)
(* request_approval checkpointed, no material unreviewed and a decision of *)
(* the user's in hand; restarts and re-drives skip none of it.             *)
SubmitOnlyPastEveryGate ==
  pass.at \in {"submit", "recorded"} =>
    /\ ckpt.prefill # None
    /\ {"material", "request_approval"} \subseteq ckpt.done
    /\ material # "pending"
    /\ pass.decision # None

(* An application awaits its user's decision: it is at the final approval  *)
(* and nothing is recorded yet.                                            *)
Awaiting == status = AWAITING_FINAL_APPROVAL /\ outcomes = 0

(* A decision that was sent while the application awaits it is never lost: *)
(* it is in the mailbox, in the hands of a pass or of its own request (what *)
(* send and recv say of themselves, across restarts).                      *)
DecisionKept ==
  decided /\ Awaiting =>
    ckpt.box # <<>> \/ pass.decision # None \/ req.stage = "record"

(* Where a decision can be lost, and nowhere else: while the application    *)
(* awaits them, no decision leaves the mailbox but into the hands of a     *)
(* pass, and no pass drops the one it holds but by a crash or an exception *)
(* (between recv and the checkpoint of the submit step).                   *)
Undelivered == Len(ckpt.box) + (IF pass.decision = None THEN 0 ELSE 1)
MailboxLosesNothing ==
  [][Awaiting /\ Awaiting' =>
       Undelivered' >= IF Crash \/ StepRaises THEN Len(ckpt.box) ELSE Undelivered]_vars

(* A decision that a crash left in the mailbox is acted on: the re-drive   *)
(* or a later tick receives it and records it, unless it raises, meets the *)
(* cap of the resume ledger, or the user submitted some other way.         *)
SurvivingDecisionRecorded ==
  (/\ crashes = MaxCrashes /\ ckpt.box # <<>> /\ req = NoReq
   /\ status = AWAITING_FINAL_APPROVAL
   /\ "material" \in ckpt.done /\ material # "pending")
    ~> (outcomes > 0 \/ fails.resume = FailureCap \/ faults > 0)

(* The row's status moves only where legal moves lead, over crashes too,   *)
(* and but for a submission that is taken back (which the docstring of     *)
(* core/state_machine.py does not allow for).                              *)
L == INSTANCE Lifecycle
FollowsLifecycle == L!LInit /\ [][L!Land \/ TakenBack]_status

(* Pivot: no application keeps its slot for ever in a state that waits for *)
(* its user and that the tick resumes, crash or no crash, unless the tick  *)
(* gave it up.                                                             *)
Hogging == slot = "held" /\ status \in Resumable
WaitingAppYields == Hogging ~> (~Hogging \/ fails.resume = FailureCap)

(* A pre-fill that dies gives both its session and its slot back.          *)
FailedPassReclaims ==
  (pass.seen = FAILED) ~> (slot # "held" /\ ~session) \/ crashes + faults > 0

(* Approving the redline moves the workflow on to the final approval: the  *)
(* cached material step does not park it, unless the tick gave up.         *)
ReviewedIsRequested ==
  (status = AWAITING_FINAL_APPROVAL /\ material = "approved" /\ "material" \in ckpt.done)
    ~> (\/ "request_approval" \in ckpt.done
        \/ status # AWAITING_FINAL_APPROVAL
        \/ fails.resume = FailureCap)
=============================================================================
