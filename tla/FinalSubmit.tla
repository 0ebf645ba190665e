---------------------------- MODULE FinalSubmit ----------------------------
(***************************************************************************)
(* The end of one application under concurrent callers: the two requests   *)
(* that deliver the terminal decision (one of them clicks the employer's   *)
(* submit button), the two that record a submission made by hand, and the  *)
(* submit step of the pipeline, which the tick runs in its own thread.     *)
(*                                                                         *)
(* Pipeline takes record_submission as one step.  Here a caller runs as    *)
(* the code does, one read or one write of shared state at a time: the     *)
(* row it read, the in-flight set it looked at and the event it did not    *)
(* find may all be out of date when it acts.                               *)
(***************************************************************************)
EXTENDS LifecycleTable

CONSTANTS Callers,   \* the threads: each serves one call
          Kinds,     \* the kinds of call they serve
          Overlap,   \* may two calls be served at the same time?
          None

Deciding == {"authorize_engine_finish", "submit_self"}
Recording == {"mark_submitted", "detect_submission"}
CallKinds == Deciding \cup Recording \cup {"submit_step"}

ASSUME FinalSubmitAssumption ==
  /\ Kinds \subseteq CallKinds
  /\ Overlap \in BOOLEAN
  /\ None \notin ApplicationState \cup CallKinds \cup {"recorded", "refused"}

VARIABLES status,    \* Application.status
          reviewed,  \* is all generated material approved?
          events,    \* number of "submitted" OutcomeEvents
          inflight,  \* is the application in _finish_in_progress?
          box,       \* decisions in the workflow's mailbox
          clicks,    \* clicks dispatched to the employer's submit button
          call       \* what each thread is doing

row  == <<status, events>>
vars == <<status, reviewed, events, inflight, box, clicks, call>>

Gate   == {AWAITING_FINAL_APPROVAL, EMERGENCY_DATA_HANDOFF}
Handed == Submitted \cup {POST_SUBMISSION}

Stages == {"new", "guard", "claim", "click", "load", "send", "check", "commit",
           "enter_post", "release", "answered"}
Calls  == [at : Stages, kind : CallKinds \cup {None},
           copy : ApplicationState \cup {None}, reply : {"recorded", "refused", None}]

TypeOK ==
  /\ status \in ApplicationState
  /\ reviewed \in BOOLEAN /\ inflight \in BOOLEAN
  /\ events \in Nat /\ box \in Nat /\ clicks \in Nat
  /\ call \in [Callers -> Calls]

(* Before the gate (parked at an anti-bot wall) or at it. Material is       *)
(* generated only at the final approval, and may wait there for review.    *)
Init ==
  /\ status \in {BLOCKED_DETECTION} \cup Gate
  /\ reviewed \in BOOLEAN /\ (status # AWAITING_FINAL_APPROVAL => reviewed)
  /\ events = 0 /\ inflight = FALSE /\ box = 0
  /\ clicks = 0
  /\ call = [c \in Callers |-> [at |-> "new", kind |-> None, copy |-> None, reply |-> None]]

-----------------------------------------------------------------------------
At(c, stage)   == call[c].at = stage
Goto(c, stage) == call' = [call EXCEPT ![c].at = stage]

(* A thread takes a call, and gets so far with it.                         *)
Fresh(c) ==
  /\ At(c, "new")
  /\ Overlap \/ \A d \in Callers : call[d].at \in {"new", "answered"}

Take(c, kind, copy, at, reply) ==
  call' = [call EXCEPT ![c] = [at |-> at, kind |-> kind, copy |-> copy, reply |-> reply]]

(* A call ends: a deciding one runs its `finally` first.                   *)
End(c, reply) ==
  call' = [call EXCEPT ![c].reply = reply,
                       ![c].at = IF call[c].kind \in Deciding THEN "release" ELSE "answered"]

Terminal(kind) == IF kind \in {"submit_self", "mark_submitted"} THEN SUBMITTED_BY_USER
                                                                ELSE FINISHED_BY_ENGINE

(* submit_self, authorize_engine_finish: the status guard.                 *)
ReadStatus(c, kind) ==
  /\ Fresh(c) /\ kind \in Deciding
  /\ IF status \in Submitted THEN Take(c, kind, None, "answered", "refused")
                             ELSE Take(c, kind, None, "guard", None)
  /\ UNCHANGED <<row, reviewed, inflight, box, clicks>>

(* The in-flight guard is looked at, then set: two operations on the set.  *)
CheckInFlight(c) ==
  /\ At(c, "guard")
  /\ IF inflight THEN call' = [call EXCEPT ![c].at = "answered", ![c].reply = "refused"]
                 ELSE Goto(c, "claim")
  /\ UNCHANGED <<row, reviewed, inflight, box, clicks>>

Claim(c) ==
  /\ At(c, "claim")
  /\ inflight' = TRUE
  /\ Goto(c, IF call[c].kind = "authorize_engine_finish" THEN "click" ELSE "load")
  /\ UNCHANGED <<row, reviewed, box, clicks>>

(* click_final_submit, through the boundary, before anything is recorded.  *)
Click(c) ==
  /\ At(c, "click")
  /\ clicks' = clicks + 1
  /\ Goto(c, "load")
  /\ UNCHANGED <<row, reviewed, inflight, box>>

\* Slip: the guard is not dropped when the click raises (no `finally`).
ClickRaisesNoFinally(c) ==
  /\ At(c, "click")
  /\ call' = [call EXCEPT ![c].at = "answered", ![c].reply = "refused"]
  /\ UNCHANGED <<row, reviewed, inflight, box, clicks>>

ClickRaises(c) ==
  /\ At(c, "click")
  /\ End(c, "refused")
  /\ UNCHANGED <<row, reviewed, inflight, box, clicks>>

(* _load_or_stub: the row is read (again), and must be at the gate.        *)
Load(c) ==
  /\ At(c, "load")
  /\ IF status \in Gate
     THEN call' = [call EXCEPT ![c].copy = status,
                     ![c].at = IF call[c].kind \in Deciding THEN "send" ELSE "check"]
     ELSE End(c, "refused")
  /\ UNCHANGED <<row, reviewed, inflight, box, clicks>>

(* mark_submitted and detect_submission go there at once.                  *)
BeginRecording(c, kind) ==
  /\ Fresh(c) /\ kind \in Recording
  /\ Take(c, kind, None, "load", None)
  /\ UNCHANGED <<row, reviewed, inflight, box, clicks>>

(* The pipeline received a decision: one thread at a time drives a         *)
(* workflow. Its submit step reads the row, and raises off the final       *)
(* approval; nobody else may then see the decision.                        *)
\* Slip: the mailbox is popped without a look at whether it is empty.
BeginSubmitStepUnlooked(c) ==
  /\ Fresh(c) /\ "submit_step" \in Kinds
  /\ \A d \in Callers : call[d].kind = "submit_step" => At(d, "answered")
  /\ box' = box - 1
  /\ Take(c, "submit_step", None, "answered", "refused")
  /\ UNCHANGED <<row, reviewed, inflight, clicks>>

BeginSubmitStep(c) ==
  /\ Fresh(c) /\ "submit_step" \in Kinds
  /\ \A d \in Callers : call[d].kind = "submit_step" => At(d, "answered")
  /\ box > 0 /\ box' = box - 1
  /\ IF status = AWAITING_FINAL_APPROVAL
     THEN Take(c, "submit_step", status, "check", None)
     ELSE Take(c, "submit_step", None, "answered", "refused")
  /\ UNCHANGED <<row, reviewed, inflight, clicks>>

(* submit_decision: into the mailbox, before anything is checked.          *)
Send(c) ==
  /\ At(c, "send")
  /\ box' = box + 1
  /\ Goto(c, "check")
  /\ UNCHANGED <<row, reviewed, inflight, clicks>>

Recorded(c) == IF call[c].kind \in Deciding THEN Goto(c, "enter_post") ELSE End(c, "recorded")

(* record_submission: an event that exists is returned; the review gate    *)
(* and the copy's legal moves are checked.                                 *)
\* Slip: nobody looks for an event that exists.
CheckNoLook(c) ==
  /\ At(c, "check")
  /\ IF reviewed /\ CanTransition(call[c].copy, Terminal(call[c].kind))
     THEN Goto(c, "commit") ELSE End(c, "refused")
  /\ UNCHANGED <<row, reviewed, inflight, box, clicks>>

\* Slip: the copy's status is overwritten without a look at the legal moves.
CheckNoTransition(c) ==
  /\ At(c, "check")
  /\ IF events > 0 THEN Recorded(c)
     ELSE IF reviewed THEN Goto(c, "commit") ELSE End(c, "refused")
  /\ UNCHANGED <<row, reviewed, inflight, box, clicks>>

Check(c) ==
  /\ At(c, "check")
  /\ IF events > 0 THEN Recorded(c)
     ELSE IF reviewed /\ CanTransition(call[c].copy, Terminal(call[c].kind))
          THEN Goto(c, "commit") ELSE End(c, "refused")
  /\ UNCHANGED <<row, reviewed, inflight, box, clicks>>

(* ... and then the copy, with its terminal status, overwrites the row and *)
(* an event is added, in one transaction. No constraint makes it unique.   *)
\* Slip: the status is committed before the event, which is then lost.
CommitRowOnly(c) ==
  /\ At(c, "commit")
  /\ status' = Terminal(call[c].kind)
  /\ Recorded(c)
  /\ UNCHANGED <<events, reviewed, inflight, box, clicks>>

Commit(c) ==
  /\ At(c, "commit")
  /\ status' = Terminal(call[c].kind)
  /\ events' = events + 1
  /\ Recorded(c)
  /\ UNCHANGED <<reviewed, inflight, box, clicks>>

\* Slip: a transaction that fails is taken for one that did not.
CommitFailsSilently(c) ==
  /\ At(c, "commit")
  /\ Recorded(c)
  /\ UNCHANGED <<row, reviewed, inflight, box, clicks>>

CommitFails(c) ==
  /\ At(c, "commit")
  /\ End(c, "refused")
  /\ UNCHANGED <<row, reviewed, inflight, box, clicks>>

(* enter_post_submission over the row read anew; its failures are          *)
(* swallowed.                                                              *)
EnterPost(c) ==
  /\ At(c, "enter_post")
  /\ status' \in {status} \cup {s \in {POST_SUBMISSION} : CanTransition(status, s)}
  /\ End(c, "recorded")
  /\ UNCHANGED <<events, reviewed, inflight, box, clicks>>

(* finally: the application leaves the in-flight set, whoever put it there. *)
Release(c) ==
  /\ At(c, "release")
  /\ inflight' = FALSE
  /\ Goto(c, "answered")
  /\ UNCHANGED <<row, reviewed, box, clicks>>

(* Pre-fill gets past the wall and lands at the gate; the material step    *)
(* generates documents for the final approval; the user approves them.     *)
LandAtGate ==
  /\ status = BLOCKED_DETECTION /\ status' \in Gate
  /\ UNCHANGED <<events, reviewed, inflight, box, clicks, call>>

GenerateMaterial ==
  /\ status = AWAITING_FINAL_APPROVAL
  /\ reviewed /\ reviewed' = FALSE
  /\ UNCHANGED <<row, inflight, box, clicks, call>>

ApproveMaterial ==
  /\ ~reviewed /\ reviewed' = TRUE
  /\ UNCHANGED <<row, inflight, box, clicks, call>>

Serve(c) ==
  \/ CheckInFlight(c) \/ Claim(c) \/ Click(c) \/ ClickRaises(c) \/ Load(c) \/ Send(c)
  \/ Check(c) \/ Commit(c) \/ CommitFails(c) \/ EnterPost(c) \/ Release(c)

Next ==
  \/ \E c \in Callers :
       \/ \E kind \in Kinds : ReadStatus(c, kind) \/ BeginRecording(c, kind)
       \/ BeginSubmitStep(c)
       \/ Serve(c)
  \/ LandAtGate \/ GenerateMaterial \/ ApproveMaterial

Spec == Init /\ [][Next]_vars

(* A thread that serves a call is scheduled until it has answered.         *)
LiveSpec == Spec /\ \A c \in Callers : WF_vars(Serve(c))
-----------------------------------------------------------------------------
(* Row and outcome agree at every moment: stale copies, a submit step that *)
(* runs beside a request, transactions that fail and repeated calls leave  *)
(* an application submitted exactly when it has a "submitted" event. How   *)
(* many of them it has is the subject of the next two.                     *)
OutcomeMatchesRow == (events > 0) <=> (status \in Handed)

(* What record_submission's look for an event does give: once there is one *)
(* and no caller is between its look and its commit, the outcome stands.   *)
(* No call that comes later, or that read the row earlier, adds an event   *)
(* or takes the application back (IDEM-3).                                 *)
Settled == events > 0 /\ \A c \in Callers : ~At(c, "commit")
OutcomeStands ==
  [][Settled => Settled' /\ events' = events /\ status' \in Handed]_vars

(* The docstring of _deliver_decision: the pipeline's submit step finds    *)
(* the event of the request, "exactly one OutcomeEvent either way".        *)
OneEvent == events <= 1

(* Whoever is answered that the submission was recorded can rely on it.    *)
AnsweredIsRecorded ==
  \A c \in Callers : call[c].reply = "recorded" => events > 0 /\ status \in Handed

(* An application that was handed over in an emergency is only ever        *)
(* submitted by its user, whatever kind of call and copy gets there first. *)
EmergencyByUserOnly ==
  [][status = EMERGENCY_DATA_HANDOFF => status' # FINISHED_BY_ENGINE]_status

(* The in-flight guard is always given back: no call, however it ends,     *)
(* leaves the application refused for ever.                                *)
GuardReleased == []<>(~inflight)

(* The comment on the status guard: a decision that has landed is never    *)
(* followed by another click on the employer's submit button.              *)
NoClickAfterSubmission == [][events > 0 => clicks' = clicks]_vars
=============================================================================
