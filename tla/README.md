# A verification of Applicant

Applicant is a self-hosted engine that finds jobs, pre-fills applications in
sandboxed browsers, waits for its user at every gate and never submits without
him. Beside the engine lives a workspace: a web server and a JavaScript front-end with
a chat and a document editor. This project models

* the part of the engine that moves one application from "approved" to
  "submitted": a durable pipeline, the scheduler that drives it, the requests
  through which the user acts, the queues that ration sandboxes, the lease that
  keeps two processes apart, and a process that may die at any step;
* the part of the workspace where callbacks, timers and requests interleave:
  the answers of the chat on their way from a detached task to the loop that renders
  them, and the document editor with its autosaves, tabs and versions.

Paths below are relative to `src/applicant/` of the repository; those that begin
with `workspace/` are relative to its root.

## Inventory

| Part | State | Operations | What is hard, and what makes it correct |
| --- | --- | --- | --- |
| Lifecycle (`core/state_machine.py`) | an application's status | `transition`, `force_status_checked` | every status is reached by legal moves, though storage shows only landings |
| Checkpoint shim (`adapters/orchestration/checkpoint_shim.py`) | one JSON file per workflow (finished steps, mailbox), a lease file, `_queues.json` | `start_workflow`, `run_step`, `send`, `recv`, `recover_pending`, `clear`, `claim_workflow`, `acquire`, `release` | crashes between a step and its checkpoint; a decision delivered once; a slot never granted twice |
| Capacity (`application/services/capacity_service.py`) | the two queues | `admit_sandbox`, `yield_for_block`, `release_sandbox` | a blocked application gives its slot to the next one; slots come back after failures |
| Pipeline workflow (`application/workflows/application_pipeline.py`) | none but the checkpoint | `run_pipeline` | no gate is skipped by a cached step; no cached step parks the workflow for ever |
| Agent loop (`application/services/agent_loop.py`) | resume ledger (durable), start ledger (in memory) | `tick`, `_start_pipeline`, `_resume_in_flight`, `redrive_recovered`, `_apply_outcome`, `retry_given_up` | retries up to a cap; failures release slot and session |
| Pre-fill (`application/services/prefill_service.py`) | the application row | `prefill_application`, `resume_after_*`, `emergency_handoff` | entered only from certain statuses; writes the whole row from the copy it read |
| Submission, final approval, outcomes (`application/services/submission_service.py`, `final_approval_service.py`, `app/routers/outcomes.py`) | outcome events, the row | `record_submission`, `mark_submitted`, `detect`, `submit_decision` | idempotent under repetition; row and event agree |
| Remote surface (`app/routers/remote.py`) | `_finish_in_progress` | `submit_self`, `authorize_engine_finish`, `resume_account_step`, `resume_detection_step` | double clicks, stale reads, a guard that must be given back |
| Scheduler and boot (`app/lifespan.py`, `application/services/scheduler.py`) | the running task | `_redrive_pending`, `_scheduler_loop` | recovery before the first tick; one failing application must not stop the others |
| Detached agent runs (`workspace/src/agent_runs.py`) | `_RUNS`: per session a run with its replay buffer, subscribers' queues, eviction timer | `start`, `stop`, `subscribe`, `_drain`, `_publish`, `_evict` | a client may come, lag and go between any two awaits; cancellation is a request, not an event; every event once and in order, every stream released |
| Chat transport (`workspace/static/js/chatWsTransport.js`, `chat.js`, `workspace/routes/chat_ws_routes.py`) | reader: socket, queue, offset, attempts; server: a generator per connection | `openChatStreamReader`, `_onSocketClose`, `read`, `cancel`; the socket route's `subscribe` frame | a dropped socket takes unknown events with it; the resume offset must count exactly what was received |
| Document editor (`workspace/static/js/document.js`, `workspace/routes/document_routes.py`) | one textarea, one autosave timer, one version stash for all tabs; versions on the server | `switchToDoc`, `saveDocument`, `closeTab`, `handleDocUpdate`, `_animateDocEdit`, version panel, export | a handler goes on after its await with whatever is in the editor then |
| Post-submission, notifications, pending actions, digest, take-over, learning, chat, setup, storage, front-ends | rows of their own | see `PROJECT.json` | later modules, or out of reach (below) |

How they interact: the scheduler's tick runs in a worker thread and drives a
pipeline synchronously to its next hand-off. A pipeline calls the services
through closures bound by the agent loop, inside `run_step`, which holds the
workflow's lock and writes the checkpoint when the step's body returns. Requests
run in other threads, write the same rows, and talk to the pipeline through the
mailbox. After a crash, boot drives every unfinished checkpoint again before the
first tick.

In the workspace a POST of chat.js starts a run; the run's task fills the replay
buffer; the response body and a WebSocket each subscribe to it; the reader takes
whichever speaks first and reopens a dropped socket at its offset. The agent of
the chat also edits documents: its edit is a version on the server and an event
for the editor, which the editor types out into its one textarea.

The hazards this gives rise to are listed in `PROJECT.json`, each at the line
where it bites and with the properties that watch it.

## Plan

Most important behaviour first; the first eight are done.

1. `LifecycleTable`, `Lifecycle` -- the table, and what storage promises of it.
2. `DurableQueues` with `MCDurableQueues` and `DurableQueuesProofs`.
3. `Pipeline` (implements `Lifecycle`) with `PipelineProofs`.
4. `FinalSubmit` with `FinalSubmitProofs`: the record step of `Pipeline`, taken apart.
5. `Lease` with `LeaseProofs`: claim, expiry and steal of a workflow.
6. `AgentRuns` with `AgentRunsProofs`: the detached runs of one chat session.
7. `ChatTransport`, which composes `AgentRuns` with the connections and the
   reader, and implements `OrderedStream`; with `ChatTransportProofs`.
8. `DocEditor` with `MCDocEditor` and `DocEditorProofs`.
9. `Admission`: several applications over one slot queue, composing the
   interface of 2 with a short life cycle out of 3. Asks for the sandboxes that
   live at once, and for starvation of promoted waiters.
10. Notification ladder with pending actions (acting once silences the rest), the
   post-submission life cycle (ghosting sweep beside responses), the scheduler's
   campaign locks and daily budget, take-over of the live session.

## The modules

**`LifecycleTable`** holds the 25 states and `_TRANSITIONS` as a set of edges
(`FAILED` is reachable from every non-terminal state, as `allowed_transitions`
adds it); `ReachableFrom` closes them by doubling the length of the walks five times,
which covers the 25 states. **`Lifecycle`** is the abstract specification: the code walks several
moves in memory and persists only where it lands, so what storage promises is
that every change of the status is reachable by legal moves. `Pipeline` keeps that
promise but for two writes, `TakenBack`.

**`DurableQueues`**: `active`, `waiting`, `admitted` are the fields of `_Queue`
(`admitted` is `admit_times`, the clock at each admission); `disk` is `_queues.json`. One
operation is three steps under the queue's lock -- change the memory, dump ALL
queues, replace the file -- so a crash or a failed write falls between them.
`RestartUnread` is a start that cannot read or parse the file: `_load_queues` gives up
without a word, and `create_queue` saves the empty queues over it. `holds` is a history
variable: who has been told that it holds a slot, since the file was last unreadable.

**`Pipeline`**: one application. Durable are the row (`status`, `material`, `outcomes`),
the checkpoint (`ckpt`), the slot and the resume ledger; `pass`, `req`, `session` and the
start ledger die with the process. `pass.at` is the program counter of `run_pipeline`;
each step is its body and then its checkpoint (`Submit`/`SaveSubmit`, `Teardown`/
`SaveTeardown`). Pre-fill is three: it notifies and writes the row (`LandPrefill`), the
agent loop forces the status to where it landed (`SyncStatus`), the step is checkpointed
(`SavePrefill`). So is material: it is generated with the row read (`GenerateMaterial`),
`_link_variant` writes the whole row back (`LinkVariant`), the step is checkpointed
(`SaveMaterial`). A request may write the row between any two of them. `Abandon` is what
the tick does with an exception, and at boot what it does not do. A step that raises has
used up its in-process retries. The queue of the other applications appears as
`StartDeferred` and `Promoted`. Material is "none", "pending" or "approved", where
"approved" also stands for nothing left to review.

**`FinalSubmit`**: the same end of the story with `record_submission` taken
apart. Each thread in `Callers` serves one call of a kind in `Kinds`, one access
of shared state per step: the status guard, the look at the in-flight set, the
claim, the click, the load, the message, the check, the commit, the move to
POST_SUBMISSION and the `finally`. `clicks` counts dispatches of
`click_final_submit`, which the adapter at hand checks against the boundary and
does not yet carry out on a page. `CommitFails` is a transaction that fails.

**`Lease`**: `claim_workflow`, one file operation per step: the exclusive
create, the look at the age, the steal marker, the second look, the unlink, the
second create, the release that unlinks whatever is there. `age` counts ticks up
to the TTL. `Kill` takes a process with its threads and leaves its files. Two
histories name what the code cannot prevent: an owner that kept its lease for the
TTL (`overstayed`) and a thief killed over its marker (`orphaned`). No code of the
repository but its tests calls `claim_workflow`, so the module speaks of the shim's interface, with
claimants that may come at any time and never must.

**`AgentRuns`**: `run` holds the `_Run` objects with their tasks, `sub` the `subscribe()`
generators. A step is what asyncio runs between two awaits. `cancel` is a requested
cancellation: `CancelEarly` is a task cancelled before its `try`, where no handler is run,
`CancelDrain` and `CloseGenerator` one cancelled inside it. An event is its place in the
buffer and whether it is `[DONE]`.

**`ChatTransport`** EXTENDS it with connections (`link`: the frame that subscribes, the
resume offset, what is on the wire) and the reader's fields under their names (`queue`,
`delivered`, `attempts`, `done`, `sawDone`); `got` and `ended` are what the caller's loop
has seen. Its `break` at `[DONE]` leaves only the loop over one chunk: it reads on until
its stream ends, the body by being closed, the reader by `done`, and judges only then
whether the answer was complete (`StreamSawDone`, `Judged`). A close drops what is in
flight, `Restart` loses the server's memory, `Abort` is the user. **`OrderedStream`** is
what all of it promises: events handed over once and in order, "complete" after the last,
otherwise "short".

**`DocEditor`**: `server` is each document's versions, `docs` the map of open tabs,
`editor` the textarea, `puts` and `opening` the requests under way, with one step for a
handler's part before its await and one for its part after it. `pane` is the panel:
`ClosePanel` lets it slide out, with its textarea and its active document, and only
`FinishClose` (after the transition, or 200 ms) clears them; `Reopen` in between builds a
new, blank textarea. A PUT under way keeps the text of the textarea it was sent from
(`ta`) once that has been removed. A text is its document and who wrote it, which is what
the properties tell apart; a form-backed PDF is edited as the Markdown it is kept as.
`typed` is a history: the user's last text. `Sessions` bounds which features one behaviour
mixes; **`MCDocEditor`** lists them.

## What is checked

| Run | Module | Bounds | Result |
| --- | --- | --- | --- |
| `queues` | `MCDurableQueues` | 3 applications, 1 sandbox slot; 2 calls, 1 admission per 2 ticks; clock to 2; crashes, failed writes and unreadable files unbounded; 549,778 states | all hold |
| `pipeline` | `Pipeline` | every request, 1 crash, 1 exception, 2 failures per ledger (the code: 5), mailbox of 2; 132,070 states | all hold |
| `final_submit` | `FinalSubmit` | 3 callers of all 5 kinds, overlapping; 421,088 states | all hold |
| `lease` | `Lease` | 3 processes of 2 threads, 2 kills, TTL of 1 tick; 202,294 states | all hold |
| `agent_runs` | `AgentRuns` | 2 sends, 2 subscribers that come and go without bound, 1 text before `[DONE]`, so 3 events when it fails; 309,100 states | all hold |
| `chat_transport` | `ChatTransport` | 1 answer, its body and 2 sockets, 1 reconnect in a row (the code: 5), 1 restart; 386,882 states | all hold |
| `doc_editor` | `MCDocEditor` | 2 documents, 2 PUTs at once, 3 versions, 1 lost request, 1 or 2 texts, ten mixtures of features; 1,187,032 states | all hold |
| `decision_lost` | `Pipeline` | fewer requests, no exceptions | violates its property |
| `second_event`, `click_again` | `FinalSubmit` | 2 callers each | each violates its property |
| `agent_run_stuck` | `AgentRuns` | 2 sends, 1 subscriber | violates its property |
| `doc_export` | `MCDocEditor` | 1 text, 1 PUT, no faults | violates its property |

The bounds are enough for the cases that matter. Three applications over one slot give a
holder and two ordered waiters, which overtaking and the pivot need. One crash at any step
finds every window between a step and its checkpoint, and with one exception and a cap of
two the give-up and its retry are reached. Three callers give one stale reader beside a
pair in a race. Three claimants of a lease give an owner, a thief and a second thief that
saw the lease expired before the first theft; a TTL of one tick is enough, since only
"expired or not" is looked at. Two sends are a run and the one that replaces it, two
subscribers one that is last to leave and one that is not. With three events a resume
offset can lie before, between and behind events; reconnects in a row are limited but a
frame gives them back, so a socket is dropped and reopened again and again. In the editor
two documents give a shown and a hidden one, and two PUTs can overtake each other; each
mixture of `MCSessions` puts typing, tab changes and autosaves together with the one or
two features most likely to disturb them.

Properties of `queues`: slots never exceed the cap before or after a crash
(`SlotsNeverExceedCap`), whoever was told of a slot is in the file (`HoldersAreDurable`),
no slot idles while somebody waits (`WorkConserving`), no overtaking (`NoOvertaking`), the
rolling window (`RateBound`). The run has `Overlap = FALSE`: production code uses one
queue. With two queues used at once `HoldersAreDurable` fails, since each save dumps all
queues under one queue's lock; with one queue the constant makes no difference. An
unreadable file loses every slot in it, and a restart then grants them again:
`SlotsNeverExceedCap` and `HoldersAreDurable` speak of the slots told since then. What
they show is that nothing else loses one.

Properties of `pipeline`: no row is submitted without its event, and row and event stop agreeing
only when a recorded submission is taken back (`OutcomeMatchesStatus`), the submit
step is reached only past every gate (`SubmitOnlyPastEveryGate`), the row implements
`Lifecycle` but for that same write (`FollowsLifecycle`, a refinement). The exception is
`TakenBack`: `SyncStatus` or `LinkVariant`, whose status is from before, over a row that a
request has moved to a submitted one meanwhile; the two properties say that no other step
of tick, request, boot or crash does it. A waiting application gives up
its slot (`WaitingAppYields`), a dead pre-fill gives back slot and session
(`FailedPassReclaims`), an approved redline moves on (`ReviewedIsRequested`), a
decision that outlived a crash is recorded (`SurvivingDecisionRecorded`). While the
application awaits its final approval a decision leaves the mailbox only into the hands of a
pass, and a pass drops it only by a crash or an exception between `recv` and the
checkpoint of the submit step (`MailboxLosesNothing`: the run `decision_lost` shows
that this window loses a decision, this property that there is no other).

Properties of `final_submit`: row and event agree though copies are stale
(`OutcomeMatchesRow`), once an event exists and no caller is between its look and its
commit nobody adds another or takes the application back (`OutcomeStands`: the code's
check is enough for calls that come one after the other; `second_event` shows two that
overlap), a positive answer is true (`AnsweredIsRecorded`), the engine never finishes an
emergency hand-off (`EmergencyByUserOnly`), the in-flight guard is given back
(`GuardReleased`).

Properties of `lease`: at most one claimant owns the workflow (`OneOwner`) and no
step but its own release takes an owner's file away (`OwnersFileStays`), both while
no owner has overstayed; whatever way a theft ends, its marker goes, unless the thief
is killed over it (`MarkerHeld`: a marker left behind would refuse every later theft).

Properties of `agent_runs`: every client is given every event once and in order
(`GivenInOrder`); a stream the server ends was whole (`EndedStreamIsWhole`; this also
shows that the loop at the end of `subscribe`, which flushes a tail the sentinel overtook,
never has anything to yield, and the model leaves it out); a finished run that nobody
watches has its timer armed (`IdleRunWillBeEvicted`); the clients of a run that ended with
a status are released (`SubscribersReleased`), since it leaves the sentinel last in the
queue of every client that is live (`NobodyWaitsForever`; the comment in the code promises
it of every task, and `agent_run_stuck` shows the task for which it is not so).

Properties of `chat_transport`: body, sockets, reconnects and restarts together
implement `OrderedStream` (`ImplementsOrderedStream`, a refinement: `sent` is the length of the
replay buffer, `closed` whether it has its `[DONE]`, `got` the numbers of the events
handed over); once no run goes on, the caller's loop, which reads to the end of its stream,
ends (`ReaderEnds`; a run that was cancelled before it began is left out, since
`agent_run_stuck` shows that its clients do wait).

Properties of `doc_editor`: no autosave, restore or late PUT replaces a version the agent
wrote (`AiVersionsKept`); what the user typed last in an open document stays in its tab or
its editor but for the steps the property names (`TypedTextKept`: closing the tab, an
agent's update or edit, the version panel, a restore, a fresh load or an export's answer
for the document, and the end of a closing or the reopening of a panel that slides out);
no text comes under another document but by the animation, the version panel and a save
answered when its textarea is gone (`TextsStayHome`). The last two say exactly which steps
of the code do lose or misplace a text -- they are hazards in `PROJECT.json` -- and that
no order of all the others does.

### Where code and documents disagree

Five runs show a disagreement, each quoted in `PROJECT.json`:
a decision lost between `recv` and the checkpoint of the submit step; two events for
one submission, from a request and the submit step that both look before either adds; a second
click because POST_SUBMISSION is missing from the status guard; a client that waits for ever for
a run that was cancelled before it began to drain; an export of an older text than the editor
shows, because the flush compares the textarea with the tab's entry and not with what was saved
(form-backed PDFs, which are the documents the server renders).

The following are behaviours of the models too, without a run of their own. Of
these a line of the repository says otherwise:

* the engine's click is dispatched before the review gate is asked
  (`app/routers/remote.py:478`), though the docstring of `_deliver_decision` says that
  "the user can never submit over unreviewed material" (lines 537-538);
* a submission recorded while a pre-fill has written its row and not yet returned is
  taken off the row by `_sync_status` (`application/services/agent_loop.py:2450`), one
  recorded while the material is generated by `_link_variant` (line 2079); the event
  stays. The docstring of `core/state_machine.py` (lines 3-4) allows only legal moves.
  This is `TakenBack` above;
* an unreadable `_queues.json` loses every slot in it (`checkpoint_shim.py:735`), though
  the queues are said to survive a restart;
* a document panel opened again within 200 ms comes back with a blank textarea
  (`workspace/static/js/document.js:5617`), and the next change of tab or autosave puts
  the blank over what was typed. The comment of the dock's restore (lines 5553-5556) says
  that the saved content is rendered again. Opening ANOTHER document at that moment even
  deletes the first, because its title is blank in the new panel as well; the model has
  only its lost text.

And these no line of the repository denies:

* a decision recorded by the request handler (`app/routers/remote.py:553`) leaves a pipeline that
  no tick resumes: its slot and session are not given back;
* the tick after a user's own resume tears down the session that resume has
  left alive (`application/services/agent_loop.py:1204`);
* a user's resume beside a pass of the tick (`app/routers/remote.py:211`) writes a whole
  row from a stale copy and moves the status where no legal moves lead. `Pipeline` has a
  constant `Overlap` for it: the run has `Overlap = FALSE`, with `TRUE` `FollowsLifecycle`
  fails;
* a save that is answered after its textarea was removed, by a closing of the panel, writes
  that textarea's text into the document shown by then (`document.js:7866`).

### Fairness

`Pipeline` assumes that the tick comes again and a pass runs to its end (weak
fairness of `Pass`: `_scheduler_loop` is an endless loop whose exceptions are
caught), that an accepted request is served, and that a supervisor restarts the
process. Resuming has strong fairness: without it a user who resumes again and
again between ticks could keep the tick away, which the code's tick does not allow, since it
does not wait for requests. Nothing is assumed of the user, of other applications or of
faults. `FinalSubmit` assumes that a thread that serves a call goes on.

`AgentRuns` and `ChatTransport` assume of both event loops that they run what is
ready -- a task that may go on, a generator whose client reads, a due timer, a
frame that has arrived -- and of a socket that is being opened that it opens,
times out or closes, and of one whose server is gone that it closes. Nothing is
assumed of the model that writes the answer, of the network or of the user: an
answer may hang, which is why `SubscribersReleased` and `ReaderEnds` start from a run
that is over. `DurableQueues`, `Lease` and `DocEditor` have no liveness property and no fairness; in
particular nobody is assumed to claim a workflow.

Runs of systems that may rest switch the deadlock check off.

## What is proved

All theorems hold for every value of the constants under the named assumptions
of the modules (`QueuesAssumption`, `PipelineAssumption`, `FinalSubmitAssumption`,
`LeaseAssumption`, `AgentRunsAssumption`, `ChatTransportAssumption`,
`DocEditorAssumption`), which only give the constants their types.

* `DurableQueuesProofs`: `TypeCorrect`, `HoldersDurable`, `NeverMoreThanTheCap`,
  `NoSlotIdles`, `FirstComeFirstServed`, `RateLimited`. The second and the third assume
  `OneQueueAtATime`: one queue, as in production, whether or not calls overlap, or
  several whose operations do not. Being told of a slot comes after the
  write, so "holders are on disk" is not inductive by itself. `QueueInv` adds that
  at most one operation is under way (`Serial`), that a dump which was taken is
  still what the memory holds (`Snapshot`: this is what overlapping operations
  break), that the work an operation will tell is active (`Announced`), that a
  dead process has no operation (`Quiescent`) and that the caps hold in memory
  and in the file (`CapsHold`, with lemmas on the cardinality of a slot given
  and taken). An unreadable file empties `holds` with the file, so both hold from there on.
  The other three need no such assumption. `BusyInv` says of the memory, of the file
  and of every snapshot on its way that in a queue without a rate limit a waiter waits
  for a full queue, holds no slot and stands in the FIFO once; so the head of the FIFO
  is always the one promoted. `RateInv` adds to the rolling window that no admission is
  dated in the future (`Counted`): then what the limiter counts now holds every admission that
  shares a window with the next one. A restart forgets `admit_times`, so the bound is one process's.
* `PipelineProofs`: `PipelineTypeCorrect` (with `Tries`: a pass of the tick began
  below its cap, so one more failure cannot pass it), `SubmitsPastEveryGate`
  (`GateInv` says for each place of the pass which steps must be checkpointed
  and that the review, once passed, cannot be reopened while the pass goes on), `OutcomesMatch`
  (`OutcomeInv`), `ImplementsLifecycle` and `MailboxKept`, these three for `Overlap = FALSE`.
  With `Overlap = TRUE` they do not hold: TLC finds a pass whose stale write
  puts a submitted row back at a hand-off. `OutcomeInv` says what a copy of the row is still
  worth when it is used: it holds but for a submission that somebody else has recorded
  (`PassKnowsRow` for the pass, `FileKnowsRow` for the checkpoint, `RequestKnowsRow` for a
  request), no pre-fill is under way over a submitted row, and once pre-fill has landed at
  the final approval the row stays there or past it. `AgreementLasts` draws from it that
  row and event part only by `TakenBack`.
  `ImplementsLifecycle` is the refinement of `Lifecycle`: one doubling keeps a relation and joins
  two of its steps (`DoubledSteps`), so the walks that pre-fill takes (`WalkedMoves`) are in the
  closure (`ReachableOf`), and every step of the pipeline lands at the end of one of them or of
  a single legal move (`LandingStep`). `MailboxKept`
  rests on `DeliveryInv`, which says what three copies know of a row that no longer awaits
  its final approval: the checkpoint (`FileIsTrue`), the verdict a pass is about to apply
  (`VerdictIsTrue`) and the decision in its hands (`HandIsTrue`). Without them
  `_apply_outcome` could clear a checkpoint under an application that still waits.
* `FinalSubmitProofs`: `FinalSubmitTypeCorrect`, `RowAndOutcomeAgree`, `AnswersAreTrue`,
  `EmergencyStaysWithUser`, `OutcomeIsFinal`, for any number of callers. The invariant is
  `Knows(c)`: a caller commits only a copy from the gate that may move to its terminal
  status, an event lies behind every caller past its commit, and while the row shows an
  emergency hand-off no copy shows a final approval. `OutcomeIsFinal` follows from it too:
  a caller that has not looked yet will find the event. `SerialCallsRecordInOneStep` (for
  calls that do not overlap) is why `Pipeline` may take `record_submission` as one step:
  the row and the one event change together, from the gate, by a legal move.
  `GuardHasAHolder` is the safety half of `GuardReleased`: a guard that is set has a
  caller between its claim and its `finally`, so it is enough that this caller goes on.
* `LeaseProofs`: `LeaseTyped`, `LeaseIsExclusive`, `LeaseFileIsSafe`, for any numbers of
  processes, threads and kills and any TTL. `LeaseInv`: a thief in the middle of a theft
  is the one that holds the marker; an owner's lease is its own and fresh; what a thief is
  about to unlink is expired. The second look at the age, under the marker, is what
  carries the last part. `MarkerIsNotLeft` proves `MarkerHeld` from the same invariant.
* `AgentRunsProofs`: `RunsTyped`, `SubscribersInOrder`, `StreamsEndWhole`,
  `IdleRunsAreEvicted`, `FinishedRunsWakeTheirClients`, for any number of runs, events and
  clients. `RunOK` says that `[DONE]` is a buffer's last event and that no event is
  numbered like the sentinel. `SubOK` is the heart: a subscriber's queue holds exactly the
  last events of the buffer, in order, perhaps with the sentinel behind them; a subscriber
  that went live is nowhere before what its queue begins with. Order, wholeness and the
  absence of duplicates follow from it, and so does that no client skips the sentinel.
* `ChatTransportProofs`: `TransportTyped` and `TransportIsOrdered`, the refinement of
  `OrderedStream`, for any number of connections, events, reconnects and restarts. It
  builds on `SubOK`: `ConnOK` says that what is on a connection's wire goes on where the
  reader is, that the generator goes on where the wire ends, and that a resume offset is
  what was received; `ClientOK` that what the caller was given and what is queued for it
  are the run's events from the first one on. A caller that was given `[DONE]` has
  therefore been given all there is, and one that reads on after it is given nothing more.
  With that every step delivers at most the next event, grows the buffer, or stutters.
* `DocEditorProofs`: `EditorTyped`, `AgentVersionsAreKept`, `TypedTextIsKept`,
  `TextsStay`, for any number of documents, PUTs, faults and any session. A version
  leaves the history only by `ServerPut`, in place, and only from the last place. `DocInv`
  adds to the types that the document shown has a tab, that an open panel shows one
  and a closed one none (`Shows`), and that every document has a
  version. `AtHome` is inductive over all steps but the five it excepts, because it also
  speaks of the answer to a GET that is still to be shown: without that part a
  foreign text could wait there while everything else came home.

Only model-checked: what is liveness (`WaitingAppYields`, `FailedPassReclaims`,
`ReviewedIsRequested`, `SurvivingDecisionRecorded`, `GuardReleased`,
`SubscribersReleased`, `ReaderEnds`), which the
prover cannot do. Every invariant and every action property of the passing runs is a
theorem.

## What is not modelled

Listed with reasons in `PROJECT.json`. In short: what language models write and
what pages contain is data behind nondeterministic choices (where pre-fill lands,
what material is generated); ranking, learning, chat, setup, tailoring and
reports keep no protocol with the pipeline; the DBOS back-end delegates to a
library outside the repository. Admission of several applications, the
ladder, post-submission and take-over are the next modules of the plan.

In `AgentRuns`, a third send that cuts the chain of waiting saves. In
`ChatTransport`, a second send of the same session from another tab: the resume offset names no
run, so a reconnect then skips that many events of the other run. In `DocEditor`,
e-mail drafts and a form's page view (their textarea is not their text), creation, the
diff view, the list of a chat's documents, and a panel closed, reopened and closed again
within 200 ms; that closing a tab loses what was typed in its last two seconds, and that an
autosave may save a previewed version, are in the model and named as hazards,
but no property speaks of them.

The rest of the front-end -- some 200,000 lines in `workspace/` and `frontend/`, two
nearly equal copies -- is views, forms, settings, lists and galleries that render a
response or post a form. They keep no state across two requests that another actor
changes, so a model of them would restate the code line by line and no property would be
at stake. The chat's transport and the document editor are the parts of it where that is
not so, and they are modelled from the copy in `workspace/`.
