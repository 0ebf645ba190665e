----------------------------- MODULE AgentRuns -----------------------------
(***************************************************************************)
(* The detached agent runs of one chat session (workspace/src/             *)
(* agent_runs.py).  A task drains the answer into a replay buffer; every   *)
(* connected client is a subscriber that replays the buffer and then goes  *)
(* live.  A run outlives its clients; a second send cancels the first run  *)
(* and waits for it; a finished run is evicted after a grace period.       *)
(*                                                                         *)
(* asyncio runs one callback at a time, so a step is what happens between  *)
(* two awaits.  Task.cancel() is a request: CancelledError is raised when  *)
(* the task runs next, and a task that has not begun never begins.         *)
(***************************************************************************)
EXTENDS Naturals, Sequences, FiniteSets, SequencesExt

CONSTANTS MaxRuns,  \* bound: sends in the session
          MaxText,  \* bound: events of a run before its [DONE]
          Subs      \* subscribers (one generator of subscribe() each)

ASSUME AgentRunsAssumption ==
  MaxRuns \in Nat \ {0} /\ MaxText \in Nat \ {0} /\ IsFiniteSet(Subs)

VARIABLES current,  \* _RUNS[session]: a run, or 0
          started,  \* runs started so far
          run,      \* the _Run objects and their tasks
          sub       \* the subscribe() generators

runsVars == <<current, started, run, sub>>

Runs == 1 .. MaxRuns
End  == MaxText + 2   \* (None, None), the sentinel in a subscriber's queue

(* `buf` is the replay buffer, `after` the task it waits for (0: none),     *)
(* `cancel` a requested cancellation, `timer` an armed evict_task.         *)
RunStates ==
  [status : {"running", "done", "error", "stopped"},
   task   : {"none", "created", "waiting", "draining", "closing", "ended"},
   after  : 0 .. MaxRuns, cancel : BOOLEAN, timer : BOOLEAN,
   buf    : Seq({"text", "DONE"})]

(* `next` is next_seq; `q` the asyncio.Queue, of sequence numbers.          *)
SubStates ==
  [at : {"off", "replay", "live", "flushed"}, run : 0 .. MaxRuns,
   next : Nat, q : Seq(0 .. End)]

RunsTypeOK ==
  /\ current \in 0 .. MaxRuns /\ started \in 0 .. MaxRuns
  /\ run \in [Runs -> RunStates]
  /\ sub \in [Subs -> SubStates]

NotStarted == [status |-> "running", task |-> "none", after |-> 0,
               cancel |-> FALSE, timer |-> FALSE, buf |-> <<>>]
Off == [at |-> "off", run |-> 0, next |-> 0, q |-> <<>>]

RunsInit ==
  /\ current = 0 /\ started = 0
  /\ run = [r \in Runs |-> NotStarted]
  /\ sub = [s \in Subs |-> Off]

-----------------------------------------------------------------------------
Subscribers(r) == {s \in Subs : sub[s].at # "off" /\ sub[s].run = r}
Terminal(r)    == run[r].status # "running"
Unfinished(r)  == run[r].task \notin {"none", "ended"}
Complete(r)    == \E i \in DOMAIN run[r].buf : run[r].buf[i] = "DONE"

(* _schedule_evict: the timer of whichever run is the session's now.       *)
Rearmed(runs) == [r \in Runs |-> IF r = current THEN [runs[r] EXCEPT !.timer = TRUE] ELSE runs[r]]

(* q.put_nowait, for every subscriber of run r.                            *)
Put(r, items) ==
  [s \in Subs |-> IF s \in Subscribers(r) THEN [sub[s] EXCEPT !.q = @ \o items] ELSE sub[s]]

(* start: a run in flight is cancelled, and waited for by the new task.    *)
Start ==
  /\ started < MaxRuns
  /\ started' = started + 1 /\ current' = started + 1
  /\ LET inFlight == current # 0 /\ Unfinished(current)
         new == [NotStarted EXCEPT !.task = "created", !.after = IF inFlight THEN current ELSE 0]
         stopping == IF current = 0 THEN run
                     ELSE [run EXCEPT ![current].cancel = @ \/ inFlight, ![current].timer = FALSE]
     IN run' = [stopping EXCEPT ![started + 1] = new]
  /\ UNCHANGED sub

(* stop: the Stop button.                                                  *)
Stop ==
  /\ current # 0 /\ Unfinished(current)
  /\ run' = [run EXCEPT ![current].cancel = TRUE]
  /\ UNCHANGED <<current, started, sub>>

(* _drain begins, and waits for the run it replaced.                       *)
Begin(r) ==
  /\ run[r].task = "created" /\ ~run[r].cancel
  /\ run' = [run EXCEPT ![r].task = IF run[r].after # 0 /\ Unfinished(run[r].after)
                                    THEN "waiting" ELSE "draining"]
  /\ UNCHANGED <<current, started, sub>>

Resume(r) ==
  /\ run[r].task = "waiting" /\ ~run[r].cancel /\ ~Unfinished(run[r].after)
  /\ run' = [run EXCEPT ![r].task = "draining"]
  /\ UNCHANGED <<current, started, sub>>

(* Cancelled before the `try`: nothing of the handlers is run.             *)
CancelEarly(r) ==
  /\ run[r].task \in {"created", "waiting"} /\ run[r].cancel
  /\ run' = [run EXCEPT ![r].task = "ended", ![r].cancel = FALSE]
  /\ UNCHANGED <<current, started, sub>>

Draining(r) == run[r].task = "draining" /\ ~run[r].cancel

\* Slip: [DONE] is not the last event.
PublishAfterDone(r, kind) ==
  /\ Draining(r)
  /\ kind = "text" => Len(run[r].buf) < MaxText
  /\ run' = [run EXCEPT ![r].buf = Append(@, kind)]
  /\ sub' = Put(r, <<Len(run[r].buf)>>)
  /\ UNCHANGED <<current, started>>

\* Slip: the sentinel comes with [DONE], while the task still runs.
PublishEndEarly(r, kind) ==
  /\ Draining(r) /\ ~Complete(r)
  /\ kind = "text" => Len(run[r].buf) < MaxText
  /\ run' = [run EXCEPT ![r].buf = Append(@, kind)]
  /\ sub' = Put(r, <<Len(run[r].buf)>> \o IF kind = "DONE" THEN <<End>> ELSE <<>>)
  /\ UNCHANGED <<current, started>>

(* _publish: append, and fan out with the event's number.                  *)
Publish(r, kind) ==
  /\ Draining(r) /\ ~Complete(r)
  /\ kind = "text" => Len(run[r].buf) < MaxText
  /\ run' = [run EXCEPT ![r].buf = Append(@, kind)]
  /\ sub' = Put(r, <<Len(run[r].buf)>>)
  /\ UNCHANGED <<current, started>>

\* Slip: a task ends without the sentinel.
EndedSilently(r, changed, items) ==
  /\ run' = Rearmed([run EXCEPT ![r] = [changed EXCEPT !.task = "ended", !.cancel = FALSE]])
  /\ sub' = Put(r, items)
  /\ UNCHANGED <<current, started>>

(* The `finally` of _drain: the sentinel for everyone, the grace timer.    *)
Ended(r, changed, items) ==
  /\ run' = Rearmed([run EXCEPT ![r] = [changed EXCEPT !.task = "ended", !.cancel = FALSE]])
  /\ sub' = Put(r, Append(items, End))
  /\ UNCHANGED <<current, started>>

Finish(r) ==
  /\ Draining(r) /\ Complete(r)
  /\ Ended(r, [run[r] EXCEPT !.status = "done"], <<>>)

(* The generator raises: an error event and a [DONE] are published.        *)
Fail(r) ==
  /\ Draining(r) /\ ~Complete(r)
  /\ LET n == Len(run[r].buf)
     IN Ended(r, [run[r] EXCEPT !.status = "error", !.buf = @ \o <<"text", "DONE">>], <<n, n + 1>>)

(* Cancelled while draining: aclose() lets the generator save its partial  *)
(* answer; a second cancellation only cuts that short.                     *)
CancelDrain(r) ==
  /\ run[r].task = "draining" /\ run[r].cancel
  /\ run' = [run EXCEPT ![r].status = "stopped", ![r].task = "closing", ![r].cancel = FALSE]
  /\ UNCHANGED <<current, started, sub>>

CloseGenerator(r) ==
  /\ run[r].task = "closing"
  /\ Ended(r, run[r], <<>>)

(* _evict: identity-checked, and never under a subscriber.                 *)
Evict(r) ==
  /\ run[r].timer
  /\ run' = [run EXCEPT ![r].timer = FALSE]
  /\ current' = IF r = current /\ Terminal(r) /\ Subscribers(r) = {} THEN 0 ELSE current
  /\ UNCHANGED <<started, sub>>
-----------------------------------------------------------------------------
(* subscribe: register first, so that nothing published meanwhile is lost. *)
Subscribe(s) ==
  /\ sub[s].at = "off" /\ current # 0
  /\ sub' = [sub EXCEPT ![s] = [at |-> "replay", run |-> current, next |-> 0, q |-> <<>>]]
  /\ run' = [run EXCEPT ![current].timer = FALSE]
  /\ UNCHANGED <<current, started>>

Behind(s)     == sub[s].next < Len(run[sub[s].run].buf)
Queued(s)     == sub[s].at = "live" /\ sub[s].q # <<>>

\* Slip: every queued event is yielded, those replayed from the buffer too.
TakeAny(s) ==
  /\ Queued(s) /\ Head(sub[s].q) # End
  /\ sub' = [sub EXCEPT ![s].q = Tail(@), ![s].next = Head(sub[s].q) + 1]
  /\ UNCHANGED <<current, started, run>>

(* What yields event `next'` to the client: the replay, and the live queue *)
(* without what was replayed already.  The loop that flushes a tail which  *)
(* the sentinel overtook is left out: EndedStreamIsWhole shows that it     *)
(* finds nothing to yield.                                                 *)
Replay(s) ==
  /\ sub[s].at = "replay" /\ Behind(s)
  /\ sub' = [sub EXCEPT ![s].next = @ + 1]
  /\ UNCHANGED <<current, started, run>>

TakeLive(s) ==
  /\ Queued(s) /\ Head(sub[s].q) # End /\ Head(sub[s].q) >= sub[s].next
  /\ sub' = [sub EXCEPT ![s].q = Tail(@), ![s].next = Head(sub[s].q) + 1]
  /\ UNCHANGED <<current, started, run>>

Yield(s) == Replay(s) \/ TakeLive(s)

(* Silent steps of the generator.                                          *)
GoLive(s) ==
  /\ sub[s].at = "replay" /\ ~Behind(s) /\ ~Terminal(sub[s].run)
  /\ sub' = [sub EXCEPT ![s].at = "live"]
  /\ UNCHANGED <<current, started, run>>

SkipReplayed(s) ==
  /\ Queued(s) /\ Head(sub[s].q) < sub[s].next
  /\ sub' = [sub EXCEPT ![s].q = Tail(@)]
  /\ UNCHANGED <<current, started, run>>

SeeSentinel(s) ==
  /\ Queued(s) /\ Head(sub[s].q) = End
  /\ sub' = [sub EXCEPT ![s].q = Tail(@), ![s].at = "flushed"]
  /\ UNCHANGED <<current, started, run>>

Silent(s) == GoLive(s) \/ SkipReplayed(s) \/ SeeSentinel(s)

\* Slip: the last subscriber leaves without arming the timer again.
LeaveUnarmed(s) ==
  /\ sub' = [sub EXCEPT ![s] = Off]
  /\ UNCHANGED <<current, started, run>>

(* The `finally` of subscribe: the last one to leave arms the timer.       *)
Leave(s) ==
  /\ sub' = [sub EXCEPT ![s] = Off]
  /\ run' = IF Subscribers(sub[s].run) = {s} /\ Terminal(sub[s].run) THEN Rearmed(run) ELSE run
  /\ UNCHANGED <<current, started>>

AtEnd(s) ==
  \/ sub[s].at = "flushed"
  \/ sub[s].at = "replay" /\ ~Behind(s) /\ Terminal(sub[s].run)

Return(s) == AtEnd(s) /\ Leave(s)

(* aclose(): the client went away.                                         *)
CloseSub(s) == sub[s].at # "off" /\ Leave(s)

-----------------------------------------------------------------------------
Drain(r) ==
  \/ Begin(r) \/ Resume(r) \/ CancelEarly(r)
  \/ \E kind \in {"text", "DONE"} : Publish(r, kind)
  \/ Finish(r) \/ Fail(r) \/ CancelDrain(r) \/ CloseGenerator(r)

RunsNext ==
  \/ Start \/ Stop
  \/ \E r \in Runs : Drain(r) \/ Evict(r)
  \/ \E s \in Subs : Subscribe(s) \/ Yield(s) \/ Silent(s) \/ Return(s) \/ CloseSub(s)

RunsSpec == RunsInit /\ [][RunsNext]_runsVars

(* The event loop runs what is ready: a cancelled task, its `finally`, a   *)
(* generator whose client reads, a timer.  Nothing is assumed of the model *)
(* that writes the answer, nor of the clients.                             *)
RunsFairness ==
  /\ \A r \in Runs : WF_runsVars(Begin(r) \/ Resume(r) \/ CancelEarly(r) \/ Finish(r)
                                  \/ CancelDrain(r) \/ CloseGenerator(r))
  /\ \A r \in Runs : WF_runsVars(Evict(r))
  /\ \A s \in Subs : WF_runsVars(Yield(s) \/ Silent(s) \/ Return(s))

RunsLiveSpec == RunsSpec /\ RunsFairness

-----------------------------------------------------------------------------
(* A subscriber is given every event of its run once and in order, however *)
(* its replay, the live queue and the sentinel interleave (subscribe).     *)
GivenInOrder ==
  [][\A s \in Subs : sub[s].at # "off" /\ sub'[s].at # "off" /\ sub'[s].next # sub[s].next
       => sub'[s].next = sub[s].next + 1]_runsVars

(* A stream that the server ends was whole: all of a buffer that never     *)
(* grows again (the sentinel, the early return after a replay).            *)
EndedStreamIsWhole ==
  [][\A s \in Subs : sub[s].at # "off" /\ sub'[s].at = "off" /\ AtEnd(s)
       => /\ sub[s].next = Len(run[sub[s].run].buf)
          /\ ~Draining(sub[s].run)]_runsVars

(* A finished run that nobody watches is on its way out of memory: its     *)
(* timer is armed whoever came and went since (_schedule_evict).           *)
IdleRunWillBeEvicted ==
  current # 0 /\ run[current].task = "ended" /\ Terminal(current) /\ Subscribers(current) = {}
    => run[current].timer

(* Once a run has ended with a status, all its clients' streams end.       *)
SubscribersReleased ==
  \A s \in Subs, r \in Runs :
    (sub[s].at # "off" /\ sub[s].run = r /\ Terminal(r)) ~> (sub[s].at = "off" \/ sub[s].run # r)

(* As much of the next as the code keeps: when a task is over and left its *)
(* run a status, the last thing in the queue of every live client is the   *)
(* sentinel.  No client waits on a queue that nobody writes to any more.   *)
NobodyWaitsForever ==
  \A s \in Subs : sub[s].at = "live" /\ run[sub[s].run].task = "ended" /\ Terminal(sub[s].run)
                   => sub[s].q # <<>> /\ Last(sub[s].q) = End

(* When a task is over, every client that follows it has the sentinel in   *)
(* its queue (the comment on the `finally` of _drain).                     *)
SubscribersAreWoken ==
  \A s \in Subs : sub[s].at = "live" /\ run[sub[s].run].task = "ended"
                   => End \in {sub[s].q[i] : i \in DOMAIN sub[s].q}
=============================================================================
