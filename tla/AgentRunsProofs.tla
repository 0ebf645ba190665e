-------------------------- MODULE AgentRunsProofs --------------------------
(***************************************************************************)
(* Proofs about AgentRuns, for any number of runs, events and subscribers. *)
(***************************************************************************)
EXTENDS AgentRuns, SequenceTheorems, TLAPS

(* A run's task, status and buffer: [DONE] comes last, and no event is     *)
(* numbered like the sentinel.                                             *)
RunOK(r) ==
  /\ run[r].task \in {"none", "created", "waiting", "draining"} => run[r].status = "running"
  /\ r > started => run[r] = NotStarted
  /\ Len(run[r].buf) <= MaxText + 2
  /\ ~Complete(r) => Len(run[r].buf) <= MaxText
  /\ \A i \in 1 .. Len(run[r].buf) : run[r].buf[i] = "DONE" => i = Len(run[r].buf)

(* The queue of a subscriber: the last events of the buffer, then perhaps  *)
(* the sentinel, which only an ended task sends; a subscriber that is live *)
(* has seen what came before them.                                         *)
Sentinels(q) == IF q # <<>> /\ q[Len(q)] = End THEN 1 ELSE 0
EndIsLast(q) == \A i \in 1 .. Len(q) : q[i] = End => i = Len(q)
LastOf(q, n) == \A i \in 1 .. Len(q) : q[i] # End => q[i] + Len(q) + 1 = n + Sentinels(q) + i

SubOK(s) ==
  sub[s].at # "off" =>
    LET q == sub[s].q
        n == Len(run[sub[s].run].buf)
    IN /\ sub[s].run \in 1 .. started
       /\ sub[s].next <= n
       /\ EndIsLast(q) /\ LastOf(q, n)
       /\ Sentinels(q) = 1 => run[sub[s].run].task = "ended"
       /\ sub[s].at = "live" => sub[s].next + Len(q) >= n + Sentinels(q)
       /\ sub[s].at = "flushed" => run[sub[s].run].task = "ended" /\ sub[s].next >= n

RunsInv ==
  /\ RunsTypeOK
  /\ current <= started
  /\ \A r \in Runs : RunOK(r)
  /\ \A s \in Subs : SubOK(s)

LEMMA RunsInitInv == RunsInit => RunsInv
<1> SUFFICES ASSUME RunsInit PROVE RunsInv
  OBVIOUS
<1>1. NotStarted \in RunStates
  BY AgentRunsAssumption DEF NotStarted, RunStates, AgentRunsAssumption
<1>2. Off \in SubStates
  BY AgentRunsAssumption DEF Off, SubStates, AgentRunsAssumption
<1>3. RunsTypeOK
  BY <1>1, <1>2, AgentRunsAssumption DEF RunsInit, RunsTypeOK, AgentRunsAssumption
<1>4. ASSUME NEW r \in Runs PROVE RunOK(r)
  BY <1>1, AgentRunsAssumption DEF RunsInit, RunOK, NotStarted, AgentRunsAssumption
<1>5. ASSUME NEW s \in Subs PROVE SubOK(s)
  BY DEF RunsInit, SubOK, Off
<1> QED
  BY <1>3, <1>4, <1>5, AgentRunsAssumption DEF RunsInv, RunsInit, AgentRunsAssumption

(* A subscriber that a step leaves alone, whose run's buffer it leaves     *)
(* alone, stays right.                                                     *)
LEMMA SubFrame ==
  ASSUME RunsTypeOK, NEW s \in Subs, SubOK(s), sub'[s] = sub[s],
         started' \in Nat, started <= started', started \in Nat,
         sub[s].at # "off" =>
           /\ run'[sub[s].run].buf = run[sub[s].run].buf
           /\ run[sub[s].run].task = "ended" => run'[sub[s].run].task = "ended"
  PROVE  SubOK(s)'
<1>1. CASE sub[s].at = "off"
  BY <1>1 DEF SubOK
<1>2. CASE sub[s].at # "off"
  <2>1. sub[s].run \in 1 .. started /\ sub[s].run \in 1 .. started'
    BY <1>2 DEF SubOK
  <2>2. run'[sub[s].run].buf = run[sub[s].run].buf
    BY <1>2
  <2> QED
    BY <1>2, <2>1, <2>2 DEF SubOK, Sentinels, EndIsLast, LastOf
<1> QED
  BY <1>1, <1>2

(* A step of a run that publishes nothing and does not undo an end.        *)
LEMMA QuietStep ==
  ASSUME RunsInv, NEW r \in Runs, NEW new \in RunStates,
         run' = [run EXCEPT ![r] = new], sub' = sub, started' = started,
         current' \in {0, current},
         new.buf = run[r].buf, run[r].task = "ended" => new.task = "ended",
         new.task \in {"none", "created", "waiting", "draining"} => new.status = "running",
         r > started => new = NotStarted
  PROVE  RunsInv'
<1> USE DEF RunsInv, RunsTypeOK
<1> USE AgentRunsAssumption DEF AgentRunsAssumption
<1>1. RunsTypeOK' /\ current' <= started'
  OBVIOUS
<1>2. ASSUME NEW k \in Runs PROVE RunOK(k)'
  <2>1. RunOK(k)
    OBVIOUS
  <2>2. CASE k = r
    <3>1. run'[r] = new
      OBVIOUS
    <3>2. run'[k].buf = run[k].buf
      BY <3>1, <2>2
    <3>3. k > started' => run'[k] = NotStarted
      BY <3>1, <2>2
    <3> QED
      BY <2>1, <2>2, <3>1, <3>2, <3>3 DEF RunOK, Complete
  <2>3. CASE k # r
    <3>1. run'[k] = run[k]
      BY <2>3
    <3> QED
      BY <2>1, <3>1 DEF RunOK, Complete
  <2> QED
    BY <2>2, <2>3
<1>3. ASSUME NEW s \in Subs PROVE SubOK(s)'
  <2>1. sub[s].at # "off" => sub[s].run \in Runs
    BY DEF SubOK, Runs
  <2>2. ASSUME NEW k \in Runs
        PROVE  run'[k].buf = run[k].buf /\ (run[k].task = "ended" => run'[k].task = "ended")
    OBVIOUS
  <2> QED
    BY <2>1, <2>2, SubFrame
<1> QED
  BY <1>1, <1>2, <1>3

LEMMA StartStep == RunsInv /\ Start => RunsInv'
<1> SUFFICES ASSUME RunsInv, Start PROVE RunsInv'
  OBVIOUS
<1> USE AgentRunsAssumption DEF AgentRunsAssumption, RunsInv, Runs
<1> DEFINE inFlight == current # 0 /\ Unfinished(current)
           new == [NotStarted EXCEPT !.task = "created", !.after = IF inFlight THEN current ELSE 0]
           stopping == IF current = 0 THEN run
                       ELSE [run EXCEPT ![current].cancel = @ \/ inFlight, ![current].timer = FALSE]
<1>0. started \in Nat /\ current \in 0 .. MaxRuns /\ started < MaxRuns /\ started' = started + 1
      /\ run \in [Runs -> RunStates]
  BY DEF Start, RunsTypeOK
<1>1. new \in RunStates /\ new.task = "created" /\ new.status = "running" /\ new.buf = <<>>
  <2>1. (IF inFlight THEN current ELSE 0) \in 0 .. MaxRuns
    BY <1>0
  <2> HIDE DEF inFlight
  <2>2. NotStarted \in RunStates
    BY DEF NotStarted, RunStates
  <2> QED
    BY <2>1, <2>2 DEF NotStarted, RunStates
<1>2. run' = [stopping EXCEPT ![started + 1] = new]
  BY DEF Start
<1> HIDE DEF new
<1>3. /\ stopping \in [Runs -> RunStates]
      /\ \A r \in Runs : /\ stopping[r].buf = run[r].buf /\ stopping[r].task = run[r].task
                         /\ stopping[r].status = run[r].status
                         /\ (r > started => stopping[r] = run[r])
  <2>1. CASE current = 0
    BY <1>0, <2>1
  <2>2. CASE current # 0
    <3> DEFINE c == run[current].cancel \/ inFlight
               held == [run[current] EXCEPT !.cancel = c, !.timer = FALSE]
    <3>1. c \in BOOLEAN
      OBVIOUS
    <3>2. current \in Runs /\ ~(current > started) /\ run[current] \in RunStates
      BY <1>0, <2>2
    <3>3. stopping = [run EXCEPT ![current] = held]
      BY <2>2, <3>2
    <3> HIDE DEF c
    <3>4. /\ held \in RunStates
          /\ held.buf = run[current].buf /\ held.task = run[current].task
          /\ held.status = run[current].status
      BY <3>1, <3>2 DEF RunStates
    <3> HIDE DEF held, stopping
    <3> QED
      BY <1>0, <3>2, <3>3, <3>4
  <2> QED
    BY <2>1, <2>2
<1> HIDE DEF stopping
<1>4. run'[started + 1] = new /\ \A r \in Runs : r # started + 1 => run'[r] = stopping[r]
  BY <1>0, <1>2, <1>3
<1>5. RunsTypeOK'
  <2>1. run' \in [Runs -> RunStates]
    BY <1>1, <1>2, <1>3, <1>4, <1>0
  <2> QED
    BY <2>1, <1>0 DEF Start, RunsTypeOK
<1>6. ASSUME NEW r \in Runs PROVE RunOK(r)'
  <2>1. CASE r = started + 1
    BY <2>1, <1>0, <1>1, <1>4 DEF RunOK, Complete
  <2>2. CASE r # started + 1
    <3>1. RunOK(r)
      OBVIOUS
    <3>2. r > started' => r > started
      BY <1>0
    <3>3. /\ run'[r].buf = run[r].buf /\ run'[r].task = run[r].task
          /\ run'[r].status = run[r].status /\ (r > started => run'[r] = run[r])
      <4>1. run'[r] = stopping[r]
        BY <2>2, <1>4
      <4> QED
        BY <4>1, <1>3
    <3> QED
      BY <3>1, <3>2, <3>3 DEF RunOK, Complete
  <2> QED
    BY <2>1, <2>2
<1>7. ASSUME NEW s \in Subs PROVE SubOK(s)'
  <2>1. sub[s].at # "off" => sub[s].run \in Runs /\ sub[s].run # started + 1
    BY <1>0 DEF SubOK
  <2>2. ASSUME sub[s].at # "off"
        PROVE  /\ run'[sub[s].run].buf = run[sub[s].run].buf
               /\ run'[sub[s].run].task = run[sub[s].run].task
    BY <2>1, <2>2, <1>3, <1>4
  <2>3. sub'[s] = sub[s] /\ SubOK(s) /\ started' \in Nat /\ started <= started'
    BY <1>0 DEF Start
  <2> QED
    BY <2>2, <2>3, <1>0, SubFrame
<1> QED
  BY <1>5, <1>6, <1>7, <1>0 DEF Start

LEMMA TaskSteps ==
  ASSUME RunsInv, NEW r \in Runs,
         Begin(r) \/ Resume(r) \/ CancelEarly(r) \/ CancelDrain(r) \/ Evict(r) \/ Stop
  PROVE  RunsInv'
<1> USE AgentRunsAssumption DEF AgentRunsAssumption
<1>0. /\ run \in [Runs -> RunStates] /\ run[r] \in RunStates /\ RunOK(r)
      /\ current \in 0 .. MaxRuns /\ started \in 0 .. MaxRuns /\ current <= started
  BY DEF RunsInv, RunsTypeOK
<1>1. CASE Begin(r) \/ Resume(r)
  <2>1. \E t \in {"waiting", "draining"} : run' = [run EXCEPT ![r] = [run[r] EXCEPT !.task = t]]
    BY <1>0, <1>1 DEF Begin, Resume
  <2>2. PICK t \in {"waiting", "draining"} : run' = [run EXCEPT ![r] = [run[r] EXCEPT !.task = t]]
    BY <2>1
  <2>3. run[r].task \in {"created", "waiting"} /\ r <= started /\ run[r].status = "running"
    BY <1>0, <1>1 DEF Begin, Resume, RunOK, NotStarted, Runs
  <2> DEFINE new == [run[r] EXCEPT !.task = t]
  <2>4. new \in RunStates /\ new.buf = run[r].buf /\ new.status = "running"
    BY <1>0, <2>2, <2>3 DEF RunStates
  <2>5. UNCHANGED <<current, started, sub>>
    BY <1>1 DEF Begin, Resume
  <2>6. ~(r > started) /\ run[r].task # "ended" /\ current' \in {0, current}
    BY <1>0, <2>3, <2>5 DEF Runs
  <2>7. run' = [run EXCEPT ![r] = new]
    BY <2>2
  <2> HIDE DEF new
  <2> QED
    BY <2>4, <2>5, <2>6, <2>7, QuietStep
<1>2. CASE CancelEarly(r)
  <2> DEFINE new == [run[r] EXCEPT !.task = "ended", !.cancel = FALSE]
  <2>1. run' = [run EXCEPT ![r] = new]
    BY <1>0, <1>2 DEF CancelEarly
  <2>2. new \in RunStates /\ new.buf = run[r].buf /\ new.task = "ended"
    BY <1>0 DEF RunStates
  <2>3. r <= started /\ UNCHANGED <<current, started, sub>>
    BY <1>0, <1>2 DEF CancelEarly, RunOK, NotStarted, Runs
  <2>4. ~(r > started) /\ current' \in {0, current}
    BY <1>0, <2>3 DEF Runs
  <2> HIDE DEF new
  <2> QED
    BY <2>1, <2>2, <2>3, <2>4, QuietStep
<1>3. CASE CancelDrain(r)
  <2> DEFINE new == [run[r] EXCEPT !.status = "stopped", !.task = "closing", !.cancel = FALSE]
  <2>1. run' = [run EXCEPT ![r] = new]
    BY <1>0, <1>3 DEF CancelDrain
  <2>2. new \in RunStates /\ new.buf = run[r].buf /\ new.task = "closing"
    BY <1>0 DEF RunStates
  <2>3. r <= started /\ run[r].task = "draining" /\ UNCHANGED <<current, started, sub>>
    BY <1>0, <1>3 DEF CancelDrain, RunOK, NotStarted, Runs
  <2>4. ~(r > started) /\ current' \in {0, current}
    BY <1>0, <2>3 DEF Runs
  <2> HIDE DEF new
  <2> QED
    BY <2>1, <2>2, <2>3, <2>4, QuietStep
<1>4. CASE Evict(r)
  <2> DEFINE new == [run[r] EXCEPT !.timer = FALSE]
  <2>1. run' = [run EXCEPT ![r] = new]
    BY <1>0, <1>4 DEF Evict
  <2>2. new \in RunStates /\ new.buf = run[r].buf /\ new.task = run[r].task /\ new.status = run[r].status
    BY <1>0 DEF RunStates
  <2>3. r <= started /\ UNCHANGED <<started, sub>> /\ current' \in {0, current}
    BY <1>0, <1>4 DEF Evict, RunOK, NotStarted, Runs
  <2>4. /\ ~(r > started)
        /\ new.task \in {"none", "created", "waiting", "draining"} => new.status = "running"
        /\ run[r].task = "ended" => new.task = "ended"
    BY <1>0, <2>2, <2>3 DEF Runs, RunOK
  <2> HIDE DEF new
  <2> QED
    BY <2>1, <2>2, <2>3, <2>4, QuietStep
<1>5. CASE Stop
  <2> DEFINE new == [run[current] EXCEPT !.cancel = TRUE]
  <2>0. current \in Runs /\ RunOK(current) /\ run[current] \in RunStates
    BY <1>0, <1>5 DEF Stop, Runs, RunsInv
  <2>1. run' = [run EXCEPT ![current] = new]
    BY <1>0, <1>5, <2>0 DEF Stop
  <2>2. /\ new \in RunStates /\ new.buf = run[current].buf
        /\ new.task = run[current].task /\ new.status = run[current].status
    BY <2>0 DEF RunStates
  <2>3. UNCHANGED <<current, started, sub>>
    BY <1>5 DEF Stop
  <2>4. /\ ~(current > started) /\ current' \in {0, current}
        /\ new.task \in {"none", "created", "waiting", "draining"} => new.status = "running"
        /\ run[current].task = "ended" => new.task = "ended"
    BY <1>0, <2>0, <2>2, <2>3 DEF RunOK
  <2> HIDE DEF new
  <2> QED
    BY <2>0, <2>1, <2>2, <2>3, <2>4, QuietStep
<1> QED
  BY <1>1, <1>2, <1>3, <1>4, <1>5

(* A queue without the sentinel that is sent the rest of a longer buffer.  *)
LEMMA QueueGrows ==
  ASSUME NEW q \in Seq(0 .. End), NEW items \in Seq(0 .. End), items # <<>>, End \in Nat,
         NEW n \in Nat, NEW m \in Nat,
         Len(items) = m - n + Sentinels(items),
         EndIsLast(q), Sentinels(q) = 0, LastOf(q, n), EndIsLast(items), LastOf(items, m)
  PROVE  /\ q \o items \in Seq(0 .. End) /\ Len(q \o items) = Len(q) + Len(items)
         /\ Sentinels(q \o items) = Sentinels(items)
         /\ EndIsLast(q \o items) /\ LastOf(q \o items, m)
<1> DEFINE qi == q \o items
<1>0. Len(q) \in Nat /\ Len(items) \in Nat /\ Len(items) > 0
  BY LenProperties, EmptySeq
<1>1. (\A i \in 1 .. Len(q) : q[i] \in Nat) /\ (\A i \in 1 .. Len(items) : items[i] \in Nat)
  <2>1. \A j \in 0 .. End : j \in Nat
    OBVIOUS
  <2> QED
    BY <2>1, ElementOfSeq
<1>2. /\ qi \in Seq(0 .. End) /\ Len(qi) = Len(q) + Len(items)
      /\ \A i \in 1 .. Len(q) + Len(items) : qi[i] = IF i <= Len(q) THEN q[i] ELSE items[i - Len(q)]
  BY ConcatProperties
<1> HIDE DEF qi
<1>a. Len(qi) = Len(q) + Len(items)
  BY <1>2
<1>b. \A i \in 1 .. Len(qi) : i <= Len(q) => i \in 1 .. Len(q) /\ qi[i] = q[i]
  BY <1>0, <1>2
<1>c. \A i \in 1 .. Len(qi) : ~(i <= Len(q)) => i - Len(q) \in 1 .. Len(items) /\ qi[i] = items[i - Len(q)]
  <2> SUFFICES ASSUME NEW i \in 1 .. Len(qi), ~(i <= Len(q))
               PROVE  i - Len(q) \in 1 .. Len(items) /\ qi[i] = items[i - Len(q)]
    OBVIOUS
  <2>1. i \in 1 .. Len(q) + Len(items)
    BY <1>a
  <2>2. i - Len(q) \in 1 .. Len(items)
    BY <1>0, <2>1
  <2>3. qi[i] = IF i <= Len(q) THEN q[i] ELSE items[i - Len(q)]
    BY <1>2, <2>1
  <2> QED
    BY <2>2, <2>3
<1>3. \A i \in 1 .. Len(q) : q[i] # End
  BY <1>0, EmptySeq DEF Sentinels, EndIsLast
<1>4. qi # <<>> /\ qi[Len(qi)] = items[Len(items)]
  <2>1. Len(qi) \in 1 .. Len(qi) /\ ~(Len(qi) <= Len(q)) /\ Len(qi) - Len(q) = Len(items)
    BY <1>0, <1>a
  <2> QED
    BY <2>1, <1>c, EmptySeq
<1>5. Sentinels(qi) = Sentinels(items) /\ Sentinels(items) \in {0, 1}
  BY <1>4 DEF Sentinels
<1>6. ASSUME NEW i \in 1 .. Len(qi), qi[i] = End PROVE i = Len(qi)
  <2> DEFINE j == i - Len(q)
  <2>1. j \in 1 .. Len(items) /\ items[j] = End
    BY <1>b, <1>c, <1>3, <1>6
  <2> HIDE DEF j
  <2>2. j = Len(items)
    BY <2>1 DEF EndIsLast
  <2> QED
    BY <1>0, <1>a, <2>2 DEF j
<1> DEFINE k == Len(q)
           l == Len(items)
           z == Sentinels(items)
<1>8. /\ k \in Nat /\ l \in Nat /\ z \in {0, 1} /\ l = m - n + z
      /\ Len(qi) = k + l /\ Sentinels(qi) = z
  <2>1. k \in Nat /\ l \in Nat
    BY <1>0
  <2>2. l = m - n + z
    OBVIOUS
  <2> QED
    BY <1>a, <1>5, <2>1, <2>2
<1>7. ASSUME NEW i \in 1 .. Len(qi), qi[i] # End
      PROVE  qi[i] + Len(qi) + 1 = m + Sentinels(qi) + i
  <2>1. CASE i <= Len(q)
    <3> DEFINE v == q[i]
    <3>1. i \in 1 .. Len(q) /\ qi[i] = v
      BY <1>b, <2>1
    <3>2. q[i] # End /\ v \in Nat
      BY <1>1, <1>3, <3>1
    <3>3. v + k + 1 = n + i
      BY <3>1, <3>2 DEF LastOf
    <3> HIDE DEF v, k, l, z
    <3>4. v + (k + l) + 1 = m + z + i
      BY <1>8, <3>2, <3>3
    <3> QED
      BY <1>8, <3>1, <3>4
  <2>2. CASE ~(i <= Len(q))
    <3> DEFINE j == i - Len(q)
               v == items[j]
    <3>1. j \in 1 .. Len(items) /\ qi[i] = v
      BY <1>c, <2>2
    <3>2. i = j + k /\ j \in Nat
      BY <1>0, <3>1
    <3> HIDE DEF j
    <3>3. v # End /\ v \in Nat
      BY <1>1, <1>7, <3>1
    <3>4. v + l + 1 = m + z + j
      BY <3>1, <3>3 DEF LastOf
    <3> HIDE DEF v, k, l, z
    <3>5. v + (k + l) + 1 = m + z + i
      BY <1>8, <3>2, <3>3, <3>4
    <3> QED
      BY <1>8, <3>1, <3>5
  <2> QED
    BY <2>1, <2>2
<1> QED
  BY <1>2, <1>5, <1>6, <1>7 DEF LastOf, EndIsLast, qi

(* What a run sends reaches the queues of its subscribers in the order of  *)
(* its buffer, and the sentinel last.                                      *)
LEMMA OutputStep ==
  ASSUME RunsInv, NEW r \in Runs, run[r].task \in {"draining", "closing"},
         NEW items \in Seq(0 .. End), items # <<>>,
         sub' = Put(r, items), started' = started,
         \A k \in Runs \ {r} : run'[k].buf = run[k].buf /\ run'[k].task = run[k].task,
         run'[r].buf \in Seq({"text", "DONE"}),
         Len(run'[r].buf) >= Len(run[r].buf),
         Len(items) = Len(run'[r].buf) - Len(run[r].buf) + Sentinels(items),
         EndIsLast(items), LastOf(items, Len(run'[r].buf)),
         Sentinels(items) = 1 => run'[r].task = "ended"
  PROVE  sub' \in [Subs -> SubStates] /\ \A s \in Subs : SubOK(s)'
<1> USE AgentRunsAssumption DEF AgentRunsAssumption
<1>0. sub \in [Subs -> SubStates] /\ run \in [Runs -> RunStates] /\ started \in 0 .. MaxRuns
      /\ End \in Nat
  BY DEF RunsInv, RunsTypeOK, End
<1>1. ASSUME NEW s \in Subs, s \in Subscribers(r)
      PROVE  sub'[s] \in SubStates /\ SubOK(s)'
  <2> DEFINE q == sub[s].q
             qi == q \o items
             n == Len(run[r].buf)
             m == Len(run'[r].buf)
  <2>1. sub'[s] = [sub[s] EXCEPT !.q = qi] /\ sub[s].run = r /\ sub[s].at # "off"
        /\ sub[s] \in SubStates /\ SubOK(s)
    BY <1>0, <1>1 DEF Put, Subscribers, RunsInv
  <2>2. q \in Seq(0 .. End) /\ n \in Nat /\ m \in Nat /\ Len(q) \in Nat /\ Len(items) \in Nat
    <3>1. q \in Seq(0 .. End) /\ run[r].buf \in Seq({"text", "DONE"})
      BY <1>0, <2>1 DEF SubStates, RunStates
    <3> QED
      BY <3>1, LenProperties
  <2>3. Sentinels(q) = 0 /\ EndIsLast(q) /\ LastOf(q, n) /\ sub[s].at # "flushed"
        /\ (sub[s].at = "live" => sub[s].next + Len(q) >= n + Sentinels(q))
        /\ sub[s].next <= n /\ r \in 1 .. started
    BY <2>1 DEF SubOK, Sentinels
  <2> HIDE DEF q, n, m
  <2>4. /\ qi \in Seq(0 .. End) /\ Len(qi) = Len(q) + Len(items)
        /\ Sentinels(qi) = Sentinels(items) /\ EndIsLast(qi) /\ LastOf(qi, m)
    <3>1. Len(items) = m - n + Sentinels(items) /\ LastOf(items, m)
      BY DEF m, n
    <3> QED
      BY <1>0, <2>2, <2>3, <3>1, QueueGrows
  <2> HIDE DEF qi
  <2>6. sub[s].next \in Nat /\ Sentinels(items) \in {0, 1} /\ n <= m
    BY <2>1 DEF SubStates, Sentinels, m, n
  <2>7. sub[s].at = "live" => sub[s].next + Len(qi) >= m + Sentinels(qi)
    <3>1. Len(items) = m - n + Sentinels(items)
      BY DEF m, n
    <3> DEFINE z == Sentinels(items)
               l == Len(items)
               k == Len(q)
    <3>2. l = m - n + z /\ l \in Nat /\ k \in Nat /\ z \in {0, 1}
      BY <2>2, <2>6, <3>1
    <3>3. Len(qi) = k + l /\ Sentinels(qi) = z
      BY <2>4
    <3>4. sub[s].at = "live" => sub[s].next + k >= n
      BY <2>2, <2>3, <2>6
    <3> HIDE DEF z, l, k
    <3>5. sub[s].next \in Nat /\ m \in Nat /\ n \in Nat
      BY <2>2, <2>6 DEF m, n
    <3>6. k + l = Len(qi) /\ n + l = m + z /\ Sentinels(qi) = z
      BY <3>2, <3>3, <3>5
    <3> HIDE DEF m, n
    <3> QED
      BY <3>2, <3>4, <3>5, <3>6, SMTT(60)
  <2>8. /\ sub'[s] \in SubStates /\ sub'[s].q = qi
        /\ sub'[s].run = r /\ sub'[s].next = sub[s].next /\ sub'[s].at = sub[s].at
    BY <2>1, <2>4 DEF SubStates
  <2>9. sub[s].next <= m /\ r \in 1 .. started'
    BY <1>0, <2>2, <2>3, <2>6
  <2>10. SubOK(s)'
    BY <2>3, <2>4, <2>7, <2>8, <2>9 DEF SubOK, LastOf, EndIsLast, m, Sentinels
  <2> QED
    BY <2>8, <2>10
<1>2. ASSUME NEW s \in Subs, s \notin Subscribers(r)
      PROVE  sub'[s] \in SubStates /\ SubOK(s)'
  <2>1. sub'[s] = sub[s] /\ sub[s] \in SubStates /\ SubOK(s)
    BY <1>0, <1>2 DEF Put, RunsInv
  <2>2. sub[s].at # "off" => sub[s].run \in Runs \ {r}
    BY <1>0, <1>2, <2>1 DEF Subscribers, SubOK, Runs
  <2> QED
    BY <1>0, <2>1, <2>2, SubFrame DEF RunsInv
<1>3. sub' \in [Subs -> SubStates]
  <2>1. sub' = [s \in Subs |-> IF s \in Subscribers(r) THEN [sub[s] EXCEPT !.q = @ \o items] ELSE sub[s]]
    BY DEF Put
  <2>2. sub' = [s \in Subs |-> sub'[s]]
    BY <2>1
  <2>3. \A s \in Subs : sub'[s] \in SubStates
    BY <1>1, <1>2
  <2> QED
    BY <2>2, <2>3
<1> QED
  BY <1>1, <1>2, <1>3

(* Arming a timer changes nothing that the invariant speaks of.            *)
LEMMA RearmedKeeps ==
  ASSUME NEW runs \in [Runs -> RunStates]
  PROVE  /\ Rearmed(runs) \in [Runs -> RunStates]
         /\ \A k \in Runs : /\ Rearmed(runs)[k].buf = runs[k].buf
                            /\ Rearmed(runs)[k].task = runs[k].task
                            /\ Rearmed(runs)[k].status = runs[k].status
                            /\ k # current => Rearmed(runs)[k] = runs[k]
<1>1. ASSUME NEW k \in Runs
      PROVE  /\ Rearmed(runs)[k] \in RunStates
             /\ Rearmed(runs)[k].buf = runs[k].buf /\ Rearmed(runs)[k].task = runs[k].task
             /\ Rearmed(runs)[k].status = runs[k].status
             /\ k # current => Rearmed(runs)[k] = runs[k]
  <2>1. Rearmed(runs)[k] = IF k = current THEN [runs[k] EXCEPT !.timer = TRUE] ELSE runs[k]
    BY DEF Rearmed
  <2>2. runs[k] \in RunStates
    OBVIOUS
  <2> QED
    BY <2>1, <2>2 DEF RunStates
<1>2. Rearmed(runs) = [k \in Runs |-> Rearmed(runs)[k]]
  BY DEF Rearmed
<1>3. Rearmed(runs) \in [Runs -> RunStates]
  BY <1>1, <1>2
<1> QED
  BY <1>1, <1>3

(* A step of run r that sends `items' and leaves the other runs alone.     *)
LEMMA EmitStep ==
  ASSUME RunsInv, NEW r \in Runs, run[r].task \in {"draining", "closing"},
         NEW items \in Seq(0 .. End), items # <<>>,
         sub' = Put(r, items), started' = started, current' = current,
         run' \in [Runs -> RunStates], RunOK(r)',
         \A k \in Runs \ {r} : /\ run'[k].buf = run[k].buf /\ run'[k].task = run[k].task
                               /\ run'[k].status = run[k].status
                               /\ k > started => run'[k] = run[k],
         Len(run'[r].buf) >= Len(run[r].buf),
         Len(items) = Len(run'[r].buf) - Len(run[r].buf) + Sentinels(items),
         EndIsLast(items), LastOf(items, Len(run'[r].buf)),
         Sentinels(items) = 1 => run'[r].task = "ended"
  PROVE  RunsInv'
<1>1. run'[r].buf \in Seq({"text", "DONE"})
  BY DEF RunStates
<1>2. sub' \in [Subs -> SubStates] /\ \A s \in Subs : SubOK(s)'
  BY <1>1, OutputStep
<1>3. RunsTypeOK' /\ current' <= started'
  BY <1>2 DEF RunsInv, RunsTypeOK
<1>4. ASSUME NEW k \in Runs PROVE RunOK(k)'
  <2>1. CASE k = r
    BY <2>1
  <2>2. CASE k # r
    <3>1. RunOK(k) /\ k \in Runs \ {r}
      BY <2>2 DEF RunsInv
    <3> QED
      BY <3>1 DEF RunOK, Complete
  <2> QED
    BY <2>1, <2>2
<1> QED
  BY <1>2, <1>3, <1>4 DEF RunsInv

LEMMA OneItem ==
  ASSUME NEW v \in 0 .. End, NEW n \in Nat, End \in Nat
  PROVE  /\ <<v>> \in Seq(0 .. End) /\ <<v>> # <<>> /\ Len(<<v>>) = 1
         /\ Sentinels(<<v>>) = IF v = End THEN 1 ELSE 0
         /\ EndIsLast(<<v>>)
         /\ v = End \/ v + 1 = n => LastOf(<<v>>, n)
  BY DEF Sentinels, EndIsLast, LastOf

LEMMA PublishStep ==
  ASSUME RunsInv, NEW r \in Runs, NEW kind \in {"text", "DONE"}, Publish(r, kind)
  PROVE  RunsInv'
<1> USE AgentRunsAssumption DEF AgentRunsAssumption
<1> DEFINE n == Len(run[r].buf)
           new == [run[r] EXCEPT !.buf = Append(@, kind)]
<1>0. /\ run \in [Runs -> RunStates] /\ run[r] \in RunStates /\ RunOK(r)
      /\ current \in 0 .. MaxRuns /\ started \in 0 .. MaxRuns /\ End = MaxText + 2
      /\ run[r].buf \in Seq({"text", "DONE"})
  BY DEF RunsInv, RunsTypeOK, End, RunStates
<1>1. /\ run[r].task = "draining" /\ ~Complete(r) /\ (kind = "text" => n < MaxText)
      /\ run' = [run EXCEPT ![r] = new] /\ sub' = Put(r, <<n>>)
      /\ UNCHANGED <<current, started>>
  BY <1>0 DEF Publish, Draining
<1>2. n \in Nat /\ n <= MaxText /\ \A i \in 1 .. n : run[r].buf[i] # "DONE"
  <2>1. n \in Nat /\ DOMAIN run[r].buf = 1 .. n
    BY <1>0, LenProperties
  <2> QED
    BY <1>0, <1>1, <2>1 DEF RunOK, Complete
<1>3. /\ Append(run[r].buf, kind) \in Seq({"text", "DONE"})
      /\ Len(Append(run[r].buf, kind)) = n + 1
      /\ \A i \in 1 .. n : Append(run[r].buf, kind)[i] = run[r].buf[i]
      /\ Append(run[r].buf, kind)[n + 1] = kind
      /\ DOMAIN Append(run[r].buf, kind) = 1 .. n + 1
  BY <1>0, AppendProperties, LenProperties
<1>4. /\ new \in RunStates /\ new.buf = Append(run[r].buf, kind)
      /\ new.task = run[r].task /\ new.status = run[r].status
  BY <1>0, <1>3 DEF RunStates
<1> HIDE DEF new, n
<1>5. run'[r] = new /\ run' \in [Runs -> RunStates] /\ \A k \in Runs \ {r} : run'[k] = run[k]
  BY <1>0, <1>1, <1>4
<1>6. RunOK(r)'
  <2>1. r <= started
    BY <1>0, <1>1 DEF RunOK, NotStarted, Runs
  <2>2. \A i \in 1 .. Len(new.buf) : new.buf[i] = "DONE" => i = Len(new.buf)
    <3>1. \A i \in 1 .. n + 1 : i \in 1 .. n \/ i = n + 1
      BY <1>2
    <3> QED
      BY <1>2, <1>3, <1>4, <3>1
  <2>3. Len(new.buf) <= MaxText + 2
    BY <1>2, <1>3, <1>4
  <2>4. ~Complete(r)' => Len(new.buf) <= MaxText
    <3>1. CASE kind = "DONE"
      <4>1. n + 1 \in DOMAIN new.buf /\ new.buf[n + 1] = "DONE"
        BY <1>2, <1>3, <1>4, <3>1
      <4> QED
        BY <1>5, <4>1 DEF Complete
    <3>2. CASE kind = "text"
      BY <1>1, <1>2, <1>3, <1>4, <3>2 DEF n
    <3> QED
      BY <3>1, <3>2
  <2>5. run[r].status = "running"
    BY <1>0, <1>1 DEF RunOK
  <2>6. ~(r > started')
    BY <1>0, <1>1, <2>1 DEF Runs
  <2>7. run'[r].status = "running" /\ run'[r].buf = new.buf
    BY <1>4, <1>5, <2>5
  <2> QED
    BY <2>2, <2>3, <2>4, <2>6, <2>7 DEF RunOK
<1>7. n \in 0 .. End /\ n # End /\ End \in Nat /\ n + 1 \in Nat
  BY <1>0, <1>2
<1>8. /\ <<n>> \in Seq(0 .. End) /\ <<n>> # <<>> /\ Len(<<n>>) = 1 /\ Sentinels(<<n>>) = 0
      /\ EndIsLast(<<n>>) /\ LastOf(<<n>>, n + 1)
  BY <1>7, OneItem
<1>9. Len(run'[r].buf) = n + 1 /\ Len(run[r].buf) = n
  BY <1>3, <1>4, <1>5 DEF n
<1>10. /\ Len(run'[r].buf) >= Len(run[r].buf)
       /\ Len(<<n>>) = Len(run'[r].buf) - Len(run[r].buf) + Sentinels(<<n>>)
  BY <1>2, <1>8, <1>9
<1>11. LastOf(<<n>>, Len(run'[r].buf))
  BY <1>8, <1>9
<1>12. sub' = Put(r, <<n>>) /\ started' = started /\ current' = current
  BY <1>1
<1>13. \A k \in Runs \ {r} : /\ run'[k].buf = run[k].buf /\ run'[k].task = run[k].task
                              /\ run'[k].status = run[k].status
                              /\ k > started => run'[k] = run[k]
  BY <1>5
<1>14. Sentinels(<<n>>) # 1 /\ run[r].task \in {"draining", "closing"}
  BY <1>1, <1>8
<1> QED
  BY <1>5, <1>6, <1>8, <1>10, <1>11, <1>12, <1>13, <1>14, EmitStep

(* The end of a task, whatever ended it, sends the sentinel last.          *)
LEMMA EndStep ==
  ASSUME RunsInv, NEW r \in Runs, run[r].task \in {"draining", "closing"},
         NEW changed \in RunStates, NEW items, Ended(r, changed, items),
         NEW sent \in Seq(0 .. End), sent = Append(items, End), sent # <<>>,
         Len(changed.buf) >= Len(run[r].buf),
         Len(sent) = Len(changed.buf) - Len(run[r].buf) + Sentinels(sent),
         EndIsLast(sent), LastOf(sent, Len(changed.buf)),
         Len(changed.buf) <= MaxText + 2,
         (\A i \in DOMAIN changed.buf : changed.buf[i] # "DONE") => Len(changed.buf) <= MaxText,
         \A i \in 1 .. Len(changed.buf) : changed.buf[i] = "DONE" => i = Len(changed.buf)
  PROVE  RunsInv'
<1> USE AgentRunsAssumption DEF AgentRunsAssumption
<1> DEFINE new == [changed EXCEPT !.task = "ended", !.cancel = FALSE]
           runs == [run EXCEPT ![r] = new]
<1>0. /\ run \in [Runs -> RunStates] /\ run[r] \in RunStates /\ RunOK(r)
      /\ current \in 0 .. MaxRuns /\ started \in 0 .. MaxRuns /\ current <= started
  BY DEF RunsInv, RunsTypeOK
<1>1. run' = Rearmed(runs) /\ sub' = Put(r, sent) /\ started' = started /\ current' = current
  BY DEF Ended
<1>2. /\ new \in RunStates /\ new.buf = changed.buf /\ new.task = "ended"
  BY DEF RunStates
<1> HIDE DEF new
<1>3. runs \in [Runs -> RunStates] /\ runs[r] = new /\ \A k \in Runs \ {r} : runs[k] = run[k]
  BY <1>0, <1>2
<1> HIDE DEF runs
<1>4. /\ run' \in [Runs -> RunStates]
      /\ \A k \in Runs : /\ run'[k].buf = runs[k].buf /\ run'[k].task = runs[k].task
                         /\ run'[k].status = runs[k].status
                         /\ k # current => run'[k] = runs[k]
  BY <1>1, <1>3, RearmedKeeps
<1>5. /\ run'[r].buf = changed.buf /\ run'[r].task = "ended"
  BY <1>2, <1>3, <1>4
<1>6. \A k \in Runs \ {r} : /\ run'[k].buf = run[k].buf /\ run'[k].task = run[k].task
                            /\ run'[k].status = run[k].status
                            /\ k > started => run'[k] = run[k]
  <2> SUFFICES ASSUME NEW k \in Runs \ {r}
               PROVE  /\ run'[k].buf = run[k].buf /\ run'[k].task = run[k].task
                      /\ run'[k].status = run[k].status
                      /\ k > started => run'[k] = run[k]
    OBVIOUS
  <2>1. runs[k] = run[k]
    BY <1>3
  <2>2. k > started => k # current
    BY <1>0 DEF Runs
  <2> QED
    BY <1>4, <2>1, <2>2
<1>7. r <= started
  BY <1>0 DEF RunOK, NotStarted, Runs
<1>8. RunOK(r)'
  <2>1. ~(r > started')
    BY <1>0, <1>1, <1>7 DEF Runs
  <2>2. ~Complete(r)' => \A i \in DOMAIN changed.buf : changed.buf[i] # "DONE"
    BY <1>5 DEF Complete
  <2> QED
    BY <1>5, <2>1, <2>2 DEF RunOK
<1> QED
  BY <1>1, <1>4, <1>5, <1>6, <1>8, EmitStep

LEMMA QuietEnd ==
  ASSUME RunsInv, NEW r \in Runs, run[r].task \in {"draining", "closing"},
         NEW changed \in RunStates, changed.buf = run[r].buf, Ended(r, changed, <<>>)
  PROVE  RunsInv'
<1> USE AgentRunsAssumption DEF AgentRunsAssumption
<1> DEFINE n == Len(run[r].buf)
<1>0. RunOK(r) /\ run[r].buf \in Seq({"text", "DONE"}) /\ End \in Nat
  BY DEF RunsInv, RunsTypeOK, RunStates, End
<1>1. n \in Nat /\ DOMAIN run[r].buf = 1 .. n
  BY <1>0, LenProperties
<1> DEFINE sent == <<End>>
<1>2. sent = Append(<<>>, End) /\ End \in 0 .. End
  BY <1>0
<1>3. /\ sent \in Seq(0 .. End) /\ sent # <<>> /\ Len(sent) = 1
      /\ Sentinels(sent) = 1 /\ EndIsLast(sent) /\ LastOf(sent, n)
  BY <1>0, <1>1, <1>2, OneItem
<1> HIDE DEF sent
<1>4. Len(sent) = n - n + Sentinels(sent) /\ n >= n
  BY <1>1, <1>3
<1>5. /\ n <= MaxText + 2
      /\ (\A i \in DOMAIN run[r].buf : run[r].buf[i] # "DONE") => n <= MaxText
      /\ \A i \in 1 .. n : run[r].buf[i] = "DONE" => i = n
  BY <1>0 DEF RunOK, Complete
<1> QED
  BY <1>2, <1>3, <1>4, <1>5, EndStep

LEMMA FailStep ==
  ASSUME RunsInv, NEW r \in Runs, Fail(r)
  PROVE  RunsInv'
<1> USE AgentRunsAssumption DEF AgentRunsAssumption
<1> DEFINE n == Len(run[r].buf)
           tail == <<"text", "DONE">>
           buf == run[r].buf \o tail
           items == <<n, n + 1>>
           sent == Append(items, End)
           changed == [run[r] EXCEPT !.status = "error", !.buf = buf]
<1>0. /\ run[r] \in RunStates /\ RunOK(r) /\ run[r].buf \in Seq({"text", "DONE"})
      /\ End \in Nat /\ End = MaxText + 2
  BY DEF RunsInv, RunsTypeOK, RunStates, End
<1>1. run[r].task = "draining" /\ ~Complete(r) /\ Ended(r, changed, items)
  BY DEF Fail, Draining
<1>2. n \in Nat /\ n <= MaxText /\ \A i \in 1 .. n : run[r].buf[i] # "DONE"
  <2>1. n \in Nat /\ DOMAIN run[r].buf = 1 .. n
    BY <1>0, LenProperties
  <2> QED
    BY <1>0, <1>1, <2>1 DEF RunOK, Complete
<1>3. /\ tail \in Seq({"text", "DONE"}) /\ Len(tail) = 2 /\ tail[1] = "text" /\ tail[2] = "DONE"
  OBVIOUS
<1> HIDE DEF tail
<1>4. /\ buf \in Seq({"text", "DONE"}) /\ Len(buf) = n + 2
      /\ \A i \in 1 .. n + 2 : buf[i] = IF i <= n THEN run[r].buf[i] ELSE tail[i - n]
  <2>1. /\ buf \in Seq({"text", "DONE"}) /\ Len(buf) = n + Len(tail)
        /\ \A i \in 1 .. n + Len(tail) : buf[i] = IF i <= n THEN run[r].buf[i] ELSE tail[i - n]
    BY <1>0, <1>3, ConcatProperties
  <2> QED
    BY <1>3, <2>1
<1> HIDE DEF buf
<1>5. changed \in RunStates /\ changed.buf = buf
  BY <1>0, <1>4 DEF RunStates
<1>6. /\ sent = Append(items, End) /\ sent \in Seq(0 .. End) /\ sent # <<>> /\ Len(sent) = 3
      /\ sent[1] = n /\ sent[2] = n + 1 /\ sent[3] = End
  <2>1. n \in 0 .. End /\ n + 1 \in 0 .. End /\ End \in 0 .. End
    BY <1>0, <1>2
  <2> HIDE DEF n
  <2>2. items \in Seq(0 .. End) /\ Len(items) = 2 /\ items[1] = n /\ items[2] = n + 1
    BY <2>1
  <2> HIDE DEF items
  <2>3. /\ sent \in Seq(0 .. End) /\ sent # <<>> /\ Len(sent) = Len(items) + 1
        /\ (\A i \in 1 .. Len(items) : sent[i] = items[i]) /\ sent[Len(items) + 1] = End
    <3> DEFINE S == 0 .. End
    <3>1. items \in Seq(S) /\ End \in S
      BY <2>1, <2>2
    <3> HIDE DEF S
    <3>2. /\ Append(items, End) \in Seq(S) /\ Append(items, End) # <<>>
          /\ Len(Append(items, End)) = Len(items) + 1
          /\ (\A i \in 1 .. Len(items) : Append(items, End)[i] = items[i])
          /\ Append(items, End)[Len(items) + 1] = End
      BY <3>1, AppendProperties
    <3> QED
      BY <3>2 DEF S
  <2> QED
    BY <2>2, <2>3
<1>7. n # End /\ n + 1 # End
  BY <1>0, <1>2
<1> HIDE DEF sent, items, changed, n
<1>8. Sentinels(sent) = 1 /\ EndIsLast(sent)
  BY <1>6, <1>7, <1>2 DEF Sentinels, EndIsLast
<1>9. LastOf(sent, n + 2)
  BY <1>2, <1>6, <1>7, <1>8 DEF LastOf
<1>10. n + 2 \in DOMAIN buf /\ buf[n + 2] = "DONE"
  <2>1. n + 2 \in 1 .. n + 2 /\ ~(n + 2 <= n) /\ (n + 2) - n = 2
    BY <1>2
  <2>2. DOMAIN buf = 1 .. n + 2
    BY <1>4, LenProperties
  <2> QED
    BY <1>3, <1>4, <2>1, <2>2
<1>11. ASSUME NEW i \in 1 .. n + 2, buf[i] = "DONE" PROVE i = n + 2
  <2>1. CASE i <= n
    BY <1>2, <1>4, <1>11, <2>1
  <2>2. CASE i = n + 1
    <3>1. ~(i <= n) /\ i - n = 1
      BY <1>2, <2>2
    <3> QED
      BY <1>3, <1>4, <1>11, <3>1
  <2> QED
    BY <1>2, <2>1, <2>2
<1>12. n + 2 >= n /\ n + 2 <= MaxText + 2 /\ 3 = (n + 2) - n + 1
  BY <1>2
<1>13. n = Len(run[r].buf)
  BY DEF n
<1> QED
  BY <1>1, <1>4, <1>5, <1>6, <1>8, <1>9, <1>10, <1>11, <1>12, <1>13, EndStep

LEMMA EndingSteps ==
  ASSUME RunsInv, NEW r \in Runs, Finish(r) \/ CloseGenerator(r) \/ Fail(r)
  PROVE  RunsInv'
<1>0. run[r] \in RunStates
  BY DEF RunsInv, RunsTypeOK
<1>1. CASE Finish(r)
  <2> DEFINE changed == [run[r] EXCEPT !.status = "done"]
  <2>1. changed \in RunStates /\ changed.buf = run[r].buf
    BY <1>0 DEF RunStates
  <2>2. run[r].task = "draining" /\ Ended(r, changed, <<>>)
    BY <1>1 DEF Finish, Draining
  <2> HIDE DEF changed
  <2> QED
    BY <2>1, <2>2, QuietEnd
<1>2. CASE CloseGenerator(r)
  BY <1>0, <1>2, QuietEnd DEF CloseGenerator
<1> QED
  BY <1>1, <1>2, FailStep

(* What a subscriber leaves in its queue when it takes the head.           *)
LEMMA QueueShrinks ==
  ASSUME NEW q \in Seq(0 .. End), q # <<>>, End \in Nat, NEW n \in Nat,
         EndIsLast(q), LastOf(q, n)
  PROVE  /\ Tail(q) \in Seq(0 .. End) /\ Len(Tail(q)) = Len(q) - 1
         /\ EndIsLast(Tail(q)) /\ LastOf(Tail(q), n)
         /\ Head(q) \in 0 .. End /\ Sentinels(q) \in {0, 1} /\ Len(q) \in Nat /\ Len(q) >= 1
         /\ Sentinels(Tail(q)) = 1 => Sentinels(q) = 1
         /\ Head(q) # End => /\ Sentinels(Tail(q)) = Sentinels(q)
                             /\ Head(q) + Len(q) = n + Sentinels(q)
                             /\ Len(q) >= 1 + Sentinels(q)
         /\ Head(q) = End => Tail(q) = <<>> /\ Sentinels(q) = 1
<1> DEFINE S == 0 .. End
           t == Tail(q)
<1>1. /\ t \in Seq(S) /\ Len(t) = Len(q) - 1 /\ Head(q) \in S
      /\ \A i \in 1 .. Len(t) : t[i] = q[i + 1]
  <2> HIDE DEF S
  <2>1. q \in Seq(S)
    BY DEF S
  <2> QED
    BY <2>1, HeadTailProperties
<1>2. Len(q) \in Nat /\ Len(q) >= 1
  BY LenProperties, EmptySeq
<1>3. Head(q) = q[1]
  BY <1>2
<1> HIDE DEF t
<1>4. Sentinels(q) \in {0, 1}
  BY DEF Sentinels
<1>5. CASE q[1] = End
  <2>1. Len(q) = 1
    <3>1. 1 \in 1 .. Len(q)
      BY <1>2
    <3>2. 1 = Len(q)
      BY <1>5, <3>1 DEF EndIsLast
    <3> QED
      BY <3>2
  <2>2. Sentinels(q) = 1
    BY <1>5, <2>1 DEF Sentinels
  <2>3. Len(t) = 0
    BY <1>1, <2>1
  <2>4. t = <<>>
    BY <1>1, <2>3, EmptySeq
  <2>5. EndIsLast(t) /\ LastOf(t, n)
    BY <2>3 DEF EndIsLast, LastOf
  <2> QED
    BY <1>1, <1>2, <1>3, <1>4, <1>5, <2>2, <2>4, <2>5 DEF t
<1>6. CASE q[1] # End
  <2>1. q[1] + Len(q) + 1 = n + Sentinels(q) + 1 /\ q[1] \in Nat
    BY <1>1, <1>2, <1>3, <1>6 DEF LastOf
  <2>2. q[1] + Len(q) = n + Sentinels(q)
    BY <1>2, <1>4, <2>1, SMTT(60)
  <2>3. Sentinels(t) = Sentinels(q)
    <3>1. CASE Len(q) = 1
      <4>1. t = <<>>
        BY <1>1, <3>1, EmptySeq
      <4> QED
        BY <1>6, <3>1, <4>1 DEF Sentinels
    <3>2. CASE Len(q) # 1
      <4>1. Len(t) \in 1 .. Len(t) /\ Len(t) + 1 = Len(q)
        BY <1>1, <1>2, <3>2
      <4>2. t[Len(t)] = q[Len(q)] /\ t # <<>>
        BY <1>1, <4>1, EmptySeq
      <4> QED
        BY <4>2 DEF Sentinels
    <3> QED
      BY <3>1, <3>2
  <2>4. Len(q) >= 1 + Sentinels(q)
    <3>1. Sentinels(q) = 1 => Len(q) # 1
      BY <1>6 DEF Sentinels
    <3> DEFINE k == Len(q)
               z == Sentinels(q)
    <3>2. k \in Nat /\ k >= 1 /\ z \in {0, 1} /\ (z = 1 => k # 1)
      BY <1>2, <1>4, <3>1
    <3> HIDE DEF k, z
    <3>3. k >= 1 + z
      BY <3>2
    <3> QED
      BY <3>3 DEF k, z
  <2>5. ASSUME NEW i \in 1 .. Len(t), t[i] = End PROVE i = Len(t)
    <3>1. i + 1 \in 1 .. Len(q) /\ q[i + 1] = End
      BY <1>1, <1>2, <2>5
    <3>2. i + 1 = Len(q)
      BY <3>1 DEF EndIsLast
    <3> QED
      BY <1>1, <1>2, <3>2
  <2>6. ASSUME NEW i \in 1 .. Len(t), t[i] # End
        PROVE  t[i] + Len(t) + 1 = n + Sentinels(t) + i
    <3> DEFINE v == q[i + 1]
               k == Len(q)
               z == Sentinels(q)
    <3>1. i + 1 \in 1 .. Len(q) /\ t[i] = v /\ i \in Nat
      BY <1>1, <1>2
    <3>2. v \in Nat
      BY <3>1, ElementOfSeq
    <3>3. v + k + 1 = n + z + (i + 1)
      BY <2>6, <3>1 DEF LastOf
    <3>4. k \in Nat /\ z \in {0, 1} /\ Len(t) = k - 1 /\ Sentinels(t) = z
      BY <1>1, <1>2, <1>4, <2>3
    <3> HIDE DEF v, k, z
    <3>5. v + (k - 1) + 1 = n + z + i
      BY <3>1, <3>2, <3>3, <3>4
    <3> QED
      BY <3>1, <3>4, <3>5
  <2> QED
    BY <1>1, <1>2, <1>3, <1>4, <1>6, <2>2, <2>3, <2>4, <2>5, <2>6 DEF EndIsLast, LastOf, t
<1> QED
  BY <1>5, <1>6

(* A step of one subscriber, which touches no more of the runs than timers.*)
LEMMA ClientStep ==
  ASSUME RunsInv, NEW s \in Subs, NEW new \in SubStates, sub' = [sub EXCEPT ![s] = new],
         started' = started, current' = current, run' \in [Runs -> RunStates],
         \A k \in Runs : /\ run'[k].buf = run[k].buf /\ run'[k].task = run[k].task
                         /\ run'[k].status = run[k].status
                         /\ k > started => run'[k] = run[k],
         SubOK(s)'
  PROVE  RunsInv'
<1> USE AgentRunsAssumption DEF AgentRunsAssumption
<1>0. sub \in [Subs -> SubStates] /\ started \in 0 .. MaxRuns
  BY DEF RunsInv, RunsTypeOK
<1>1. RunsTypeOK' /\ current' <= started'
  BY DEF RunsInv, RunsTypeOK
<1>2. ASSUME NEW k \in Runs PROVE RunOK(k)'
  <2>1. RunOK(k)
    BY DEF RunsInv
  <2> QED
    BY <2>1 DEF RunOK, Complete
<1>3. ASSUME NEW u \in Subs PROVE SubOK(u)'
  <2>1. CASE u = s
    BY <2>1
  <2>2. CASE u # s
    <3>1. sub'[u] = sub[u] /\ SubOK(u) /\ RunsTypeOK
      BY <1>0, <2>2 DEF RunsInv
    <3>2. sub[u].at # "off" => sub[u].run \in Runs
      BY <1>0, <3>1 DEF SubOK, Runs
    <3> QED
      BY <1>0, <3>1, <3>2, SubFrame
  <2> QED
    BY <2>1, <2>2
<1> QED
  BY <1>1, <1>2, <1>3 DEF RunsInv

LEMMA SubscriberFacts ==
  ASSUME RunsInv, NEW s \in Subs, sub[s].at # "off"
  PROVE  /\ sub[s] \in SubStates /\ sub[s].run \in Runs /\ sub[s].run \in 1 .. started
         /\ sub[s].next \in Nat /\ sub[s].q \in Seq(0 .. End)
         /\ Len(run[sub[s].run].buf) \in Nat /\ Len(run[sub[s].run].buf) <= End
         /\ sub[s].next <= Len(run[sub[s].run].buf)
         /\ EndIsLast(sub[s].q) /\ LastOf(sub[s].q, Len(run[sub[s].run].buf))
         /\ Sentinels(sub[s].q) = 1 => run[sub[s].run].task = "ended"
         /\ sub[s].at = "live"
              => sub[s].next + Len(sub[s].q) >= Len(run[sub[s].run].buf) + Sentinels(sub[s].q)
         /\ sub[s].at = "flushed" => /\ run[sub[s].run].task = "ended"
                                     /\ sub[s].next >= Len(run[sub[s].run].buf)
         /\ End \in Nat /\ Sentinels(sub[s].q) \in {0, 1} /\ Len(sub[s].q) \in Nat
         /\ Len(sub[s].q) >= Sentinels(sub[s].q)
<1> USE AgentRunsAssumption DEF AgentRunsAssumption
<1>1. sub[s] \in SubStates /\ run \in [Runs -> RunStates] /\ started \in 0 .. MaxRuns /\ SubOK(s)
  BY DEF RunsInv, RunsTypeOK
<1>2. sub[s].run \in 1 .. started
  BY <1>1 DEF SubOK
<1>3. sub[s].run \in Runs
  BY <1>1, <1>2 DEF Runs
<1>4. run[sub[s].run] \in RunStates /\ RunOK(sub[s].run)
  BY <1>1, <1>3 DEF RunsInv
<1>5. run[sub[s].run].buf \in Seq({"text", "DONE"}) /\ sub[s].q \in Seq(0 .. End) /\ sub[s].next \in Nat
  BY <1>1, <1>4 DEF RunStates, SubStates
<1>6. Len(run[sub[s].run].buf) \in Nat /\ Len(sub[s].q) \in Nat
  BY <1>5, LenProperties
<1>7. Len(run[sub[s].run].buf) <= End /\ End \in Nat
  BY <1>4 DEF RunOK, End
<1>8. Sentinels(sub[s].q) \in {0, 1} /\ Len(sub[s].q) >= Sentinels(sub[s].q)
  <2>1. CASE sub[s].q = <<>>
    BY <1>6, <2>1 DEF Sentinels
  <2>2. CASE sub[s].q # <<>>
    <3>1. Len(sub[s].q) >= 1
      BY <1>5, <1>6, <2>2, EmptySeq
    <3> QED
      BY <1>6, <3>1 DEF Sentinels
  <2> QED
    BY <2>1, <2>2
<1> QED
  BY <1>1, <1>2, <1>3, <1>5, <1>6, <1>7, <1>8 DEF SubOK

(* The steps that change a subscriber and no run.                          *)
LEMMA SubscriberStep ==
  ASSUME RunsInv, NEW s \in Subs, sub[s].at # "off", NEW new \in SubStates,
         sub' = [sub EXCEPT ![s] = new], UNCHANGED <<current, started, run>>,
         new.run = sub[s].run, new.next <= Len(run[sub[s].run].buf),
         EndIsLast(new.q), LastOf(new.q, Len(run[sub[s].run].buf)),
         Sentinels(new.q) = 1 => Sentinels(sub[s].q) = 1,
         new.at = "live" => new.next + Len(new.q) >= Len(run[sub[s].run].buf) + Sentinels(new.q),
         new.at = "flushed" => /\ run[sub[s].run].task = "ended"
                               /\ new.next >= Len(run[sub[s].run].buf)
  PROVE  RunsInv'
<1>1. sub[s].run \in 1 .. started /\ (Sentinels(sub[s].q) = 1 => run[sub[s].run].task = "ended")
  BY SubscriberFacts
<1>2. sub'[s] = new /\ run \in [Runs -> RunStates]
  BY DEF RunsInv, RunsTypeOK
<1>3. SubOK(s)'
  BY <1>1, <1>2 DEF SubOK, EndIsLast, LastOf, Sentinels
<1> QED
  BY <1>2, <1>3, ClientStep

LEMMA TakeSteps ==
  ASSUME RunsInv, NEW s \in Subs, TakeLive(s) \/ SkipReplayed(s) \/ SeeSentinel(s)
  PROVE  RunsInv'
<1> DEFINE q == sub[s].q
           n == Len(run[sub[s].run].buf)
           h == Head(q)
           t == Tail(q)
           z == Sentinels(q)
           k == Len(q)
           x == sub[s].next
<1>1. sub[s].at = "live" /\ q # <<>> /\ UNCHANGED <<current, started, run>> /\ sub[s] \in SubStates
  BY DEF TakeLive, SkipReplayed, SeeSentinel, Queued, RunsInv, RunsTypeOK
<1>2. sub \in [Subs -> SubStates]
  BY DEF RunsInv, RunsTypeOK
<1>3. /\ q \in Seq(0 .. End) /\ n \in Nat /\ n <= End /\ x \in Nat /\ x <= n
      /\ EndIsLast(q) /\ LastOf(q, n) /\ (z = 1 => run[sub[s].run].task = "ended")
      /\ x + k >= n + z /\ End \in Nat /\ z \in {0, 1} /\ k \in Nat
  BY <1>1, SubscriberFacts
<1> HIDE DEF q, n, x
<1>4. /\ t \in Seq(0 .. End) /\ Len(t) = k - 1 /\ EndIsLast(t) /\ LastOf(t, n)
      /\ h \in 0 .. End /\ k >= 1
      /\ Sentinels(t) = 1 => z = 1
      /\ h # End => Sentinels(t) = z /\ h + k = n + z /\ k >= 1 + z
      /\ h = End => t = <<>> /\ z = 1
  BY <1>1, <1>3, QueueShrinks
<1> HIDE DEF t, z, k
<1>5. CASE TakeLive(s)
  <2> DEFINE new == [sub[s] EXCEPT !.q = t, !.next = h + 1]
  <2>1. h # End /\ sub' = [sub EXCEPT ![s] = new]
    BY <1>2, <1>5 DEF TakeLive, q, t
  <2>2. h + 1 \in Nat /\ h + 1 <= n /\ h + 1 + Len(t) >= n + Sentinels(t)
    <3> DEFINE j == Len(t)
               y == Sentinels(t)
    <3>1. j = k - 1 /\ y = z /\ h + k = n + z /\ k >= 1 + z
      BY <1>4, <2>1
    <3>2. h \in Nat
      BY <1>3, <1>4
    <3> HIDE DEF h, j, y
    <3>3. h + 1 \in Nat /\ h + 1 <= n /\ h + 1 + j >= n + y
      BY <1>3, <3>1, <3>2
    <3> QED
      BY <3>3 DEF j, y
  <2>3. /\ new \in SubStates /\ new.run = sub[s].run /\ new.next = h + 1 /\ new.q = t
        /\ new.at = "live"
    BY <1>1, <1>4, <2>2 DEF SubStates
  <2> HIDE DEF new, h
  <2> QED
    BY <1>1, <1>4, <2>1, <2>2, <2>3, SubscriberStep DEF n, z, q
<1>6. CASE SkipReplayed(s)
  <2> DEFINE new == [sub[s] EXCEPT !.q = t]
  <2>1. h < x /\ sub' = [sub EXCEPT ![s] = new]
    BY <1>2, <1>6 DEF SkipReplayed, q, t, x
  <2>2. h # End
    BY <1>3, <1>4, <2>1
  <2>3. x + Len(t) >= n + Sentinels(t)
    BY <1>3, <1>4, <2>1, <2>2
  <2>4. /\ new \in SubStates /\ new.run = sub[s].run /\ new.next = x /\ new.q = t
        /\ new.at = "live"
    BY <1>1, <1>4 DEF SubStates, x
  <2> HIDE DEF new, h
  <2> QED
    BY <1>1, <1>3, <1>4, <2>1, <2>3, <2>4, SubscriberStep DEF n, z, q
<1>7. CASE SeeSentinel(s)
  <2> DEFINE new == [sub[s] EXCEPT !.q = t, !.at = "flushed"]
  <2>1. h = End /\ sub' = [sub EXCEPT ![s] = new]
    BY <1>2, <1>7 DEF SeeSentinel, q, t
  <2>2. /\ new \in SubStates /\ new.run = sub[s].run /\ new.next = x /\ new.q = t
        /\ new.at = "flushed"
    BY <1>1, <1>4 DEF SubStates, x
  <2>3. run[sub[s].run].task = "ended" /\ x >= n
    <3>1. t = <<>> /\ Len(t) = k - 1 /\ z = 1
      BY <1>4, <2>1
    <3>2. k = 1
      BY <1>3, <3>1
    <3> QED
      BY <1>3, <3>1, <3>2
  <2> HIDE DEF new, h
  <2> QED
    BY <1>1, <1>3, <1>4, <2>1, <2>2, <2>3, SubscriberStep DEF n, z, q
<1> QED
  BY <1>5, <1>6, <1>7

LEMMA ReadSteps ==
  ASSUME RunsInv, NEW s \in Subs, Replay(s) \/ GoLive(s)
  PROVE  RunsInv'
<1> DEFINE q == sub[s].q
           n == Len(run[sub[s].run].buf)
           x == sub[s].next
<1>1. /\ sub[s].at = "replay" /\ UNCHANGED <<current, started, run>>
      /\ sub[s] \in SubStates /\ sub \in [Subs -> SubStates]
  BY DEF Replay, GoLive, RunsInv, RunsTypeOK
<1>2. /\ q \in Seq(0 .. End) /\ n \in Nat /\ x \in Nat /\ x <= n
      /\ EndIsLast(q) /\ LastOf(q, n)
      /\ Sentinels(q) \in {0, 1} /\ Len(q) \in Nat /\ Len(q) >= Sentinels(q)
  BY <1>1, SubscriberFacts
<1>3. CASE Replay(s)
  <2> DEFINE new == [sub[s] EXCEPT !.next = x + 1]
  <2>1. x < n /\ sub' = [sub EXCEPT ![s] = new]
    BY <1>1, <1>3 DEF Replay, Behind
  <2>2. x + 1 \in Nat /\ x + 1 <= n
    BY <1>2, <2>1
  <2>3. /\ new \in SubStates /\ new.run = sub[s].run /\ new.next = x + 1 /\ new.q = q
        /\ new.at = sub[s].at
    BY <1>1, <2>2 DEF SubStates
  <2> HIDE DEF new
  <2> QED
    BY <1>1, <1>2, <2>1, <2>2, <2>3, SubscriberStep
<1>4. CASE GoLive(s)
  <2> DEFINE new == [sub[s] EXCEPT !.at = "live"]
  <2>1. ~(x < n) /\ sub' = [sub EXCEPT ![s] = new]
    BY <1>1, <1>4 DEF GoLive, Behind
  <2>2. x + Len(q) >= n + Sentinels(q)
    <3> DEFINE k == Len(q)
               z == Sentinels(q)
    <3> HIDE DEF k, z, n, x
    <3> QED
      BY <1>2, <2>1 DEF k, z
  <2>3. /\ new \in SubStates /\ new.run = sub[s].run /\ new.next = x /\ new.q = q
        /\ new.at = "live"
    BY <1>1 DEF SubStates
  <2> HIDE DEF new
  <2> QED
    BY <1>1, <1>2, <2>1, <2>2, <2>3, SubscriberStep
<1> QED
  BY <1>3, <1>4

LEMMA SubscribeStep ==
  ASSUME RunsInv, NEW s \in Subs, Subscribe(s)
  PROVE  RunsInv'
<1> USE AgentRunsAssumption DEF AgentRunsAssumption
<1> DEFINE new == [at |-> "replay", run |-> current, next |-> 0, q |-> <<>>]
           idle == [run[current] EXCEPT !.timer = FALSE]
<1>0. /\ run \in [Runs -> RunStates] /\ current \in 0 .. MaxRuns /\ started \in 0 .. MaxRuns
      /\ current <= started /\ current # 0 /\ End \in Nat /\ sub \in [Subs -> SubStates]
  BY DEF Subscribe, RunsInv, RunsTypeOK, End
<1>1. current \in Runs /\ current \in 1 .. started /\ run[current] \in RunStates
  BY <1>0 DEF Runs
<1>2. /\ sub' = [sub EXCEPT ![s] = new] /\ UNCHANGED <<current, started>>
      /\ run' = [run EXCEPT ![current] = idle]
  BY DEF Subscribe
<1>3. new \in SubStates /\ new.q = <<>> /\ new.next = 0 /\ new.run = current /\ new.at = "replay"
  BY <1>0 DEF SubStates
<1>4. /\ idle \in RunStates /\ idle.buf = run[current].buf /\ idle.task = run[current].task
      /\ idle.status = run[current].status
  BY <1>1 DEF RunStates
<1> HIDE DEF idle, new
<1>5. /\ run' \in [Runs -> RunStates]
      /\ \A k \in Runs : /\ run'[k].buf = run[k].buf /\ run'[k].task = run[k].task
                         /\ run'[k].status = run[k].status
                         /\ k > started => run'[k] = run[k]
  <2>1. ~(current > started)
    BY <1>0
  <2> QED
    BY <1>0, <1>1, <1>2, <1>4, <2>1
<1>6. Len(run'[current].buf) \in Nat
  <2>1. run'[current].buf \in Seq({"text", "DONE"})
    BY <1>1, <1>5 DEF RunStates
  <2> QED
    BY <2>1, LenProperties
<1>7. sub'[s] = new
  BY <1>0, <1>2
<1>8. SubOK(s)'
  <2>1. /\ sub'[s].q = <<>> /\ sub'[s].run = current /\ sub'[s].at = "replay"
        /\ sub'[s].next = 0 /\ Len(<<>>) = 0
    BY <1>3, <1>7
  <2>2. EndIsLast(sub[s].q)' /\ LastOf(sub[s].q, Len(run[sub[s].run].buf))' /\ Sentinels(sub[s].q)' = 0
    BY <2>1 DEF EndIsLast, LastOf, Sentinels
  <2>3. sub'[s].next <= Len(run'[sub'[s].run].buf) /\ sub'[s].run \in 1 .. started'
    BY <1>1, <1>2, <1>6, <2>1
  <2> QED
    BY <2>1, <2>2, <2>3 DEF SubOK
<1> QED
  BY <1>2, <1>3, <1>5, <1>8, ClientStep

LEMMA LeaveStep ==
  ASSUME RunsInv, NEW s \in Subs, Leave(s)
  PROVE  RunsInv'
<1> USE AgentRunsAssumption DEF AgentRunsAssumption
<1>0. /\ run \in [Runs -> RunStates] /\ sub \in [Subs -> SubStates]
      /\ current \in 0 .. MaxRuns /\ started \in 0 .. MaxRuns /\ current <= started
  BY DEF RunsInv, RunsTypeOK
<1>1. /\ sub' = [sub EXCEPT ![s] = Off] /\ UNCHANGED <<current, started>>
      /\ run' = Rearmed(run) \/ run' = run
  BY DEF Leave
<1>2. Off \in SubStates /\ Off.at = "off"
  BY DEF Off, SubStates
<1>3. /\ run' \in [Runs -> RunStates]
      /\ \A k \in Runs : /\ run'[k].buf = run[k].buf /\ run'[k].task = run[k].task
                         /\ run'[k].status = run[k].status
                         /\ k > started => run'[k] = run[k]
  <2>1. CASE run' = run
    BY <1>0, <2>1
  <2>2. CASE run' = Rearmed(run)
    <3>1. \A k \in Runs : k > started => k # current
      BY <1>0 DEF Runs
    <3> QED
      BY <1>0, <2>2, <3>1, RearmedKeeps
  <2> QED
    BY <1>1, <2>1, <2>2
<1>4. SubOK(s)'
  BY <1>0, <1>1, <1>2 DEF SubOK
<1> QED
  BY <1>1, <1>2, <1>3, <1>4, ClientStep

LEMMA RunsInvStep == RunsInv /\ [RunsNext]_runsVars => RunsInv'
<1> SUFFICES ASSUME RunsInv, [RunsNext]_runsVars PROVE RunsInv'
  OBVIOUS
<1>1. CASE Start
  BY <1>1, StartStep
<1>2. CASE Stop
  <2>1. \E r \in Runs : TRUE
    BY AgentRunsAssumption DEF AgentRunsAssumption, Runs
  <2> QED
    BY <1>2, <2>1, TaskSteps
<1>3. ASSUME NEW r \in Runs, Drain(r) \/ Evict(r) PROVE RunsInv'
  BY <1>3, TaskSteps, PublishStep, EndingSteps DEF Drain
<1>4. ASSUME NEW s \in Subs, Subscribe(s) \/ Yield(s) \/ Silent(s) \/ Return(s) \/ CloseSub(s)
      PROVE  RunsInv'
  BY <1>4, SubscribeStep, TakeSteps, ReadSteps, LeaveStep DEF Yield, Silent, Return, CloseSub
<1>5. CASE UNCHANGED runsVars
  BY <1>5 DEF runsVars, RunsInv, RunsTypeOK, RunOK, SubOK, Complete, Sentinels, EndIsLast, LastOf
<1> QED
  BY <1>1, <1>2, <1>3, <1>4, <1>5 DEF RunsNext

(* Types, the order of the buffers and the queues, for any number of runs, *)
(* events and subscribers.                                                 *)
THEOREM RunsInvariant == RunsSpec => []RunsInv
  BY RunsInitInv, RunsInvStep, PTL DEF RunsSpec

(* The state keeps its types.                                              *)
THEOREM RunsTyped == RunsSpec => []RunsTypeOK
<1>1. RunsInv => RunsTypeOK
  BY DEF RunsInv
<1> QED
  BY <1>1, RunsInvariant, PTL

(* A live event that was not replayed is the very next one.                *)
LEMMA TakenInOrder ==
  ASSUME RunsInv, NEW s \in Subs, TakeLive(s)
  PROVE  Head(sub[s].q) = sub[s].next
<1> DEFINE q == sub[s].q
           n == Len(run[sub[s].run].buf)
           h == Head(q)
           z == Sentinels(q)
           k == Len(q)
           x == sub[s].next
<1>1. sub[s].at = "live" /\ q # <<>> /\ h # End /\ h >= x
  BY DEF TakeLive, Queued
<1>2. /\ q \in Seq(0 .. End) /\ n \in Nat /\ x \in Nat /\ EndIsLast(q) /\ LastOf(q, n)
      /\ x + k >= n + z /\ End \in Nat /\ z \in {0, 1} /\ k \in Nat
  BY <1>1, SubscriberFacts
<1> HIDE DEF q, n, x
<1>3. h + k = n + z /\ h \in 0 .. End
  BY <1>1, <1>2, QueueShrinks
<1>4. h \in Nat
  BY <1>2, <1>3
<1> HIDE DEF h, z, k
<1>5. h = x
  BY <1>1, <1>2, <1>3, <1>4
<1> QED
  BY <1>5 DEF h, q, x

(* What a step may do to one subscriber that stays.                        *)
LEMMA NextStep ==
  ASSUME RunsInv, RunsNext, NEW s \in Subs, sub[s].at # "off", sub'[s].at # "off",
         sub'[s].next # sub[s].next
  PROVE  sub'[s].next = sub[s].next + 1
<1>0. sub \in [Subs -> SubStates] /\ sub[s] \in SubStates
  BY DEF RunsInv, RunsTypeOK
<1>1. CASE Start \/ Stop
  BY <1>1 DEF Start, Stop
<1>2. ASSUME NEW r \in Runs, Drain(r) \/ Evict(r) PROVE FALSE
  <2>1. CASE Begin(r) \/ Resume(r) \/ CancelEarly(r) \/ CancelDrain(r) \/ Evict(r)
    BY <2>1 DEF Begin, Resume, CancelEarly, CancelDrain, Evict
  <2>2. CASE (\E kind \in {"text", "DONE"} : Publish(r, kind)) \/ Finish(r) \/ Fail(r) \/ CloseGenerator(r)
    <3>1. PICK items : sub' = Put(r, items)
      BY <2>2 DEF Publish, Finish, Fail, CloseGenerator, Ended
    <3>2. sub'[s] = sub[s] \/ sub'[s] = [sub[s] EXCEPT !.q = @ \o items]
      BY <3>1 DEF Put
    <3> QED
      BY <1>0, <3>2 DEF SubStates
  <2> QED
    BY <1>2, <2>1, <2>2 DEF Drain
<1>3. ASSUME NEW u \in Subs, Subscribe(u) \/ Yield(u) \/ Silent(u) \/ Return(u) \/ CloseSub(u)
      PROVE  sub'[s].next = sub[s].next + 1
  <2>1. u = s
    <3>1. \E new : sub' = [sub EXCEPT ![u] = new]
      BY <1>3 DEF Subscribe, Yield, Replay, TakeLive, Silent, GoLive, SkipReplayed, SeeSentinel,
                  Return, CloseSub, Leave
    <3> QED
      BY <1>0, <3>1
  <2>2. CASE Subscribe(u) \/ Return(u) \/ CloseSub(u)
    BY <1>0, <2>1, <2>2 DEF Subscribe, Return, CloseSub, Leave, Off
  <2>3. CASE Silent(u)
    BY <1>0, <2>1, <2>3 DEF Silent, GoLive, SkipReplayed, SeeSentinel, SubStates
  <2>4. CASE Replay(u)
    BY <1>0, <2>1, <2>4 DEF Replay, SubStates
  <2>5. CASE TakeLive(u)
    <3>1. Head(sub[s].q) = sub[s].next
      BY <2>1, <2>5, TakenInOrder
    <3>2. sub' = [sub EXCEPT ![s] = [sub[s] EXCEPT !.q = Tail(sub[s].q), !.next = Head(sub[s].q) + 1]]
      BY <1>0, <2>1, <2>5 DEF TakeLive
    <3> QED
      BY <1>0, <3>1, <3>2 DEF SubStates
  <2> QED
    BY <1>3, <2>2, <2>3, <2>4, <2>5 DEF Yield
<1> QED
  BY <1>1, <1>2, <1>3 DEF RunsNext

(* However the replay, the live queue and the sentinel interleave, every   *)
(* subscriber is given the events of its run once and in order.            *)
THEOREM SubscribersInOrder == RunsSpec => GivenInOrder
<1>1. RunsInv /\ [RunsNext]_runsVars =>
        [\A s \in Subs : sub[s].at # "off" /\ sub'[s].at # "off" /\ sub'[s].next # sub[s].next
           => sub'[s].next = sub[s].next + 1]_runsVars
  BY NextStep
<1> QED
  BY <1>1, RunsInvariant, PTL DEF RunsSpec, GivenInOrder

LEMMA WholeAtEnd ==
  ASSUME RunsInv, NEW s \in Subs, sub[s].at # "off", AtEnd(s)
  PROVE  sub[s].next = Len(run[sub[s].run].buf) /\ ~Draining(sub[s].run)
<1> DEFINE r == sub[s].run
<1>1. /\ sub[s].next \in Nat /\ Len(run[r].buf) \in Nat /\ sub[s].next <= Len(run[r].buf)
      /\ r \in Runs
      /\ sub[s].at = "flushed" => run[r].task = "ended" /\ sub[s].next >= Len(run[r].buf)
  BY SubscriberFacts
<1>2. \/ sub[s].at = "flushed"
      \/ ~(sub[s].next < Len(run[r].buf)) /\ run[r].status # "running"
  BY DEF AtEnd, Behind, Terminal
<1>3. RunOK(r)
  BY <1>1 DEF RunsInv
<1> QED
  BY <1>1, <1>2, <1>3 DEF RunOK, Draining

(* A stream that the server ends has carried the whole of a buffer that    *)
(* will not grow.                                                          *)
THEOREM StreamsEndWhole == RunsSpec => EndedStreamIsWhole
<1>1. RunsInv =>
        [\A s \in Subs : sub[s].at # "off" /\ sub'[s].at = "off" /\ AtEnd(s)
           => /\ sub[s].next = Len(run[sub[s].run].buf)
              /\ ~Draining(sub[s].run)]_runsVars
  BY WholeAtEnd
<1> QED
  BY <1>1, RunsInvariant, PTL DEF EndedStreamIsWhole

(* A step that leaves the session's run as it is, but for its timer, and   *)
(* its subscribers too.                                                    *)
LEMMA IdleFrame ==
  ASSUME IdleRunWillBeEvicted, current' = current,
         current # 0 => /\ run'[current].task = "ended" => run[current].task = "ended"
                        /\ run'[current].status = run[current].status
                        /\ run[current].timer => run'[current].timer,
         Subscribers(current)' = Subscribers(current)
  PROVE  IdleRunWillBeEvicted'
  BY DEF IdleRunWillBeEvicted, Terminal

LEMMA SameSubscribers ==
  ASSUME NEW r, \A s \in Subs : sub'[s].at = sub[s].at /\ sub'[s].run = sub[s].run
  PROVE  {s \in Subs : sub'[s].at # "off" /\ sub'[s].run = r} = Subscribers(r)
  BY DEF Subscribers

LEMMA PutSubscribers ==
  ASSUME RunsInv, NEW r, NEW items, NEW k, sub' = Put(r, items)
  PROVE  {s \in Subs : sub'[s].at # "off" /\ sub'[s].run = k} = Subscribers(k)
<1>1. ASSUME NEW s \in Subs PROVE sub'[s].at = sub[s].at /\ sub'[s].run = sub[s].run
  <2>1. sub'[s] = sub[s] \/ sub'[s] = [sub[s] EXCEPT !.q = @ \o items]
    BY DEF Put
  <2>2. sub[s] \in SubStates
    BY DEF RunsInv, RunsTypeOK
  <2> QED
    BY <2>1, <2>2 DEF SubStates
<1> QED
  BY <1>1, SameSubscribers

LEMMA IdleTaskSteps ==
  ASSUME RunsInv, IdleRunWillBeEvicted, NEW r \in Runs, Drain(r)
  PROVE  IdleRunWillBeEvicted'
<1>0. /\ run \in [Runs -> RunStates] /\ current \in 0 .. MaxRuns /\ run[r] \in RunStates /\ RunOK(r)
      /\ current # 0 => current \in Runs /\ run[current] \in RunStates
  BY AgentRunsAssumption DEF RunsInv, RunsTypeOK, Runs, AgentRunsAssumption
<1>1. CASE Begin(r) \/ Resume(r) \/ CancelDrain(r)
  <2>1. current' = current /\ sub' = sub
    BY <1>1 DEF Begin, Resume, CancelDrain
  <2>2. Subscribers(current)' = Subscribers(current)
    BY <2>1 DEF Subscribers
  <2>3. /\ r = current => run'[r].task # "ended"
        /\ \A k \in Runs \ {r} : run'[k] = run[k]
    BY <1>0, <1>1 DEF Begin, Resume, CancelDrain, RunStates
  <2>4. CASE r = current
    BY <2>1, <2>3, <2>4 DEF IdleRunWillBeEvicted
  <2>5. CASE r # current
    BY <1>0, <2>1, <2>2, <2>3, <2>5, IdleFrame
  <2> QED
    BY <2>4, <2>5
<1>2. CASE CancelEarly(r)
  <2>1. current' = current /\ sub' = sub
    BY <1>2 DEF CancelEarly
  <2>2. Subscribers(current)' = Subscribers(current)
    BY <2>1 DEF Subscribers
  <2>3. /\ run'[r].status = "running"
        /\ \A k \in Runs \ {r} : run'[k] = run[k]
    BY <1>0, <1>2 DEF CancelEarly, RunStates, RunOK
  <2>4. CASE r = current
    BY <2>1, <2>3, <2>4 DEF IdleRunWillBeEvicted, Terminal
  <2>5. CASE r # current
    BY <1>0, <2>1, <2>2, <2>3, <2>5, IdleFrame
  <2> QED
    BY <2>4, <2>5
<1>3. ASSUME NEW kind \in {"text", "DONE"}, Publish(r, kind) PROVE IdleRunWillBeEvicted'
  <2>1. current' = current /\ sub' = Put(r, <<Len(run[r].buf)>>)
    BY <1>3 DEF Publish
  <2>2. Subscribers(current)' = Subscribers(current)
    <3>1. {s \in Subs : sub'[s].at # "off" /\ sub'[s].run = current} = Subscribers(current)
      BY <2>1, PutSubscribers
    <3> QED
      BY <2>1, <3>1 DEF Subscribers
  <2>3. /\ run'[r].task = "draining" /\ \A k \in Runs \ {r} : run'[k] = run[k]
    BY <1>0, <1>3 DEF Publish, Draining, RunStates
  <2>4. CASE r = current
    BY <2>1, <2>3, <2>4 DEF IdleRunWillBeEvicted
  <2>5. CASE r # current
    BY <1>0, <2>1, <2>2, <2>3, <2>5, IdleFrame
  <2> QED
    BY <2>4, <2>5
<1>4. CASE Finish(r) \/ Fail(r) \/ CloseGenerator(r)
  <2>1. PICK new : run' = Rearmed([run EXCEPT ![r] = new]) /\ current' = current
    BY <1>4 DEF Finish, Fail, CloseGenerator, Ended
  <2>2. current # 0 => run'[current].timer
    <3>1. SUFFICES ASSUME current # 0 PROVE run'[current].timer
      OBVIOUS
    <3> DEFINE was == [run EXCEPT ![r] = new]
    <3>2. run'[current] = [was[current] EXCEPT !.timer = TRUE]
      BY <1>0, <2>1, <3>1 DEF Rearmed
    <3> QED
      BY <3>2
  <2> QED
    BY <2>1, <2>2 DEF IdleRunWillBeEvicted
<1> QED
  BY <1>1, <1>2, <1>3, <1>4 DEF Drain

LEMMA IdleOtherSteps ==
  ASSUME RunsInv, IdleRunWillBeEvicted, RunsNext, \A r \in Runs : ~Drain(r)
  PROVE  IdleRunWillBeEvicted'
<1>0. /\ run \in [Runs -> RunStates] /\ current \in 0 .. MaxRuns /\ started \in 0 .. MaxRuns
      /\ current # 0 => current \in Runs /\ run[current] \in RunStates
      /\ sub \in [Subs -> SubStates]
  BY AgentRunsAssumption DEF RunsInv, RunsTypeOK, Runs, AgentRunsAssumption
<1>1. CASE Start
  <2>1. current' \in Runs /\ run'[current'].task = "created"
    <3>1. current' = started + 1 /\ started + 1 \in Runs
      BY <1>0, <1>1, AgentRunsAssumption DEF Start, Runs, AgentRunsAssumption
    <3>2. PICK stopping : /\ DOMAIN stopping = Runs
                          /\ \E a : run' = [stopping EXCEPT ![started + 1] =
                                              [NotStarted EXCEPT !.task = "created", !.after = a]]
      BY <1>0, <1>1 DEF Start
    <3> QED
      BY <3>1, <3>2 DEF NotStarted
  <2> QED
    BY <2>1 DEF IdleRunWillBeEvicted
<1>2. CASE Stop
  <2>1. current' = current /\ sub' = sub /\ current # 0 /\ run[current].task # "ended"
        /\ run'[current].task = run[current].task
    BY <1>0, <1>2 DEF Stop, Unfinished, RunStates
  <2> QED
    BY <2>1 DEF IdleRunWillBeEvicted
<1>3. ASSUME NEW r \in Runs, Evict(r) PROVE IdleRunWillBeEvicted'
  <2>1. sub' = sub /\ run' = [run EXCEPT ![r] = [run[r] EXCEPT !.timer = FALSE]]
        /\ current' = IF r = current /\ Terminal(r) /\ Subscribers(r) = {} THEN 0 ELSE current
    BY <1>3 DEF Evict
  <2>2. \A k \in Runs : run'[k].status = run[k].status /\ (k # r => run'[k] = run[k])
    BY <1>0, <2>1 DEF RunStates
  <2>3. Subscribers(current)' = {s \in Subs : sub[s].at # "off" /\ sub[s].run = current'}
    BY <2>1 DEF Subscribers
  <2>4. CASE current' = 0
    BY <2>4 DEF IdleRunWillBeEvicted
  <2>5. CASE current' # 0 /\ r = current
    <3>1. current' = current /\ ~(Terminal(r) /\ Subscribers(r) = {})
      BY <2>1, <2>5
    <3>2. ~(Terminal(current)' /\ Subscribers(current)' = {})
      BY <1>0, <2>2, <2>3, <2>5, <3>1 DEF Terminal, Subscribers
    <3> QED
      BY <3>2 DEF IdleRunWillBeEvicted
  <2>6. CASE r # current
    <3>1. current' = current /\ Subscribers(current)' = Subscribers(current)
      BY <2>1, <2>3, <2>6 DEF Subscribers
    <3> QED
      BY <1>0, <2>2, <2>6, <3>1, IdleFrame
  <2> QED
    BY <2>4, <2>5, <2>6
<1>4. ASSUME NEW s \in Subs, Subscribe(s) PROVE IdleRunWillBeEvicted'
  <2>1. sub'[s].at = "replay" /\ sub'[s].run = current /\ current' = current
    BY <1>0, <1>4 DEF Subscribe
  <2>2. s \in Subscribers(current)'
    BY <2>1 DEF Subscribers
  <2> QED
    BY <2>2 DEF IdleRunWillBeEvicted
<1>5. ASSUME NEW s \in Subs, Yield(s) \/ Silent(s) PROVE IdleRunWillBeEvicted'
  <2>1. UNCHANGED <<current, started, run>>
    BY <1>5 DEF Yield, Replay, TakeLive, Silent, GoLive, SkipReplayed, SeeSentinel
  <2>2. ASSUME NEW u \in Subs
        PROVE  sub'[u].run = sub[u].run /\ (sub'[u].at = "off" <=> sub[u].at = "off")
    <3>1. CASE u # s
      BY <1>0, <1>5, <3>1 DEF Yield, Replay, TakeLive, Silent, GoLive, SkipReplayed, SeeSentinel
    <3>2. CASE u = s
      <4>1. sub[s] \in SubStates
        BY <1>0
      <4>2. CASE Yield(s)
        BY <1>0, <4>1, <4>2, <3>2 DEF Yield, Replay, TakeLive, SubStates
      <4>3. CASE Silent(s)
        BY <1>0, <4>1, <4>3, <3>2 DEF Silent, GoLive, SkipReplayed, SeeSentinel, SubStates, Queued
      <4> QED
        BY <1>5, <4>2, <4>3
    <3> QED
      BY <3>1, <3>2
  <2>3. Subscribers(current)' = Subscribers(current)
    BY <2>1, <2>2 DEF Subscribers
  <2> QED
    BY <2>1, <2>3, IdleFrame
<1>6. ASSUME NEW s \in Subs, Return(s) \/ CloseSub(s) PROVE IdleRunWillBeEvicted'
  <2>1. /\ sub' = [sub EXCEPT ![s] = Off] /\ current' = current
        /\ run' = IF Subscribers(sub[s].run) = {s} /\ Terminal(sub[s].run) THEN Rearmed(run) ELSE run
    BY <1>6 DEF Return, CloseSub, Leave
  <2>2. sub[s].at # "off"
    BY <1>6 DEF Return, CloseSub, AtEnd
  <2>3. Subscribers(current)' = Subscribers(current) \ {s}
    BY <1>0, <2>1 DEF Subscribers, Off
  <2>4. CASE run' = Rearmed(run)
    <3>1. current # 0 => run'[current].timer
      <4>1. current # 0 => run'[current] = [run[current] EXCEPT !.timer = TRUE]
        BY <1>0, <2>4 DEF Rearmed
      <4> QED
        BY <1>0, <4>1 DEF RunStates
    <3> QED
      BY <2>1, <3>1 DEF IdleRunWillBeEvicted
  <2>5. CASE run' = run /\ ~(Subscribers(sub[s].run) = {s} /\ Terminal(sub[s].run))
    <3>1. CASE s \in Subscribers(current)
      <4>1. sub[s].run = current
        BY <3>1 DEF Subscribers
      <4>2. ~(Subscribers(current) \ {s} = {} /\ Terminal(current))
        BY <2>5, <3>1, <4>1
      <4> QED
        BY <2>1, <2>3, <2>5, <4>2 DEF IdleRunWillBeEvicted, Terminal
    <3>2. CASE s \notin Subscribers(current)
      BY <2>1, <2>3, <2>5, <3>2, IdleFrame
    <3> QED
      BY <3>1, <3>2
  <2> QED
    BY <2>1, <2>4, <2>5
<1> QED
  BY <1>1, <1>2, <1>3, <1>4, <1>5, <1>6 DEF RunsNext

(* A finished run that nobody watches is never forgotten: its eviction     *)
(* timer is armed, whatever came and went since.                           *)
THEOREM IdleRunsAreEvicted == RunsSpec => []IdleRunWillBeEvicted
<1>1. RunsInit => IdleRunWillBeEvicted
  BY DEF RunsInit, IdleRunWillBeEvicted
<1>2. RunsInv /\ IdleRunWillBeEvicted /\ [RunsNext]_runsVars => IdleRunWillBeEvicted'
  <2> SUFFICES ASSUME RunsInv, IdleRunWillBeEvicted, [RunsNext]_runsVars
               PROVE  IdleRunWillBeEvicted'
    OBVIOUS
  <2>1. CASE RunsNext
    BY <2>1, IdleTaskSteps, IdleOtherSteps
  <2>2. CASE UNCHANGED runsVars
    BY <2>2 DEF runsVars, IdleRunWillBeEvicted, Terminal, Subscribers
  <2> QED
    BY <2>1, <2>2
<1> QED
  BY <1>1, <1>2, RunsInvariant, PTL DEF RunsSpec


(* NobodyWaitsForever, of one subscriber.                                  *)
Awake(s) ==
  sub[s].at = "live" /\ run[sub[s].run].task = "ended" /\ Terminal(sub[s].run)
    => Sentinels(sub[s].q) = 1

LEMMA EveryoneAwake == NobodyWaitsForever <=> \A s \in Subs : Awake(s)
  BY DEF NobodyWaitsForever, Awake, Sentinels, Last

LEMMA TailKeepsEnd ==
  ASSUME NEW q \in Seq(0 .. End), q # <<>>, Sentinels(q) = 1, Head(q) # End
  PROVE  Sentinels(Tail(q)) = 1
<1>1. Len(q) \in Nat /\ Len(q) > 0 /\ Head(q) = q[1] /\ q[Len(q)] = End
  BY DEF Sentinels
<1>2. Len(q) > 1
  BY <1>1
<1>3. Len(Tail(q)) = Len(q) - 1 /\ Tail(q) # <<>> /\ Tail(q)[Len(Tail(q))] = q[Len(q)]
  BY <1>1, <1>2
<1> QED
  BY <1>1, <1>3 DEF Sentinels

LEMMA EndPutLast ==
  ASSUME NEW q \in Seq(0 .. End), NEW items \in Seq(0 .. End), End \in 0 .. End
  PROVE  Sentinels(q \o Append(items, End)) = 1
<1> DEFINE all == q \o Append(items, End)
<1>1. Append(items, End) \in Seq(0 .. End) /\ Len(Append(items, End)) = Len(items) + 1
      /\ Append(items, End)[Len(items) + 1] = End
  OBVIOUS
<1>2. all \in Seq(0 .. End) /\ Len(all) = Len(q) + Len(items) + 1 /\ all[Len(all)] = End
  BY <1>1
<1>3. all # <<>>
  BY <1>2
<1> QED
  BY <1>2, <1>3 DEF Sentinels

(* A step that leaves the subscriber and its run's task and status alone.  *)
LEMMA AwakeFrame ==
  ASSUME NEW s \in Subs, Awake(s), sub'[s] = sub[s],
         run'[sub[s].run].task = run[sub[s].run].task,
         run'[sub[s].run].status = run[sub[s].run].status
  PROVE  Awake(s)'
  BY DEF Awake, Terminal

LEMMA AwakeTaskSteps ==
  ASSUME RunsInv, NEW s \in Subs, Awake(s), sub[s].at # "off", NEW r \in Runs, Drain(r) \/ Evict(r)
  PROVE  Awake(s)'
<1> DEFINE k == sub[s].run
<1>0. /\ run \in [Runs -> RunStates] /\ run[r] \in RunStates /\ RunOK(r)
      /\ sub[s] \in SubStates /\ k \in Runs /\ sub[s].q \in Seq(0 .. End)
  BY SubscriberFacts DEF RunsInv, RunsTypeOK
<1>1. CASE Begin(r) \/ Resume(r) \/ CancelEarly(r) \/ CancelDrain(r) \/ Evict(r)
  <2>1. sub' = sub
    BY <1>1 DEF Begin, Resume, CancelEarly, CancelDrain, Evict
  <2>2. \A j \in Runs \ {r} : run'[j] = run[j]
    BY <1>0, <1>1 DEF Begin, Resume, CancelEarly, CancelDrain, Evict
  <2>3. CASE Begin(r) \/ Resume(r) \/ CancelDrain(r)
    <3>1. run'[r].task # "ended"
      BY <1>0, <2>3 DEF Begin, Resume, CancelDrain, RunStates
    <3> QED
      BY <1>0, <2>1, <2>2, <3>1, AwakeFrame DEF Awake
  <2>4. CASE CancelEarly(r)
    <3>1. run'[r].status = "running"
      BY <1>0, <2>4 DEF CancelEarly, RunStates, RunOK
    <3> QED
      BY <1>0, <2>1, <2>2, <3>1, AwakeFrame DEF Awake, Terminal
  <2>5. CASE Evict(r)
    <3>1. run'[r].task = run[r].task /\ run'[r].status = run[r].status
      BY <1>0, <2>5 DEF Evict, RunStates
    <3> QED
      BY <1>0, <2>1, <2>2, <3>1, AwakeFrame
  <2> QED
    BY <1>1, <2>3, <2>4, <2>5
<1>2. ASSUME NEW kind \in {"text", "DONE"}, Publish(r, kind) PROVE Awake(s)'
  <2>1. /\ run'[r].task # "ended" /\ \A j \in Runs \ {r} : run'[j] = run[j]
        /\ sub' = Put(r, <<Len(run[r].buf)>>)
    BY <1>0, <1>2 DEF Publish, Draining, RunStates
  <2>2. CASE k = r
    <3>1. sub'[s].run = k
      BY <1>0, <2>1 DEF Put, SubStates
    <3> QED
      BY <2>1, <2>2, <3>1 DEF Awake
  <2>3. CASE k # r
    <3>1. sub'[s] = sub[s]
      BY <2>1, <2>3 DEF Put, Subscribers
    <3> QED
      BY <1>0, <2>1, <2>3, <3>1, AwakeFrame
  <2> QED
    BY <2>2, <2>3
<1>3. CASE Finish(r) \/ Fail(r) \/ CloseGenerator(r)
  <2>1. PICK changed, items : Ended(r, changed, items) /\ changed \in RunStates /\ items \in Seq(0 .. End)
    <3>1. <<>> \in Seq(0 .. End)
      OBVIOUS
    <3>2. CASE Finish(r)
      <4>1. [run[r] EXCEPT !.status = "done"] \in RunStates
        BY <1>0 DEF RunStates
      <4> QED
        BY <3>1, <3>2, <4>1 DEF Finish
    <3>3. CASE CloseGenerator(r)
      BY <1>0, <3>1, <3>3 DEF CloseGenerator
    <3>4. CASE Fail(r)
      <4> DEFINE n == Len(run[r].buf)
                 all == run[r].buf \o <<"text", "DONE">>
      <4>1. <<n, n + 1>> \in Seq(0 .. End)
        <5>1. n \in Nat /\ n <= MaxText
          BY <1>0, <3>4 DEF Fail, RunOK, RunStates
        <5>2. n \in 0 .. End /\ n + 1 \in 0 .. End
          BY <5>1, AgentRunsAssumption DEF End, AgentRunsAssumption
        <5> QED
          BY <5>2
      <4>2. [run[r] EXCEPT !.status = "error", !.buf = @ \o <<"text", "DONE">>] \in RunStates
        <5>1. all \in Seq({"text", "DONE"})
          BY <1>0 DEF RunStates
        <5> HIDE DEF all
        <5>2. [run[r] EXCEPT !.status = "error", !.buf = all] \in RunStates
          BY <1>0, <5>1 DEF RunStates
        <5> QED
          BY <5>2 DEF all
      <4> QED
        BY <3>4, <4>1, <4>2 DEF Fail
    <3> QED
      BY <1>3, <3>2, <3>3, <3>4
  <2> DEFINE runs == [run EXCEPT ![r] = [changed EXCEPT !.task = "ended", !.cancel = FALSE]]
  <2>2. run' = Rearmed(runs) /\ sub' = Put(r, Append(items, End)) /\ runs \in [Runs -> RunStates]
    BY <1>0, <2>1 DEF Ended, RunStates
  <2>3. CASE k = r
    <3>1. s \in Subscribers(r)
      BY <2>3 DEF Subscribers
    <3>2. sub'[s].q = sub[s].q \o Append(items, End)
      BY <1>0, <2>2, <3>1 DEF Put, SubStates
    <3>3. End \in 0 .. End
      BY AgentRunsAssumption DEF End, AgentRunsAssumption
    <3> QED
      BY <1>0, <2>1, <3>2, <3>3, EndPutLast DEF Awake
  <2>4. CASE k # r
    <3>1. sub'[s] = sub[s]
      BY <2>2, <2>4 DEF Put, Subscribers
    <3>2. run'[k].task = runs[k].task /\ run'[k].status = runs[k].status /\ runs[k] = run[k]
      BY <1>0, <2>2, <2>4, RearmedKeeps
    <3> QED
      BY <3>1, <3>2, AwakeFrame
  <2> QED
    BY <2>3, <2>4
<1> QED
  BY <1>1, <1>2, <1>3 DEF Drain

LEMMA AwakeClientSteps ==
  ASSUME RunsInv, NEW s \in Subs, Awake(s), sub[s].at # "off", NEW u \in Subs,
         Subscribe(u) \/ Yield(u) \/ Silent(u) \/ Return(u) \/ CloseSub(u)
  PROVE  Awake(s)'
<1> DEFINE k == sub[s].run
<1>0. /\ run \in [Runs -> RunStates] /\ sub \in [Subs -> SubStates] /\ k \in Runs
      /\ sub[s] \in SubStates /\ sub[s].q \in Seq(0 .. End)
      /\ current \in 0 .. MaxRuns
  BY SubscriberFacts DEF RunsInv, RunsTypeOK
<1>1. \A j \in Runs : run'[j].task = run[j].task /\ run'[j].status = run[j].status
  <2>1. CASE Subscribe(u)
    BY <1>0, <2>1 DEF Subscribe, RunStates
  <2>2. CASE Return(u) \/ CloseSub(u)
    <3>1. run' = run \/ run' = Rearmed(run)
      BY <2>2 DEF Return, CloseSub, Leave
    <3> QED
      BY <1>0, <3>1, RearmedKeeps
  <2>3. CASE Yield(u) \/ Silent(u)
    BY <2>3 DEF Yield, Replay, TakeLive, Silent, GoLive, SkipReplayed, SeeSentinel
  <2> QED
    BY <2>1, <2>2, <2>3
<1>2. CASE u # s
  <2>1. \E new : sub' = [sub EXCEPT ![u] = new]
    BY DEF Subscribe, Yield, Replay, TakeLive, Silent, GoLive, SkipReplayed, SeeSentinel,
           Return, CloseSub, Leave
  <2>2. sub'[s] = sub[s]
    BY <1>0, <1>2, <2>1
  <2> QED
    BY <1>0, <1>1, <2>2, AwakeFrame
<1>3. CASE u = s
  <2>1. CASE Subscribe(s) \/ Return(s) \/ CloseSub(s) \/ Replay(s) \/ SeeSentinel(s)
    <3>1. sub'[s].at # "live"
      <4>1. CASE Subscribe(s)
        BY <4>1 DEF Subscribe
      <4>2. CASE Return(s) \/ CloseSub(s)
        BY <1>0, <4>2 DEF Return, CloseSub, Leave, Off
      <4>3. CASE Replay(s) \/ SeeSentinel(s)
        BY <1>0, <4>3 DEF Replay, SeeSentinel, SubStates
      <4> QED
        BY <2>1, <4>1, <4>2, <4>3
    <3> QED
      BY <3>1 DEF Awake
  <2>2. CASE GoLive(s)
    <3>1. sub'[s].run = k /\ run' = run /\ ~Terminal(k)
      BY <1>0, <2>2 DEF GoLive, SubStates
    <3> QED
      BY <3>1 DEF Awake, Terminal
  <2>3. CASE TakeLive(s) \/ SkipReplayed(s)
    <3>1. /\ sub[s].at = "live" /\ sub[s].q # <<>> /\ sub'[s].run = k
          /\ sub'[s].q = Tail(sub[s].q) /\ run' = run
      BY <1>0, <2>3 DEF TakeLive, SkipReplayed, Queued, SubStates
    <3>2. Head(sub[s].q) # End
      <4>1. CASE TakeLive(s)
        BY <4>1 DEF TakeLive
      <4>2. CASE SkipReplayed(s)
        <5>1. Head(sub[s].q) < sub[s].next
          BY <4>2 DEF SkipReplayed
        <5>2. sub[s].next \in Nat /\ Len(run[k].buf) \in Nat
              /\ sub[s].next <= Len(run[k].buf) /\ Len(run[k].buf) <= End
          BY SubscriberFacts
        <5>3. End \in Nat
          BY AgentRunsAssumption DEF End, AgentRunsAssumption
        <5> QED
          BY <5>1, <5>2, <5>3
      <4> QED
        BY <2>3, <4>1, <4>2
    <3> QED
      BY <1>0, <3>1, <3>2, TailKeepsEnd DEF Awake, Terminal
  <2> QED
    BY <1>3, <2>1, <2>2, <2>3 DEF Yield, Silent
<1> QED
  BY <1>2, <1>3

LEMMA OffIsNotLive ==
  ASSUME RunsInv, RunsNext, NEW s \in Subs, sub[s].at = "off"
  PROVE  sub'[s].at # "live"
<1>0. sub \in [Subs -> SubStates]
  BY DEF RunsInv, RunsTypeOK
<1>1. CASE Start \/ Stop
  BY <1>1 DEF Start, Stop
<1>2. ASSUME NEW r \in Runs, Drain(r) \/ Evict(r) PROVE sub'[s].at # "live"
  <2>1. sub' = sub \/ \E items : sub' = Put(r, items)
    BY <1>2 DEF Drain, Begin, Resume, CancelEarly, Publish, Finish, Fail, CancelDrain,
                CloseGenerator, Ended, Evict
  <2>2. ASSUME NEW items, sub' = Put(r, items) PROVE sub'[s] = sub[s]
    BY <2>2 DEF Put, Subscribers
  <2> QED
    BY <2>1, <2>2
<1>3. ASSUME NEW u \in Subs, Subscribe(u) \/ Yield(u) \/ Silent(u) \/ Return(u) \/ CloseSub(u)
      PROVE  sub'[s].at # "live"
  <2>1. CASE u = s
    <3>1. Subscribe(s)
      BY <1>3, <2>1 DEF Yield, Replay, TakeLive, Silent, GoLive, SkipReplayed, SeeSentinel, Queued,
                        Return, CloseSub, AtEnd
    <3> QED
      BY <1>0, <3>1 DEF Subscribe
  <2>2. CASE u # s
    <3>1. \E new : sub' = [sub EXCEPT ![u] = new]
      BY <1>3 DEF Subscribe, Yield, Replay, TakeLive, Silent, GoLive, SkipReplayed, SeeSentinel,
                  Return, CloseSub, Leave
    <3> QED
      BY <1>0, <2>2, <3>1
  <2> QED
    BY <2>1, <2>2
<1> QED
  BY <1>1, <1>2, <1>3 DEF RunsNext

(* What SubscribersReleased rests on: a run that left a status behind has  *)
(* woken every client that follows it live.                                *)
THEOREM FinishedRunsWakeTheirClients == RunsSpec => []NobodyWaitsForever
<1>1. RunsInit => NobodyWaitsForever
  BY DEF RunsInit, NobodyWaitsForever, Off
<1>2. RunsInv /\ NobodyWaitsForever /\ [RunsNext]_runsVars => NobodyWaitsForever'
  <2> SUFFICES ASSUME RunsInv, NobodyWaitsForever, [RunsNext]_runsVars, NEW s \in Subs
               PROVE  Awake(s)'
    BY EveryoneAwake DEF NobodyWaitsForever, Awake, Terminal, Sentinels, Last
  <2>0. Awake(s) /\ run \in [Runs -> RunStates] /\ sub \in [Subs -> SubStates]
    BY EveryoneAwake DEF RunsInv, RunsTypeOK
  <2>1. CASE sub[s].at = "off" /\ RunsNext
    BY <2>1, OffIsNotLive DEF Awake
  <2>2. CASE sub[s].at # "off" /\ RunsNext
    <3>1. CASE Start \/ Stop
      <4>1. /\ sub' = sub /\ sub[s].run \in 1 .. started /\ sub[s].run \in Runs
            /\ run'[sub[s].run].task = run[sub[s].run].task
            /\ run'[sub[s].run].status = run[sub[s].run].status
        <5>1. sub[s].run \in 1 .. started /\ sub[s].run \in Runs /\ started \in Nat
          BY <2>2, SubscriberFacts DEF RunsInv, RunsTypeOK
        <5>2. CASE Start
          <6> DEFINE inFlight == current # 0 /\ Unfinished(current)
                     stopping == IF current = 0 THEN run
                                 ELSE [run EXCEPT ![current].cancel = @ \/ inFlight, ![current].timer = FALSE]
          <6>1. \E new : run' = [stopping EXCEPT ![started + 1] = new]
            BY <5>2 DEF Start
          <6>2. stopping[sub[s].run].task = run[sub[s].run].task
                /\ stopping[sub[s].run].status = run[sub[s].run].status
                /\ DOMAIN stopping = Runs
            BY <2>0, <5>1 DEF RunStates
          <6>3. sub[s].run # started + 1
            BY <5>1
          <6> HIDE DEF stopping
          <6>4. run'[sub[s].run] = stopping[sub[s].run]
            BY <5>1, <6>1, <6>2, <6>3
          <6> QED
            BY <5>1, <5>2, <6>2, <6>4 DEF Start
        <5>3. CASE Stop
          BY <2>0, <5>1, <5>3 DEF Stop, RunStates
        <5> QED
          BY <3>1, <5>2, <5>3
      <4> QED
        BY <2>0, <4>1, AwakeFrame
    <3> QED
      BY <2>0, <2>2, <3>1, AwakeTaskSteps, AwakeClientSteps DEF RunsNext
  <2>3. CASE UNCHANGED runsVars
    BY <2>0, <2>3 DEF runsVars, Awake, Terminal
  <2> QED
    BY <2>1, <2>2, <2>3
<1> QED
  BY <1>1, <1>2, RunsInvariant, PTL DEF RunsSpec
=============================================================================
