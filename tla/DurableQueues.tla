--------------------------- MODULE DurableQueues ---------------------------
(***************************************************************************)
(* The durable work queues of the file-backed orchestrator: named queues   *)
(* with a concurrency cap and/or a rolling rate limit, guarded by one lock *)
(* per queue and persisted together in one file, so that a restart over    *)
(* the same directory does not grant a slot that is still held.            *)
(*                                                                         *)
(* An operation holds its queue's lock over three steps: it changes the    *)
(* memory, takes a snapshot of ALL queues (_save_queue dumps every queue), *)
(* and replaces the file.  The process may die between any two of them.    *)
(***************************************************************************)
EXTENDS Naturals, FiniteSets, Sequences, SequencesExt

CONSTANTS Queues,         \* the names passed to create_queue
          Work,           \* work-ids
          WorkOf,         \* queue -> the work-ids its callers bring to it
          Concurrency,    \* queue -> cap on the slots, or None
          LimiterLimit,   \* queue -> admissions per rolling window, or None
          LimiterPeriod,  \* queue -> length of the window
          Overlap,        \* do two queues' operations run at the same time?
          MaxTime,        \* bound on the clock
          None

ASSUME QueuesAssumption ==
  /\ IsFiniteSet(Work)
  /\ WorkOf \in [Queues -> SUBSET Work]
  /\ None \notin Nat /\ None \notin Work
  /\ Concurrency   \in [Queues -> (Nat \ {0}) \cup {None}]
  /\ LimiterLimit  \in [Queues -> (Nat \ {0}) \cup {None}]
  /\ LimiterPeriod \in [Queues -> Nat]
  /\ Overlap \in BOOLEAN
  /\ MaxTime \in Nat

VARIABLES active,      \* queue -> the works that hold a slot (memory)
          waiting,     \* queue -> FIFO of the works that could not be admitted
          admitted,    \* queue -> the times of the admissions the limiter has counted
          op,          \* queue -> the operation that holds the queue's lock
          disk,        \* _queues.json: queue -> what was saved of it
          up,          \* is the process running?
          now,         \* time.monotonic()
          holds        \* history: the works told "admitted" and not yet released,
                       \* but for those whose slot an unreadable file has lost since

vars == <<active, waiting, admitted, op, disk, up, now, holds>>

Times == 0..MaxTime

Saved == [active : SUBSET Work, waiting : Seq(Work)]

(* The operation that holds a queue's lock: how far it got, the work it    *)
(* will tell that it is admitted, and the snapshot it will write.          *)
Op   == [phase : {"free", "mutated"}, tells : Work \cup {None}, data : {None}]
          \cup [phase : {"dumped"}, tells : Work \cup {None}, data : [Queues -> Saved]]
NoOp == [phase |-> "free", tells |-> None, data |-> None]

TypeOK ==
  /\ active  \in [Queues -> SUBSET Work]
  /\ waiting \in [Queues -> Seq(Work)]
  /\ admitted \in [Queues -> Seq(Times)]
  /\ op   \in [Queues -> Op]
  /\ disk \in [Queues -> Saved]
  /\ up   \in BOOLEAN
  /\ now  \in Times
  /\ holds  \in [Queues -> SUBSET Work]

Empty == [active |-> {}, waiting |-> <<>>]

(* create_queue ran for every queue, and saved it.                         *)
Init ==
  /\ active  = [q \in Queues |-> {}]
  /\ waiting = [q \in Queues |-> <<>>]
  /\ admitted = [q \in Queues |-> <<>>]
  /\ op   = [q \in Queues |-> NoOp]
  /\ disk = [q \in Queues |-> Empty]
  /\ up   = TRUE
  /\ now  = 0
  /\ holds  = [q \in Queues |-> {}]

-----------------------------------------------------------------------------
(* The admissions of the rolling window that ends now. The code keeps the  *)
(* times in a deque and, before it counts, drops those at its front that   *)
(* left the window, up to the first that did not.                          *)
\* Slip: an admission leaves the window one tick too early.
RecentTooShort(q) ==
  Cardinality({i \in DOMAIN admitted[q] :
                 \E j \in 1 .. i : now - admitted[q][j] < LimiterPeriod[q] - 1})

Recent(q) ==
  Cardinality({i \in DOMAIN admitted[q] :
                 \E j \in 1 .. i : now - admitted[q][j] < LimiterPeriod[q]})

RateOk(q) == LimiterLimit[q] # None => Recent(q) < LimiterLimit[q]

\* Slip: one slot too many.
CapacityOkOffByOne(q, act) ==
  Concurrency[q] # None => Cardinality(act) <= Concurrency[q]

CapacityOk(q, act) == Concurrency[q] # None => Cardinality(act) < Concurrency[q]

(* The admission is counted only by a queue that has a limiter.            *)
CountAdmission(q) ==
  admitted' = IF LimiterLimit[q] = None THEN admitted
              ELSE [admitted EXCEPT ![q] = Append(@, now)]

LockFree(q) ==
  /\ up
  /\ op[q] = NoOp
  /\ Overlap \/ \A p \in Queues : op[p] = NoOp

Begin(q, told) ==
  op' = [op EXCEPT ![q] = [phase |-> "mutated", tells |-> told, data |-> None]]

(* acquire / try_admit: an active work is admitted again at no cost, a work *)
(* that fits is admitted, any other joins the FIFO unless it is there.      *)
(* An admitted work is NOT taken off the FIFO.                              *)
Readmit(q, w) ==
  /\ LockFree(q)
  /\ w \in active[q]
  /\ Begin(q, w)
  /\ UNCHANGED <<admitted, active, waiting, disk, up, now, holds>>

Admit(q, w) ==
  /\ LockFree(q)
  /\ w \notin active[q]
  /\ CapacityOk(q, active[q]) /\ RateOk(q)
  /\ active' = [active EXCEPT ![q] = @ \cup {w}]
  /\ CountAdmission(q)
  /\ Begin(q, w)
  /\ UNCHANGED <<waiting, disk, up, now, holds>>

Enqueue(q, w) ==
  /\ LockFree(q)
  /\ w \notin active[q]
  /\ ~(CapacityOk(q, active[q]) /\ RateOk(q))
  /\ waiting' = [waiting EXCEPT ![q] = IF w \in Range(@) THEN @ ELSE Append(@, w)]
  /\ Begin(q, None)
  /\ UNCHANGED <<admitted, active, disk, up, now, holds>>

(* release: the slot is freed, whether or not it was held, and the FIFO is *)
(* scanned once: the first waiter that is already active is dropped and    *)
(* returned, the first that fits is admitted and returned.                 *)
Rest(q, w) == active[q] \ {w}

Promotable(q, w) ==
  {i \in DOMAIN waiting[q] :
     waiting[q][i] \in Rest(q, w) \/ (CapacityOk(q, Rest(q, w)) /\ RateOk(q))}

\* Slip: only the slot is freed, nobody is promoted.
ReleaseNoPivot(q, w) ==
  /\ LockFree(q)
  /\ active' = [active EXCEPT ![q] = @ \ {w}]
  /\ holds' = [holds EXCEPT ![q] = @ \ {w}]
  /\ Begin(q, None)
  /\ UNCHANGED <<admitted, waiting, disk, up, now>>

ReleaseQuietly(q, w) ==
  /\ LockFree(q)
  /\ Promotable(q, w) = {}
  /\ active' = [active EXCEPT ![q] = @ \ {w}]
  /\ holds' = [holds EXCEPT ![q] = @ \ {w}]
  /\ Begin(q, None)
  /\ UNCHANGED <<admitted, waiting, disk, up, now>>

\* Slip: the newest waiter is promoted (pop instead of popleft).
ReleasePromoteNewest(q, w) ==
  /\ LockFree(q)
  /\ \E i \in Promotable(q, w) :
       /\ \A j \in Promotable(q, w) : i >= j
       /\ waiting' = [waiting EXCEPT ![q] = RemoveAt(@, i)]
       /\ active' = [active EXCEPT ![q] = Rest(q, w) \cup {waiting[q][i]}]
       /\ IF waiting[q][i] \in Rest(q, w) THEN UNCHANGED admitted ELSE CountAdmission(q)
  /\ holds' = [holds EXCEPT ![q] = @ \ {w}]
  /\ Begin(q, None)
  /\ UNCHANGED <<disk, up, now>>

ReleasePromote(q, w) ==
  /\ LockFree(q)
  /\ \E i \in Promotable(q, w) :
       /\ \A j \in Promotable(q, w) : i <= j
       /\ waiting' = [waiting EXCEPT ![q] = RemoveAt(@, i)]
       /\ active' = [active EXCEPT ![q] = Rest(q, w) \cup {waiting[q][i]}]
       /\ IF waiting[q][i] \in Rest(q, w) THEN UNCHANGED admitted ELSE CountAdmission(q)
  /\ holds' = [holds EXCEPT ![q] = @ \ {w}]
  /\ Begin(q, None)
  /\ UNCHANGED <<disk, up, now>>

(* _save_queue, first half: the data of every queue is collected.          *)
Memory == [p \in Queues |-> [active |-> active[p], waiting |-> waiting[p]]]

\* Slip: only the queue at hand is saved, and the file loses the others.
DumpOwnQueue(q) ==
  /\ up /\ op[q].phase = "mutated"
  /\ op' = [op EXCEPT ![q] = [phase |-> "dumped", tells |-> @.tells,
                              data |-> [p \in {q} |-> Memory[p]]]]
  /\ UNCHANGED <<active, waiting, admitted, disk, up, now, holds>>

Dump(q) ==
  /\ up /\ op[q].phase = "mutated"
  /\ op' = [op EXCEPT ![q] = [phase |-> "dumped", tells |-> @.tells, data |-> Memory]]
  /\ UNCHANGED <<active, waiting, admitted, disk, up, now, holds>>

(* _save_queue, second half: os.replace, then the lock is dropped and the  *)
(* caller learns the result.                                               *)
Replace(q) ==
  /\ up /\ op[q].phase = "dumped"
  /\ disk' = op[q].data
  /\ holds' = IF op[q].tells = None THEN holds
              ELSE [holds EXCEPT ![q] = @ \cup {op[q].tells}]
  /\ op' = [op EXCEPT ![q] = NoOp]
  /\ UNCHANGED <<active, waiting, admitted, up, now>>

(* The write fails (full disk, permissions): the caller sees an OSError,   *)
(* the change stays in memory and the file keeps what it had.              *)
SaveFails(q) ==
  /\ up /\ op[q].phase \in {"mutated", "dumped"}
  /\ op' = [op EXCEPT ![q] = NoOp]
  /\ UNCHANGED <<active, waiting, admitted, disk, up, now, holds>>

Crash ==
  /\ up
  /\ up' = FALSE
  /\ active' = [q \in Queues |-> {}]
  /\ waiting' = [q \in Queues |-> <<>>]
  /\ admitted' = [q \in Queues |-> <<>>]
  /\ op' = [q \in Queues |-> NoOp]
  /\ UNCHANGED <<disk, now, holds>>

(* _load_queues: the slots and the FIFO come back from the file, the       *)
(* limiter's window does not.  create_queue finds the queues there.        *)
\* Slip: the FIFO comes back and the slots do not (the leak DUR-1 is about).
RestartForgets ==
  /\ ~up
  /\ up' = TRUE
  /\ waiting' = [q \in Queues |-> disk[q].waiting]
  /\ UNCHANGED <<active, admitted, op, disk, now, holds>>

Restart ==
  /\ ~up
  /\ up' = TRUE
  /\ active'  = [q \in Queues |-> disk[q].active]
  /\ waiting' = [q \in Queues |-> disk[q].waiting]
  /\ UNCHANGED <<admitted, op, disk, now, holds>>

(* The file cannot be read or parsed: _load_queues gives up without a word, *)
(* create_queue makes the queues anew, empty, and saves them over the file. *)
(* Whoever held a slot still works, and nothing guards the slot any more.  *)
RestartUnread ==
  /\ ~up
  /\ up' = TRUE
  /\ disk' = [q \in Queues |-> Empty]
  /\ holds' = [q \in Queues |-> {}]
  /\ UNCHANGED <<active, waiting, admitted, op, now>>

Tick ==
  /\ now < MaxTime
  /\ now' = now + 1
  /\ UNCHANGED <<active, waiting, admitted, op, disk, up, holds>>

Next ==
  \/ \E q \in Queues : \E w \in WorkOf[q] :
       \/ Readmit(q, w) \/ Admit(q, w) \/ Enqueue(q, w)
       \/ ReleaseQuietly(q, w) \/ ReleasePromote(q, w)
  \/ \E q \in Queues : Dump(q) \/ Replace(q) \/ SaveFails(q)
  \/ Crash \/ Restart \/ RestartUnread \/ Tick

Spec == Init /\ [][Next]_vars
-----------------------------------------------------------------------------
(* At no moment, before or after a crash, do more works believe they hold  *)
(* a slot than the cap allows: a restart that reads the file never grants  *)
(* a held slot again (DUR-1), whatever was lost between the change, the    *)
(* dump and the write.  A restart that cannot read it does: who held a     *)
(* slot before it is left out of holds, and only who came after it counts. *)
SlotsNeverExceedCap ==
  \A q \in Queues : Concurrency[q] # None =>
    /\ Cardinality(holds[q]) <= Concurrency[q]
    /\ Cardinality(active[q]) <= Concurrency[q]

(* A slot somebody was told about is on disk, and in memory while the      *)
(* process runs, until a restart finds the file unreadable: the file is    *)
(* what guards the slot against a second grant.                            *)
HoldersAreDurable ==
  \A q \in Queues : /\ holds[q] \subseteq disk[q].active
                    /\ up => holds[q] \subseteq active[q]

Unlimited(q) == LimiterLimit[q] = None /\ Concurrency[q] # None

(* Pivot (FR-DUR-4): in a queue without a rate limit no slot is idle while *)
(* somebody waits, and a waiter is not also a holder, in the state that    *)
(* runs and in the state a restart would find.                             *)
WorkConserving ==
  \A q \in Queues : Unlimited(q) =>
    /\ waiting[q] # <<>> => Cardinality(active[q]) = Concurrency[q]
    /\ disk[q].waiting # <<>> => Cardinality(disk[q].active) = Concurrency[q]
    /\ Range(waiting[q]) \cap active[q] = {}

(* Nobody is admitted ahead of a work that waited in front of him, by      *)
(* acquire or by promotion, in a queue without a rate limit.               *)
NoOvertaking ==
  [][\A q \in Queues : Unlimited(q) /\ up /\ up' =>
       \A i, j \in DOMAIN waiting[q] :
         i < j /\ waiting[q][j] \in active'[q] => waiting[q][i] \in active'[q]]_vars

(* The admissions counted in the window that ends at t.                    *)
Window(q, t) ==
  {i \in DOMAIN admitted[q] :
     admitted[q][i] <= t /\ t < admitted[q][i] + LimiterPeriod[q]}

(* However calls, promotions and ticks interleave, one process admits no   *)
(* more than the limit in any rolling window.                              *)
RateBound ==
  \A q \in Queues : LimiterLimit[q] # None =>
    \A t \in Times : Cardinality(Window(q, t)) <= LimiterLimit[q]
=============================================================================
