------------------------- MODULE DurableQueuesProofs -------------------------
(***************************************************************************)
(* Proofs about the durable queues, for any set of queues, any works and   *)
(* any limits, over any number of crashes, failed writes and restarts:     *)
(* type correctness; when operations of different queues do not overlap,   *)
(* that the slots never exceed the cap; that no slot idles while somebody  *)
(* waits, and that nobody is overtaken.                                    *)
(***************************************************************************)
EXTENDS DurableQueues, FiniteSetTheorems, SequenceTheorems, TLAPS

(* Taking an element out of a sequence leaves a sequence over the same set. *)
LEMMA RemoveAtType ==
  ASSUME NEW S, NEW s \in Seq(S), NEW i \in 1..Len(s)
  PROVE  RemoveAt(s, i) \in Seq(S)
BY DEF RemoveAt

(* Every variable keeps its type, in memory, on disk and in the snapshots. *)
THEOREM TypeCorrect == Spec => []TypeOK
<1>1. Init => TypeOK
  BY QueuesAssumption DEF Init, TypeOK, Empty, Saved, NoOp, Op, Times
<1>2. TypeOK /\ [Next]_vars => TypeOK'
  <2> SUFFICES ASSUME TypeOK, [Next]_vars PROVE TypeOK'
    OBVIOUS
  <2> USE QueuesAssumption DEF TypeOK, Times
  <2>1. ASSUME NEW q \in Queues, NEW w \in WorkOf[q]
        PROVE  w \in Work
    BY <2>1
  <2>2. ASSUME NEW q \in Queues, NEW told \in Work \cup {None}, Begin(q, told)
        PROVE  op' \in [Queues -> Op]
    BY <2>2 DEF Begin, Op
  <2>3. ASSUME NEW q \in Queues, CountAdmission(q)
        PROVE  admitted' \in [Queues -> Seq(Times)]
    BY <2>3 DEF CountAdmission
  <2>4. ASSUME NEW q \in Queues, NEW w \in WorkOf[q], Readmit(q, w)
        PROVE  TypeOK'
    BY <2>1, <2>2, <2>4 DEF Readmit
  <2>5. ASSUME NEW q \in Queues, NEW w \in WorkOf[q], Admit(q, w)
        PROVE  TypeOK'
    BY <2>1, <2>2, <2>3, <2>5 DEF Admit
  <2>6. ASSUME NEW q \in Queues, NEW w \in WorkOf[q], Enqueue(q, w)
        PROVE  TypeOK'
    BY <2>1, <2>2, <2>6 DEF Enqueue
  <2>7. ASSUME NEW q \in Queues, NEW w \in WorkOf[q], ReleaseQuietly(q, w)
        PROVE  TypeOK'
    BY <2>2, <2>7 DEF ReleaseQuietly
  <2>8. ASSUME NEW q \in Queues, NEW w \in WorkOf[q], ReleasePromote(q, w)
        PROVE  TypeOK'
    <3>1. PICK i \in Promotable(q, w) :
            /\ waiting' = [waiting EXCEPT ![q] = RemoveAt(@, i)]
            /\ active' = [active EXCEPT ![q] = Rest(q, w) \cup {waiting[q][i]}]
            /\ IF waiting[q][i] \in Rest(q, w)
               THEN UNCHANGED admitted ELSE CountAdmission(q)
      BY <2>8 DEF ReleasePromote
    <3>2. i \in 1..Len(waiting[q]) /\ waiting[q] \in Seq(Work)
      BY DEF Promotable
    <3>3. waiting' \in [Queues -> Seq(Work)]
      BY <3>1, <3>2, RemoveAtType
    <3>4. active' \in [Queues -> SUBSET Work]
      BY <3>1, <3>2 DEF Rest
    <3>5. admitted' \in [Queues -> Seq(Times)]
      BY <2>3, <3>1
    <3>6. op' \in [Queues -> Op]
      BY <2>2, <2>8 DEF ReleasePromote
    <3> QED
      BY <2>8, <3>3, <3>4, <3>5, <3>6 DEF ReleasePromote
  <2>9. ASSUME NEW q \in Queues, Dump(q)
        PROVE  TypeOK'
    <3>1. Memory \in [Queues -> Saved]
      BY DEF Memory, Saved
    <3>2. op[q] \in Op /\ op[q].tells \in Work \cup {None}
      BY DEF Op
    <3>3. op' \in [Queues -> Op]
      BY <2>9, <3>1, <3>2 DEF Dump, Op
    <3> QED
      BY <2>9, <3>3 DEF Dump
  <2>10. NoOp \in Op
    BY DEF NoOp, Op
  <2>11. ASSUME NEW q \in Queues, Replace(q)
         PROVE  TypeOK'
    <3>1. op[q].data \in [Queues -> Saved] /\ op[q].tells \in Work \cup {None}
      BY <2>11 DEF Replace, Op
    <3> QED
      BY <2>10, <2>11, <3>1 DEF Replace
  <2>12. ASSUME NEW q \in Queues, SaveFails(q)
         PROVE  TypeOK'
    BY <2>10, <2>12 DEF SaveFails
  <2>16. CASE Crash
    <3>1. /\ active'   \in [Queues -> SUBSET Work]
          /\ waiting'  \in [Queues -> Seq(Work)]
          /\ admitted' \in [Queues -> Seq(Times)]
      BY <2>16 DEF Crash
    <3>2. op' \in [Queues -> Op]
      BY <2>10, <2>16 DEF Crash
    <3> QED
      BY <2>16, <3>1, <3>2 DEF Crash
  <2>13. CASE Restart
    BY <2>13 DEF Restart, Saved
  <2>17. CASE RestartUnread
    BY <2>17 DEF RestartUnread, Saved, Empty
  <2>14. CASE Tick
    BY <2>14 DEF Tick
  <2>15. CASE UNCHANGED vars
    BY <2>15 DEF vars
  <2> QED
    BY <2>4, <2>5, <2>6, <2>7, <2>8, <2>9, <2>11, <2>12, <2>13, <2>14,
       <2>15, <2>16, <2>17 DEF Next
<1> QED
  BY <1>1, <1>2, PTL DEF Spec
-----------------------------------------------------------------------------
(* Production code has one queue, and then nothing overlaps; with several  *)
(* it must be known that their operations do not.                          *)
OneQueueAtATime == Overlap = FALSE \/ \A p, q \in Queues : p = q

(* The inductive invariant behind the two safety properties: operations do *)
(* not overlap, a snapshot that was taken is still what the memory holds,  *)
(* a work about to be told it is admitted is active, a process that is     *)
(* down has no operation, and the caps hold in memory and on disk.         *)
Serial     == \A p, q \in Queues : op[p] # NoOp /\ op[q] # NoOp => p = q
Snapshot   == \A q \in Queues : op[q].phase = "dumped" => op[q].data = Memory
Announced  == \A q \in Queues : op[q].tells # None => op[q].tells \in active[q]
Quiescent  == ~up => \A q \in Queues : op[q] = NoOp
Capped(q, set) == Concurrency[q] # None => Cardinality(set) <= Concurrency[q]
CapsHold   == \A q \in Queues : Capped(q, active[q]) /\ Capped(q, disk[q].active)

QueueInv == /\ TypeOK /\ Serial /\ Snapshot /\ Announced /\ Quiescent
            /\ CapsHold /\ HoldersAreDurable

(* What a cap bounds it bounds in every subset.                            *)
LEMMA CappedSubset ==
  ASSUME NEW q \in Queues, NEW S \in SUBSET Work, NEW T \in SUBSET S, Capped(q, S)
  PROVE  Capped(q, T)
<1>1. IsFiniteSet(S) /\ IsFiniteSet(T)
  BY QueuesAssumption, FS_Subset
<1>2. Cardinality(T) <= Cardinality(S)
  BY <1>1, FS_Subset
<1>3. Cardinality(S) \in Nat /\ Cardinality(T) \in Nat
  BY <1>1, FS_CardinalityType
<1> QED
  BY <1>2, <1>3, QueuesAssumption DEF Capped

(* A work for which there is capacity can be added.                        *)
LEMMA CappedAdd ==
  ASSUME NEW q \in Queues, NEW S \in SUBSET Work, NEW w, CapacityOk(q, S)
  PROVE  Capped(q, S \cup {w})
<1>1. IsFiniteSet(S)
  BY QueuesAssumption, FS_Subset
<1>2. Cardinality(S \cup {w}) <= Cardinality(S) + 1 /\ Cardinality(S) \in Nat
  BY <1>1, FS_AddElement, FS_CardinalityType
<1>3. IsFiniteSet(S \cup {w}) /\ Cardinality(S \cup {w}) \in Nat
  BY <1>1, FS_AddElement, FS_CardinalityType
<1> QED
  BY <1>2, <1>3, QueuesAssumption DEF Capped, CapacityOk

LEMMA QueueInvInit == Init => QueueInv
<1> SUFFICES ASSUME Init PROVE QueueInv
  OBVIOUS
<1>1. TypeOK
  BY QueuesAssumption DEF Init, TypeOK, Empty, Saved, NoOp, Op, Times
<1>2. CapsHold
  <2>1. Cardinality({}) = 0
    BY FS_EmptySet
  <2>2. \A q \in Queues : Capped(q, {})
    BY <2>1, QueuesAssumption DEF Capped
  <2>3. \A q \in Queues : active[q] = {} /\ disk[q].active = {}
    BY DEF Init, Empty
  <2> QED
    BY <2>2, <2>3 DEF CapsHold
<1> QED
  BY <1>1, <1>2 DEF Init, QueueInv, Serial, Snapshot, Announced, Quiescent,
                    HoldersAreDurable, NoOp, Empty

(* An operation that begins changes one queue while no lock is held: it    *)
(* has to respect the cap, keep the holders active, and announce a work    *)
(* that is active.                                                         *)
LEMMA BeginKeepsInv ==
  ASSUME QueueInv, TypeOK', OneQueueAtATime,
         NEW q \in Queues, NEW told \in Work \cup {None}, NEW A \in SUBSET Work,
         LockFree(q), Begin(q, told),
         active' = [active EXCEPT ![q] = A],
         Capped(q, A),
         told # None => told \in A,
         holds' \in [Queues -> SUBSET Work],
         \A p \in Queues : holds'[p] \subseteq holds[p],
         holds'[q] \subseteq A,
         UNCHANGED <<disk, up>>
  PROVE  QueueInv'
<1> USE DEF QueueInv
<1>1. up /\ \A p \in Queues : op[p] = NoOp
  BY DEF LockFree, OneQueueAtATime
<1>2. op' = [p \in Queues |-> IF p = q
               THEN [phase |-> "mutated", tells |-> told, data |-> None] ELSE NoOp]
  BY <1>1 DEF Begin, TypeOK
<1>3. Serial' /\ Snapshot' /\ Quiescent'
  BY <1>1, <1>2 DEF Serial, Snapshot, Quiescent, NoOp
<1>4. Announced'
  BY <1>2 DEF Announced, NoOp, TypeOK
<1>5. CapsHold'
  BY DEF CapsHold, Capped, TypeOK
<1>6. HoldersAreDurable'
  BY DEF HoldersAreDurable, TypeOK
<1> QED
  BY <1>3, <1>4, <1>5, <1>6


(* When the only operation under way ends, no lock is held.                *)
LEMMA EndFreesAll ==
  ASSUME TypeOK, Serial, NEW q \in Queues, op[q].phase # "free",
         op' = [op EXCEPT ![q] = NoOp]
  PROVE  \A p \in Queues : op'[p] = NoOp
<1>1. op[q] # NoOp
  BY DEF NoOp
<1>2. \A p \in Queues : p # q => op[p] = NoOp
  BY <1>1 DEF Serial
<1>3. op' = [p \in Queues |-> IF p = q THEN NoOp ELSE op[p]]
  BY DEF TypeOK
<1> QED
  BY <1>2, <1>3

LEMMA QueueInvStep ==
  ASSUME OneQueueAtATime
  PROVE  QueueInv /\ TypeOK' /\ [Next]_vars => QueueInv'
<1> SUFFICES ASSUME QueueInv, TypeOK', [Next]_vars PROVE QueueInv'
  OBVIOUS
<1> USE DEF QueueInv
<1>1. ASSUME NEW q \in Queues
      PROVE  /\ active[q] \in SUBSET Work /\ holds[q] \in SUBSET Work
             /\ Capped(q, active[q])
             /\ LockFree(q) => up /\ holds[q] \subseteq active[q]
  BY DEF TypeOK, CapsHold, HoldersAreDurable, LockFree
<1>2. ASSUME NEW q \in Queues, NEW w \in WorkOf[q] PROVE w \in Work
  BY QueuesAssumption
<1>3. ASSUME NEW q \in Queues, NEW w \in WorkOf[q], Readmit(q, w)
      PROVE  QueueInv'
  <2>1. active' = [active EXCEPT ![q] = active[q]] /\ holds' = holds
    BY <1>3 DEF Readmit, TypeOK
  <2> QED
    BY <1>1, <1>2, <1>3, <2>1, BeginKeepsInv DEF Readmit, TypeOK
<1>4. ASSUME NEW q \in Queues, NEW w \in WorkOf[q], Admit(q, w)
      PROVE  QueueInv'
  <2>1. active' = [active EXCEPT ![q] = active[q] \cup {w}] /\ holds' = holds
    BY <1>4 DEF Admit, TypeOK
  <2>2. Capped(q, active[q] \cup {w})
    BY <1>1, <1>4, CappedAdd DEF Admit
  <2> QED
    BY <1>1, <1>2, <1>4, <2>1, <2>2, BeginKeepsInv DEF Admit, TypeOK
<1>5. ASSUME NEW q \in Queues, NEW w \in WorkOf[q], Enqueue(q, w)
      PROVE  QueueInv'
  <2>1. active' = [active EXCEPT ![q] = active[q]] /\ holds' = holds
    BY <1>5 DEF Enqueue, TypeOK
  <2> QED
    BY <1>1, <1>5, <2>1, BeginKeepsInv DEF Enqueue, TypeOK
<1>6. ASSUME NEW q \in Queues, NEW w \in WorkOf[q], LockFree(q),
             holds' = [holds EXCEPT ![q] = @ \ {w}]
      PROVE  /\ Rest(q, w) \in SUBSET Work
             /\ Capped(q, Rest(q, w))
             /\ holds'[q] \subseteq Rest(q, w)
             /\ \A p \in Queues : holds'[p] \subseteq holds[p]
             /\ holds' \in [Queues -> SUBSET Work]
  <2>1. Capped(q, Rest(q, w))
    BY <1>1, CappedSubset DEF Rest
  <2> QED
    BY <1>1, <1>6, <2>1 DEF Rest, TypeOK
<1>7. ASSUME NEW q \in Queues, NEW w \in WorkOf[q], ReleaseQuietly(q, w)
      PROVE  QueueInv'
  <2>1. active' = [active EXCEPT ![q] = Rest(q, w)]
    BY <1>7 DEF ReleaseQuietly, Rest, TypeOK
  <2>2. LockFree(q) /\ Begin(q, None) /\ UNCHANGED <<disk, up>>
          /\ holds' = [holds EXCEPT ![q] = @ \ {w}]
    BY <1>7 DEF ReleaseQuietly
  <2> QED
    BY <1>6, <2>1, <2>2, BeginKeepsInv
<1>8. ASSUME NEW q \in Queues, NEW w \in WorkOf[q], ReleasePromote(q, w)
      PROVE  QueueInv'
  <2>1. LockFree(q) /\ Begin(q, None) /\ UNCHANGED <<disk, up>>
          /\ holds' = [holds EXCEPT ![q] = @ \ {w}]
    BY <1>8 DEF ReleasePromote
  <2>2. PICK i \in Promotable(q, w) :
          active' = [active EXCEPT ![q] = Rest(q, w) \cup {waiting[q][i]}]
    BY <1>8 DEF ReleasePromote
  <2> DEFINE x == waiting[q][i]
  <2>3. x \in Work
    BY DEF Promotable, TypeOK
  <2>4. Capped(q, Rest(q, w) \cup {x})
    <3>1. CASE x \in Rest(q, w)
      <4>1. Rest(q, w) \cup {x} = Rest(q, w)
        BY <3>1
      <4> QED
        BY <1>6, <2>1, <4>1
    <3>2. CASE CapacityOk(q, Rest(q, w))
      BY <1>6, <2>1, <3>2, CappedAdd
    <3> QED
      BY <3>1, <3>2 DEF Promotable
  <2> HIDE DEF x
  <2>5. /\ Rest(q, w) \cup {x} \in SUBSET Work
        /\ holds'[q] \subseteq Rest(q, w) \cup {x}
        /\ \A p \in Queues : holds'[p] \subseteq holds[p]
        /\ holds' \in [Queues -> SUBSET Work]
    BY <1>6, <2>1, <2>3
  <2>6. active' = [active EXCEPT ![q] = Rest(q, w) \cup {x}]
    BY <2>2 DEF x
  <2> QED
    BY <2>1, <2>4, <2>5, <2>6, BeginKeepsInv
<1>9. ASSUME NEW q \in Queues, Dump(q)
      PROVE  QueueInv'
  <2>1. \A p \in Queues : p # q => op[p] = NoOp /\ op'[p] = NoOp
    BY <1>9 DEF Dump, Serial, NoOp, TypeOK
  <2>2. op'[q].data = Memory' /\ op'[q].tells = op[q].tells /\ up
    BY <1>9 DEF Dump, Memory, TypeOK
  <2>3. Serial' /\ Snapshot' /\ Quiescent' /\ Announced'
    BY <1>9, <2>1, <2>2 DEF Serial, Snapshot, Quiescent, Announced, NoOp, Dump
  <2> QED
    BY <1>9, <2>3 DEF Dump, CapsHold, Capped, HoldersAreDurable
<1>10. ASSUME NEW q \in Queues, Replace(q)
       PROVE  QueueInv'
  <2>1. disk' = Memory /\ UNCHANGED <<active, waiting, up>> /\ up
    BY <1>10 DEF Replace, Snapshot
  <2>2. \A p \in Queues : op'[p] = NoOp
    BY <1>10, EndFreesAll DEF Replace
  <2>3. \A p \in Queues : holds'[p] \subseteq active[p]
    BY <1>10, <2>1 DEF Replace, HoldersAreDurable, Announced, TypeOK
  <2>4. \A p \in Queues : disk'[p].active = active[p]
    BY <2>1 DEF Memory
  <2>5. Serial' /\ Snapshot' /\ Quiescent' /\ Announced'
    BY <2>2 DEF Serial, Snapshot, Quiescent, Announced, NoOp
  <2> QED
    BY <2>1, <2>3, <2>4, <2>5 DEF CapsHold, Capped, HoldersAreDurable
<1>11. ASSUME NEW q \in Queues, SaveFails(q)
       PROVE  QueueInv'
  <2>1. \A p \in Queues : op'[p] = NoOp
    BY <1>11, EndFreesAll DEF SaveFails
  <2> QED
    BY <1>11, <2>1 DEF SaveFails, Serial, Snapshot, Quiescent, Announced, NoOp,
                       CapsHold, Capped, HoldersAreDurable
<1>12. CASE Crash
  <2>1. \A p \in Queues : op'[p] = NoOp /\ active'[p] = {}
    BY <1>12 DEF Crash
  <2>2. \A p \in Queues : Capped(p, {})
    BY <1>1, CappedSubset
  <2>3. ~up' /\ disk' = disk /\ holds' = holds
    BY <1>12 DEF Crash
  <2>4. Serial' /\ Snapshot' /\ Quiescent' /\ Announced'
    BY <2>1 DEF Serial, Snapshot, Quiescent, Announced, NoOp
  <2>5. CapsHold'
    BY <2>1, <2>2, <2>3 DEF CapsHold, Capped
  <2>6. HoldersAreDurable'
    BY <2>3 DEF HoldersAreDurable
  <2> QED
    BY <2>4, <2>5, <2>6
<1>13. CASE Restart
  <2>1. \A p \in Queues : op'[p] = NoOp /\ active'[p] = disk[p].active
    BY <1>13 DEF Restart, Quiescent
  <2>2. disk' = disk /\ holds' = holds
    BY <1>13 DEF Restart
  <2>3. Serial' /\ Snapshot' /\ Quiescent' /\ Announced'
    BY <2>1 DEF Serial, Snapshot, Quiescent, Announced, NoOp
  <2>4. CapsHold'
    BY <2>1, <2>2 DEF CapsHold, Capped
  <2>5. HoldersAreDurable'
    BY <2>1, <2>2 DEF HoldersAreDurable
  <2> QED
    BY <2>3, <2>4, <2>5
<1>16. CASE RestartUnread
  <2>1. \A p \in Queues : /\ op'[p] = NoOp /\ active'[p] = active[p]
                          /\ disk'[p].active = {} /\ holds'[p] = {}
    BY <1>16 DEF RestartUnread, Quiescent, Empty
  <2>2. \A p \in Queues : Capped(p, {})
    BY <1>1, CappedSubset
  <2>3. Serial' /\ Snapshot' /\ Quiescent' /\ Announced'
    BY <2>1 DEF Serial, Snapshot, Quiescent, Announced, NoOp
  <2>4. CapsHold'
    BY <2>1, <2>2 DEF CapsHold, Capped
  <2>5. HoldersAreDurable'
    BY <2>1 DEF HoldersAreDurable
  <2> QED
    BY <2>3, <2>4, <2>5
<1>14. CASE Tick
  BY <1>14 DEF Tick, Serial, Snapshot, Memory, Quiescent, Announced, NoOp,
               CapsHold, Capped, HoldersAreDurable
<1>15. CASE UNCHANGED vars
  BY <1>15 DEF vars, Serial, Snapshot, Memory, Quiescent, Announced, NoOp,
               CapsHold, Capped, HoldersAreDurable
<1> QED
  BY <1>3, <1>4, <1>5, <1>7, <1>8, <1>9, <1>10, <1>11, <1>12, <1>13, <1>14,
     <1>15, <1>16 DEF Next

(* With one queue, or while operations of different queues do not overlap, *)
(* a work that was told it holds a slot is on disk, and in memory while    *)
(* the process runs, whatever writes failed and whenever the process died, *)
(* as long as no restart finds the file unreadable.                        *)
THEOREM HoldersDurable ==
  ASSUME OneQueueAtATime
  PROVE  Spec => []HoldersAreDurable
<1>1. Init => QueueInv
  BY QueueInvInit
<1>2. QueueInv /\ TypeOK' /\ [Next]_vars => QueueInv'
  BY QueueInvStep
<1>3. QueueInv => HoldersAreDurable
  BY DEF QueueInv
<1> QED
  BY <1>1, <1>2, <1>3, TypeCorrect, PTL DEF Spec

(* And so no crash, and no restart that reads the file, ever makes more    *)
(* works believe they hold a slot than the cap allows (DUR-1), for every   *)
(* cap and any number of works.                                            *)
THEOREM NeverMoreThanTheCap ==
  ASSUME OneQueueAtATime
  PROVE  Spec => []SlotsNeverExceedCap
<1>1. Init => QueueInv
  BY QueueInvInit
<1>2. QueueInv /\ TypeOK' /\ [Next]_vars => QueueInv'
  BY QueueInvStep
<1>3. QueueInv => SlotsNeverExceedCap
  <2> SUFFICES ASSUME QueueInv, NEW q \in Queues
               PROVE  Capped(q, holds[q]) /\ Capped(q, active[q])
    BY DEF SlotsNeverExceedCap, Capped
  <2>1. /\ disk[q].active \in SUBSET Work /\ Capped(q, disk[q].active)
        /\ holds[q] \subseteq disk[q].active
    BY DEF QueueInv, TypeOK, Saved, CapsHold, HoldersAreDurable
  <2> QED
    BY <2>1, CappedSubset DEF QueueInv, CapsHold
<1> QED
  BY <1>1, <1>2, <1>3, TypeCorrect, PTL DEF Spec

-----------------------------------------------------------------------------
(* Where no rate limit holds anybody back: who waits, waits for a full     *)
(* queue, is no holder of it, and stands in the FIFO once.                 *)
Busy(q, A, F) ==
  /\ Capped(q, A)
  /\ Unlimited(q) =>
       /\ F # <<>> => Cardinality(A) = Concurrency[q]
       /\ \A i \in DOMAIN F : F[i] \notin A
       /\ \A i, j \in DOMAIN F : F[i] = F[j] => i = j

(* It is so in memory, in the file, and in every snapshot on its way there; *)
(* this needs no assumption on which operations overlap.                   *)
BusyInv ==
  \A q \in Queues :
    /\ Busy(q, active[q], waiting[q])
    /\ Busy(q, disk[q].active, disk[q].waiting)
    /\ \A p \in Queues : op[p].phase = "dumped" =>
         Busy(q, op[p].data[q].active, op[p].data[q].waiting)

(* While there is room nobody waits, so an admission cuts no line.         *)
LEMMA BusyAdmit ==
  ASSUME NEW q \in Queues, NEW A \in SUBSET Work, NEW F \in Seq(Work), NEW w,
         Busy(q, A, F), CapacityOk(q, A)
  PROVE  Busy(q, A \cup {w}, F) /\ (Unlimited(q) => F = <<>>)
<1>1. Capped(q, A \cup {w})
  BY CappedAdd
<1>2. Unlimited(q) => F = <<>>
  <2>1. Cardinality(A) \in Nat
    BY QueuesAssumption, FS_Subset, FS_CardinalityType
  <2> QED
    BY <2>1, QueuesAssumption DEF Busy, CapacityOk, Unlimited
<1> QED
  BY <1>1, <1>2 DEF Busy

(* A work joins the FIFO only behind a full queue.                         *)
LEMMA BusyEnqueue ==
  ASSUME NEW q \in Queues, NEW A \in SUBSET Work, NEW F \in Seq(Work), NEW w \in Work,
         Busy(q, A, F), w \notin A, Unlimited(q) => ~CapacityOk(q, A)
  PROVE  Busy(q, A, IF w \in Range(F) THEN F ELSE Append(F, w))
<1>1. CASE w \in Range(F) \/ ~Unlimited(q)
  BY <1>1 DEF Busy
<1>2. CASE w \notin Range(F) /\ Unlimited(q)
  <2>1. Cardinality(A) \in Nat
    BY QueuesAssumption, FS_Subset, FS_CardinalityType
  <2>2. Cardinality(A) = Concurrency[q]
    BY <1>2, <2>1, QueuesAssumption DEF Busy, Capped, CapacityOk, Unlimited
  <2>3. \A i \in DOMAIN F : F[i] # w /\ F[i] \notin A
    BY <1>2 DEF Range, Busy
  <2>4. \A i \in DOMAIN Append(F, w) : Append(F, w)[i] \notin A
    BY <2>3
  <2>5. \A i, j \in DOMAIN Append(F, w) : Append(F, w)[i] = Append(F, w)[j] => i = j
    BY <1>2, <2>3 DEF Busy
  <2> QED
    BY <1>2, <2>2, <2>4, <2>5 DEF Busy
<1> QED
  BY <1>1, <1>2

(* A slot is freed, or was not held at all.                                *)
LEMMA RestOf ==
  ASSUME NEW q \in Queues, NEW w, TypeOK
  PROVE  /\ Rest(q, w) \in SUBSET active[q]
         /\ w \notin active[q] => Rest(q, w) = active[q]
         /\ w \in active[q] => Cardinality(Rest(q, w)) = Cardinality(active[q]) - 1
         /\ Cardinality(active[q]) \in Nat
<1>1. IsFiniteSet(active[q])
  BY QueuesAssumption, FS_Subset DEF TypeOK
<1> QED
  BY <1>1, FS_RemoveElement, FS_CardinalityType DEF Rest

(* In an unlimited queue a release either frees a slot nobody waits for,   *)
(* or is no release of a slot, or hands it to the head of the FIFO.        *)
LEMMA WhoIsPromotable ==
  ASSUME NEW q \in Queues, NEW w \in Work, TypeOK, Unlimited(q),
         Busy(q, active[q], waiting[q]), waiting[q] # <<>>
  PROVE  IF w \in active[q] THEN Promotable(q, w) = DOMAIN waiting[q]
                            ELSE Promotable(q, w) = {}
<1>1. Cardinality(active[q]) = Concurrency[q] /\ Concurrency[q] \in Nat \ {0}
  BY QueuesAssumption DEF Busy, Unlimited
<1>2. RateOk(q)
  BY DEF RateOk, Unlimited
<1>3. \A i \in DOMAIN waiting[q] : waiting[q][i] \notin Rest(q, w)
  BY RestOf DEF Busy
<1>4. CapacityOk(q, Rest(q, w)) <=> w \in active[q]
  BY <1>1, RestOf, QueuesAssumption DEF CapacityOk
<1> QED
  BY <1>2, <1>3, <1>4 DEF Promotable

LEMMA BusyReleaseQuietly ==
  ASSUME NEW q \in Queues, NEW w \in Work, TypeOK,
         Busy(q, active[q], waiting[q]), Promotable(q, w) = {}
  PROVE  Busy(q, Rest(q, w), waiting[q])
<1>1. Capped(q, Rest(q, w))
  BY RestOf, CappedSubset DEF TypeOK, Busy
<1>2. Unlimited(q) /\ waiting[q] # <<>> => Rest(q, w) = active[q]
  <2> SUFFICES ASSUME Unlimited(q), waiting[q] # <<>> PROVE w \notin active[q]
    BY RestOf
  <2>1. 1 \in DOMAIN waiting[q]
    <3>1. waiting[q] \in Seq(Work)
      BY DEF TypeOK
    <3> QED
      BY <3>1, EmptySeq
  <2> QED
    BY <2>1, WhoIsPromotable
<1> QED
  BY <1>1, <1>2, RestOf DEF Busy

(* What stays of the FIFO when its head leaves.                            *)
LEMMA RemoveHead ==
  ASSUME NEW F \in Seq(Work), NEW i \in 1 .. Len(F)
  PROVE  \A k \in DOMAIN RemoveAt(F, i) :
           \E j \in DOMAIN F : j # i /\ RemoveAt(F, i)[k] = F[j] /\ j = IF k < i THEN k ELSE k + 1
<1>1. RemoveAt(F, i) = SubSeq(F, 1, i - 1) \o SubSeq(F, i + 1, Len(F))
  BY DEF RemoveAt
<1> DEFINE P == SubSeq(F, 1, i - 1)
           T == SubSeq(F, i + 1, Len(F))
<1>2. P \in Seq(Work) /\ Len(P) = i - 1 /\ \A k \in 1 .. Len(P) : P[k] = F[k]
  OBVIOUS
<1>3. T \in Seq(Work) /\ Len(T) = Len(F) - i /\ \A k \in 1 .. Len(T) : T[k] = F[i + k]
  OBVIOUS
<1> HIDE DEF P, T
<1>4. ASSUME NEW k \in 1 .. Len(P) + Len(T)
      PROVE  (P \o T)[k] = IF k < i THEN F[k] ELSE F[k + 1]
  <2>1. CASE k < i
    BY <1>2, <1>3, <2>1
  <2>2. CASE k >= i
    <3>1. (P \o T)[k] = T[k - Len(P)] /\ k - Len(P) \in 1 .. Len(T)
      BY <1>2, <1>3, <2>2
    <3> QED
      BY <3>1, <1>2, <1>3, <2>2
  <2> QED
    BY <2>1, <2>2, <1>2, <1>3
<1>5. DOMAIN (P \o T) = 1 .. Len(P) + Len(T)
  <2>1. P \o T \in Seq(Work) /\ Len(P \o T) = Len(P) + Len(T)
    BY <1>2, <1>3, ConcatProperties
  <2> QED
    BY <2>1
<1>6. RemoveAt(F, i) = P \o T
  BY <1>1 DEF P, T
<1> SUFFICES ASSUME NEW k \in 1 .. Len(P) + Len(T)
             PROVE  \E j \in 1 .. Len(F) : /\ j # i /\ (P \o T)[k] = F[j]
                                           /\ j = IF k < i THEN k ELSE k + 1
  BY <1>5, <1>6
<1>7. CASE k < i
  BY <1>2, <1>3, <1>4, <1>7
<1>8. CASE k >= i
  BY <1>2, <1>3, <1>4, <1>8
<1> QED
  BY <1>7, <1>8, <1>2

LEMMA BusyPromote ==
  ASSUME NEW q \in Queues, NEW w \in Work, TypeOK, Busy(q, active[q], waiting[q]),
         NEW i \in Promotable(q, w)
  PROVE  /\ Busy(q, Rest(q, w) \cup {waiting[q][i]}, RemoveAt(waiting[q], i))
         /\ Unlimited(q) => w \in active[q] /\ Promotable(q, w) = DOMAIN waiting[q]
<1>1. waiting[q] \in Seq(Work) /\ i \in 1 .. Len(waiting[q])
  BY DEF TypeOK, Promotable
<1>2. Capped(q, Rest(q, w) \cup {waiting[q][i]})
  <2>1. Rest(q, w) \in SUBSET Work /\ Capped(q, Rest(q, w))
    BY RestOf, CappedSubset DEF TypeOK, Busy
  <2>2. CASE waiting[q][i] \in Rest(q, w)
    <3>1. Rest(q, w) \cup {waiting[q][i]} = Rest(q, w)
      BY <2>2
    <3> QED
      BY <2>1, <3>1
  <2>3. CASE CapacityOk(q, Rest(q, w))
    BY <2>1, <2>3, CappedAdd
  <2> QED
    BY <2>2, <2>3 DEF Promotable
<1>3. ASSUME Unlimited(q)
      PROVE  /\ w \in active[q] /\ Promotable(q, w) = DOMAIN waiting[q]
             /\ Cardinality(Rest(q, w) \cup {waiting[q][i]}) = Concurrency[q]
  <2>1. waiting[q] # <<>>
    BY <1>1
  <2>2. w \in active[q] /\ Promotable(q, w) = DOMAIN waiting[q]
    BY <1>3, <2>1, WhoIsPromotable
  <2>3. Cardinality(active[q]) = Concurrency[q] /\ waiting[q][i] \notin active[q]
    BY <1>1, <1>3, <2>1 DEF Busy
  <2>4. waiting[q][i] \notin Rest(q, w) /\ IsFiniteSet(Rest(q, w))
    BY <2>3, RestOf, QueuesAssumption, FS_Subset DEF TypeOK
  <2>5. Cardinality(Rest(q, w) \cup {waiting[q][i]}) = Cardinality(Rest(q, w)) + 1
    BY <2>4, FS_AddElement
  <2> QED
    BY <2>2, <2>3, <2>5, RestOf
<1>4. ASSUME Unlimited(q), NEW k \in DOMAIN RemoveAt(waiting[q], i)
      PROVE  RemoveAt(waiting[q], i)[k] \notin Rest(q, w) \cup {waiting[q][i]}
  <2>1. PICK j \in DOMAIN waiting[q] : j # i /\ RemoveAt(waiting[q], i)[k] = waiting[q][j]
    BY <1>1, <1>4, RemoveHead
  <2>2. waiting[q][j] \notin active[q] /\ waiting[q][j] # waiting[q][i]
    BY <1>1, <1>4, <2>1 DEF Busy
  <2> QED
    BY <2>1, <2>2, RestOf
<1>5. ASSUME Unlimited(q), NEW k \in DOMAIN RemoveAt(waiting[q], i),
             NEW l \in DOMAIN RemoveAt(waiting[q], i),
             RemoveAt(waiting[q], i)[k] = RemoveAt(waiting[q], i)[l]
      PROVE  k = l
  <2>1. PICK a \in DOMAIN waiting[q] : /\ RemoveAt(waiting[q], i)[k] = waiting[q][a]
                                       /\ a = IF k < i THEN k ELSE k + 1
    BY <1>1, <1>5, RemoveHead
  <2>2. PICK b \in DOMAIN waiting[q] : /\ RemoveAt(waiting[q], i)[l] = waiting[q][b]
                                       /\ b = IF l < i THEN l ELSE l + 1
    BY <1>1, <1>5, RemoveHead
  <2>3. a = b
    BY <1>5, <2>1, <2>2 DEF Busy
  <2>4. k \in Int /\ l \in Int
    BY <1>1, <1>5, RemoveAtType
  <2> QED
    BY <1>1, <2>1, <2>2, <2>3, <2>4
<1> QED
  BY <1>2, <1>3, <1>4, <1>5 DEF Busy

(* An operation that begins changes one queue in memory.                   *)
LEMMA BeginKeepsBusy ==
  ASSUME TypeOK, BusyInv, NEW q \in Queues, NEW told, Begin(q, told), UNCHANGED disk,
         NEW A, NEW F, Busy(q, A, F),
         active' = [active EXCEPT ![q] = A], waiting' = [waiting EXCEPT ![q] = F]
  PROVE  BusyInv'
<1>1. \A p \in Queues : op'[p].phase = "dumped" => op'[p] = op[p]
  BY DEF Begin, TypeOK
<1>2. \A p \in Queues : Busy(p, active'[p], waiting'[p])
  BY DEF TypeOK, BusyInv
<1> QED
  BY <1>1, <1>2 DEF BusyInv, Busy, Capped, Unlimited

LEMMA BusyInvStep == TypeOK /\ BusyInv /\ [Next]_vars => BusyInv'
<1> SUFFICES ASSUME TypeOK, BusyInv, [Next]_vars PROVE BusyInv'
  OBVIOUS
<1>0. /\ \A q \in Queues : /\ active[q] \in SUBSET Work /\ waiting[q] \in Seq(Work)
                           /\ Busy(q, active[q], waiting[q]) /\ WorkOf[q] \in SUBSET Work
      /\ \A q \in Queues : active = [active EXCEPT ![q] = active[q]]
      /\ \A q \in Queues : waiting = [waiting EXCEPT ![q] = waiting[q]]
  BY QueuesAssumption DEF TypeOK, BusyInv
<1>1. ASSUME NEW q \in Queues, NEW w \in WorkOf[q], Readmit(q, w) PROVE BusyInv'
  BY <1>0, <1>1, BeginKeepsBusy DEF Readmit
<1>2. ASSUME NEW q \in Queues, NEW w \in WorkOf[q], Admit(q, w) PROVE BusyInv'
  <2>1. Busy(q, active[q] \cup {w}, waiting[q])
    BY <1>0, <1>2, BusyAdmit DEF Admit
  <2>2. active' = [active EXCEPT ![q] = active[q] \cup {w}]
    BY <1>2 DEF Admit
  <2>3. waiting' = [waiting EXCEPT ![q] = waiting[q]] /\ Begin(q, w) /\ UNCHANGED disk
    BY <1>0, <1>2 DEF Admit
  <2> QED
    BY <2>1, <2>2, <2>3, BeginKeepsBusy
<1>3. ASSUME NEW q \in Queues, NEW w \in WorkOf[q], Enqueue(q, w) PROVE BusyInv'
  <2> DEFINE F == IF w \in Range(waiting[q]) THEN waiting[q] ELSE Append(waiting[q], w)
  <2>1. Unlimited(q) => ~CapacityOk(q, active[q])
    BY <1>3 DEF Enqueue, RateOk, Unlimited
  <2>2. Busy(q, active[q], F)
    BY <1>0, <1>3, <2>1, BusyEnqueue DEF Enqueue
  <2>3. waiting' = [waiting EXCEPT ![q] = F]
    BY <1>3 DEF Enqueue
  <2> HIDE DEF F
  <2>4. active' = [active EXCEPT ![q] = active[q]]
    BY <1>0, <1>3 DEF Enqueue
  <2> QED
    BY <1>3, <2>2, <2>3, <2>4, BeginKeepsBusy DEF Enqueue
<1>4. ASSUME NEW q \in Queues, NEW w \in WorkOf[q], ReleaseQuietly(q, w) PROVE BusyInv'
  <2>1. Busy(q, Rest(q, w), waiting[q])
    BY <1>0, <1>4, BusyReleaseQuietly DEF ReleaseQuietly
  <2>2. active' = [active EXCEPT ![q] = Rest(q, w)]
    BY <1>4 DEF ReleaseQuietly, Rest
  <2>3. waiting' = [waiting EXCEPT ![q] = waiting[q]] /\ Begin(q, None) /\ UNCHANGED disk
    BY <1>0, <1>4 DEF ReleaseQuietly
  <2> QED
    BY <2>1, <2>2, <2>3, BeginKeepsBusy
<1>5. ASSUME NEW q \in Queues, NEW w \in WorkOf[q], ReleasePromote(q, w) PROVE BusyInv'
  <2>1. PICK i \in Promotable(q, w) :
          /\ waiting' = [waiting EXCEPT ![q] = RemoveAt(waiting[q], i)]
          /\ active' = [active EXCEPT ![q] = Rest(q, w) \cup {waiting[q][i]}]
    BY <1>5 DEF ReleasePromote
  <2>2. Busy(q, Rest(q, w) \cup {waiting[q][i]}, RemoveAt(waiting[q], i))
    BY <1>0, BusyPromote
  <2> QED
    BY <1>5, <2>1, <2>2, BeginKeepsBusy DEF ReleasePromote
<1>6. ASSUME NEW q \in Queues, Dump(q) PROVE BusyInv'
  <2>1. /\ op' = [op EXCEPT ![q] = [phase |-> "dumped", tells |-> op[q].tells, data |-> Memory]]
        /\ UNCHANGED <<active, waiting, disk>>
    BY <1>6 DEF Dump
  <2>2. \A p \in Queues : op'[p].phase = "dumped" => op'[p].data = Memory \/ op'[p] = op[p]
    BY <2>1 DEF TypeOK
  <2>3. \A p \in Queues : Memory[p].active = active[p] /\ Memory[p].waiting = waiting[p]
    BY DEF Memory
  <2> QED
    BY <2>1, <2>2, <2>3 DEF BusyInv, Busy, Capped, Unlimited
<1>7. ASSUME NEW q \in Queues, Replace(q) PROVE BusyInv'
  <2>1. /\ op[q].phase = "dumped" /\ disk' = op[q].data
        /\ op' = [op EXCEPT ![q] = NoOp] /\ UNCHANGED <<active, waiting>>
    BY <1>7 DEF Replace
  <2>2. \A p \in Queues : op'[p].phase = "dumped" => op'[p] = op[p]
    BY <2>1 DEF TypeOK, NoOp
  <2> QED
    BY <2>1, <2>2 DEF BusyInv, Busy, Capped, Unlimited
<1>8. ASSUME NEW q \in Queues, SaveFails(q) PROVE BusyInv'
  <2>1. op' = [op EXCEPT ![q] = NoOp] /\ UNCHANGED <<active, waiting, disk>>
    BY <1>8 DEF SaveFails
  <2>2. \A p \in Queues : op'[p].phase = "dumped" => op'[p] = op[p]
    BY <2>1 DEF TypeOK, NoOp
  <2> QED
    BY <2>1, <2>2 DEF BusyInv, Busy, Capped, Unlimited
<1>9. CASE Crash
  <2>1. \A p \in Queues : active'[p] = {} /\ waiting'[p] = <<>> /\ op'[p].phase = "free"
    BY <1>9 DEF Crash, NoOp
  <2>2. \A p \in Queues : Busy(p, {}, <<>>)
    BY FS_EmptySet, QueuesAssumption DEF Busy, Capped
  <2>3. UNCHANGED disk
    BY <1>9 DEF Crash
  <2> QED
    BY <2>1, <2>2, <2>3 DEF BusyInv, Busy, Capped, Unlimited
<1>10. CASE Restart
  <2>1. \A p \in Queues : active'[p] = disk[p].active /\ waiting'[p] = disk[p].waiting
    BY <1>10 DEF Restart
  <2>2. UNCHANGED <<disk, op>>
    BY <1>10 DEF Restart
  <2> QED
    BY <2>1, <2>2 DEF BusyInv, Busy, Capped, Unlimited
<1>12. CASE RestartUnread
  <2>1. /\ \A p \in Queues : disk'[p].active = {} /\ disk'[p].waiting = <<>>
        /\ UNCHANGED <<active, waiting, op>>
    BY <1>12 DEF RestartUnread, Empty
  <2>2. \A p \in Queues : Busy(p, {}, <<>>)
    BY FS_EmptySet, QueuesAssumption DEF Busy, Capped
  <2>3. \A p \in Queues : Busy(p, disk'[p].active, disk'[p].waiting)
    BY <2>1, <2>2
  <2> QED
    BY <2>1, <2>3 DEF BusyInv, Busy, Capped, Unlimited
<1>11. CASE Tick \/ UNCHANGED vars
  <2>1. UNCHANGED <<active, waiting, disk, op>>
    BY <1>11 DEF Tick, vars
  <2> QED
    BY <2>1 DEF BusyInv, Busy, Capped, Unlimited
<1> QED
  BY <1>1, <1>2, <1>3, <1>4, <1>5, <1>6, <1>7, <1>8, <1>9, <1>10, <1>11,
     <1>12 DEF Next

LEMMA BusyInvInit == Init => BusyInv
<1> SUFFICES ASSUME Init PROVE BusyInv
  OBVIOUS
<1>1. \A p \in Queues : /\ active[p] = {} /\ waiting[p] = <<>> /\ op[p].phase = "free"
                        /\ disk[p].active = {} /\ disk[p].waiting = <<>>
  BY DEF Init, NoOp, Empty
<1>2. \A p \in Queues : Busy(p, {}, <<>>)
  BY FS_EmptySet, QueuesAssumption DEF Busy, Capped
<1> QED
  BY <1>1, <1>2 DEF BusyInv

(* For every cap, any number of works and whatever overlaps, fails or      *)
(* restarts: while somebody waits, every slot is taken.                    *)
THEOREM NoSlotIdles == Spec => []WorkConserving
<1>1. BusyInv => WorkConserving
  BY DEF BusyInv, Busy, WorkConserving, Range
<1> QED
  BY <1>1, BusyInvInit, BusyInvStep, TypeCorrect, PTL DEF Spec

(* And nobody passes a work that waits in front of him.                    *)
THEOREM FirstComeFirstServed == Spec => NoOvertaking
<1> DEFINE InLine == \A q \in Queues : Unlimited(q) /\ up /\ up' =>
                       \A i, j \in DOMAIN waiting[q] :
                         i < j /\ waiting[q][j] \in active'[q] => waiting[q][i] \in active'[q]
<1>1. TypeOK /\ BusyInv /\ [Next]_vars => InLine
  <2> SUFFICES ASSUME TypeOK, BusyInv, [Next]_vars, NEW q \in Queues, Unlimited(q), up, up',
                      NEW i \in DOMAIN waiting[q], NEW j \in DOMAIN waiting[q],
                      i < j, waiting[q][j] \in active'[q]
               PROVE  FALSE
    OBVIOUS
  <2>0. /\ waiting[q] \in Seq(Work) /\ waiting[q] # <<>> /\ active[q] \in SUBSET Work
        /\ Busy(q, active[q], waiting[q]) /\ \A p \in Queues : WorkOf[p] \in SUBSET Work
        /\ waiting[q][j] \notin active[q]
    BY QueuesAssumption DEF TypeOK, BusyInv, Busy
  <2>1. ASSUME active'[q] \in SUBSET active[q] PROVE FALSE
    BY <2>0, <2>1
  <2>2. ASSUME NEW p \in Queues, NEW w \in WorkOf[p], Admit(p, w) PROVE FALSE
    <3>1. CASE p = q
      BY <2>0, <2>2, <3>1, BusyAdmit DEF Admit
    <3>2. CASE p # q
      BY <2>1, <2>2, <3>2 DEF Admit, TypeOK
    <3> QED
      BY <3>1, <3>2
  <2>3. ASSUME NEW p \in Queues, NEW w \in WorkOf[p], ReleasePromote(p, w) PROVE FALSE
    <3>1. PICK k \in Promotable(p, w) :
            /\ \A l \in Promotable(p, w) : k <= l
            /\ active' = [active EXCEPT ![p] = Rest(p, w) \cup {waiting[p][k]}]
      BY <2>3 DEF ReleasePromote
    <3>2. CASE p = q
      <4>1. Promotable(q, w) = DOMAIN waiting[q]
        BY <2>0, <3>1, <3>2, BusyPromote
      <4>2. waiting[q][j] = waiting[q][k]
        BY <2>0, <3>1, <3>2, RestOf DEF TypeOK
      <4>3. k = j
        BY <2>0, <3>1, <3>2, <4>1, <4>2 DEF Busy
      <4> QED
        BY <2>0, <3>1, <3>2, <4>1, <4>3
    <3>3. CASE p # q
      BY <2>1, <3>1, <3>3 DEF TypeOK
    <3> QED
      BY <3>2, <3>3
  <2>4. ASSUME NEW p \in Queues, NEW w \in WorkOf[p], ReleaseQuietly(p, w) PROVE FALSE
    BY <2>1, <2>4 DEF ReleaseQuietly, TypeOK
  <2>5. ASSUME NEW p \in Queues, NEW w \in WorkOf[p], Readmit(p, w) \/ Enqueue(p, w) PROVE FALSE
    BY <2>1, <2>5 DEF Readmit, Enqueue
  <2>6. ASSUME NEW p \in Queues, Dump(p) \/ Replace(p) \/ SaveFails(p) PROVE FALSE
    BY <2>1, <2>6 DEF Dump, Replace, SaveFails
  <2>7. CASE Crash \/ Restart \/ RestartUnread
    BY <2>7 DEF Crash, Restart, RestartUnread
  <2>8. CASE Tick \/ UNCHANGED vars
    BY <2>1, <2>8 DEF Tick, vars
  <2> QED
    BY <2>2, <2>3, <2>4, <2>5, <2>6, <2>7, <2>8 DEF Next
<1>2. TypeOK /\ BusyInv /\ [Next]_vars => [InLine]_vars
  BY <1>1
<1> QED
  BY <1>2, BusyInvInit, BusyInvStep, TypeCorrect, PTL DEF Spec, NoOvertaking

-----------------------------------------------------------------------------
(* The limiter.  An admission is counted at the clock's time, so nothing in *)
(* the deque is from the future; hence what is in a window that ends now or *)
(* later is among what the admission that is being decided counts.         *)
Counted == \A q \in Queues : \A i \in DOMAIN admitted[q] : admitted[q][i] <= now

RateInv == Counted /\ RateBound

(* An admission that the rate allows fills no window over its limit.       *)
LEMMA CountStep ==
  ASSUME TypeOK, RateInv, NEW q \in Queues, RateOk(q), CountAdmission(q),
         UNCHANGED now
  PROVE  RateInv'
<1> USE QueuesAssumption
<1>1. CASE LimiterLimit[q] = None
  BY <1>1 DEF CountAdmission, RateInv, Counted, RateBound, Window
<1>2. CASE LimiterLimit[q] # None
  <2> DEFINE s == admitted[q]
             n == Len(s)
  <2>1. s \in Seq(Times) /\ n \in Nat /\ now \in Times
    BY DEF TypeOK
  <2>2. /\ admitted'[q] = Append(s, now)
        /\ \A p \in Queues \ {q} : admitted'[p] = admitted[p]
    BY <1>2 DEF CountAdmission, TypeOK
  <2>3. /\ DOMAIN admitted'[q] = 1 .. n + 1 /\ DOMAIN s = 1 .. n
        /\ \A i \in 1 .. n : admitted'[q][i] = s[i]
        /\ admitted'[q][n + 1] = now
    BY <2>1, <2>2
  <2>4. /\ \A i \in 1 .. n : s[i] \in Nat /\ s[i] <= now
        /\ now \in Nat /\ LimiterPeriod[q] \in Nat /\ LimiterLimit[q] \in Nat
    BY <1>2, <2>1 DEF Times, RateInv, Counted
  <2> HIDE DEF n, s
  <2>5. Counted'
    <3>1. ASSUME NEW i \in DOMAIN admitted'[q] PROVE admitted'[q][i] <= now
      <4>1. CASE i = n + 1
        BY <2>3, <2>4, <4>1
      <4>2. CASE i \in 1 .. n
        BY <2>3, <2>4, <4>2
      <4> QED
        BY <2>1, <2>3, <4>1, <4>2
    <3> QED
      BY <2>2, <3>1 DEF RateInv, Counted
  <2>6. ASSUME NEW t \in Times
        PROVE  Cardinality(Window(q, t)') <= LimiterLimit[q]
    <3>0. /\ Window(q, t)  = {i \in 1 .. n : s[i] <= t /\ t < s[i] + LimiterPeriod[q]}
          /\ Window(q, t)' = {i \in 1 .. n + 1 :
                /\ admitted'[q][i] <= t /\ t < admitted'[q][i] + LimiterPeriod[q]}
      BY <2>3 DEF Window, s
    <3>1. CASE t < now
      <4>1. ASSUME NEW i \in 1 .. n + 1
            PROVE  i \in Window(q, t)' <=> i \in Window(q, t)
        <5>1. CASE i = n + 1
          BY <2>1, <2>3, <2>4, <2>6, <3>0, <3>1, <5>1 DEF Times
        <5>2. CASE i \in 1 .. n
          BY <2>1, <2>3, <3>0, <5>2
        <5> QED
          BY <2>1, <5>1, <5>2
      <4>2. Window(q, t)' = Window(q, t)
        BY <2>1, <3>0, <4>1
      <4> QED
        BY <1>2, <4>2 DEF RateInv, RateBound
    <3>2. CASE t >= now
      <4> DEFINE R == {i \in 1 .. n : \E j \in 1 .. i : now - s[j] < LimiterPeriod[q]}
      <4>1. IsFiniteSet(R)
        <5>1. IsFiniteSet(1 .. n) /\ R \subseteq 1 .. n
          <6>1. n \in Int /\ 1 \in Int
            BY <2>1
          <6> QED
            BY <6>1, FS_Interval
        <5> QED
          BY <5>1, FS_Subset
      <4>2. Cardinality(R) < LimiterLimit[q] /\ Cardinality(R) \in Nat
        BY <1>2, <2>3, <4>1, FS_CardinalityType DEF RateOk, Recent, s
      <4>3. Window(q, t)' \subseteq R \cup {n + 1}
        <5> SUFFICES ASSUME NEW i \in 1 .. n, s[i] <= t, t < s[i] + LimiterPeriod[q]
                     PROVE  i \in 1 .. i /\ now - s[i] < LimiterPeriod[q]
          BY <2>1, <2>3, <3>0
        <5> QED
          BY <2>1, <2>4, <2>6, <3>2 DEF Times
      <4> HIDE DEF R
      <4>4. IsFiniteSet(R \cup {n + 1}) /\ Cardinality(R \cup {n + 1}) <= Cardinality(R) + 1
            /\ Cardinality(R \cup {n + 1}) \in Nat
        <5>1. /\ IsFiniteSet(R \cup {n + 1})
              /\ Cardinality(R \cup {n + 1}) = IF n + 1 \in R THEN Cardinality(R)
                                                ELSE Cardinality(R) + 1
          BY <4>1, FS_AddElement
        <5> QED
          BY <4>2, <5>1
      <4>5. /\ Cardinality(Window(q, t)') <= Cardinality(R \cup {n + 1})
            /\ Cardinality(Window(q, t)') \in Nat
        BY <4>3, <4>4, FS_Subset, FS_CardinalityType
      <4> QED
        BY <2>4, <4>2, <4>4, <4>5
    <3> QED
      BY <2>1, <2>6, <3>1, <3>2 DEF Times
  <2>7. \A p \in Queues \ {q} : \A t \in Times : Window(p, t)' = Window(p, t)
    BY <2>2 DEF Window
  <2> QED
    BY <2>5, <2>6, <2>7 DEF RateInv, RateBound
<1> QED
  BY <1>1, <1>2

LEMMA RateStep == TypeOK /\ RateInv /\ [Next]_vars => RateInv'
<1> SUFFICES ASSUME TypeOK, RateInv, [Next]_vars PROVE RateInv'
  OBVIOUS
<1> USE DEF RateInv
<1>1. ASSUME NEW q \in Queues, NEW w \in WorkOf[q], Admit(q, w) PROVE RateInv'
  BY <1>1, CountStep DEF Admit
<1>2. ASSUME NEW q \in Queues, NEW w \in WorkOf[q], ReleasePromote(q, w) PROVE RateInv'
  <2>1. PICK i \in Promotable(q, w) :
          IF waiting[q][i] \in Rest(q, w) THEN UNCHANGED admitted ELSE CountAdmission(q)
    BY <1>2 DEF ReleasePromote
  <2>2. UNCHANGED now
    BY <1>2 DEF ReleasePromote
  <2>3. CASE waiting[q][i] \in Rest(q, w)
    BY <2>1, <2>2, <2>3 DEF Counted, RateBound, Window
  <2>4. CASE waiting[q][i] \notin Rest(q, w)
    <3>1. RateOk(q)
      BY <2>4 DEF Promotable
    <3> QED
      BY <2>1, <2>2, <2>4, <3>1, CountStep
  <2> QED
    BY <2>3, <2>4
<1>3. ASSUME NEW q \in Queues, NEW w \in WorkOf[q],
             Readmit(q, w) \/ Enqueue(q, w) \/ ReleaseQuietly(q, w)
      PROVE  RateInv'
  <2>1. UNCHANGED <<admitted, now>>
    BY <1>3 DEF Readmit, Enqueue, ReleaseQuietly
  <2> QED
    BY <2>1 DEF Counted, RateBound, Window
<1>4. ASSUME NEW q \in Queues, Dump(q) \/ Replace(q) \/ SaveFails(q) PROVE RateInv'
  <2>1. UNCHANGED <<admitted, now>>
    BY <1>4 DEF Dump, Replace, SaveFails
  <2> QED
    BY <2>1 DEF Counted, RateBound, Window
<1>5. CASE Crash
  <2>1. \A q \in Queues : admitted'[q] = <<>>
    BY <1>5 DEF Crash
  <2>2. \A q \in Queues, t \in Times : Window(q, t)' = {}
    BY <2>1 DEF Window
  <2>3. Cardinality({}) = 0
    BY FS_EmptySet
  <2>4. \A q \in Queues : LimiterLimit[q] # None => 0 <= LimiterLimit[q]
    BY QueuesAssumption
  <2> QED
    <3>1. \A q \in Queues : \A i \in DOMAIN admitted'[q] : FALSE
      BY <2>1
    <3>2. RateBound'
      BY <2>2, <2>3, <2>4 DEF RateBound
    <3> QED
      BY <3>1, <3>2 DEF Counted
<1>6. CASE Tick
  <2>1. now' = now + 1 /\ UNCHANGED admitted
    BY <1>6 DEF Tick
  <2>2. ASSUME NEW q \in Queues, NEW i \in DOMAIN admitted[q]
        PROVE  admitted[q][i] \in Nat
    <3>1. admitted[q] \in Seq(Times)
      BY DEF TypeOK
    <3>2. admitted[q][i] \in Times
      BY <2>2, <3>1
    <3> QED
      BY <3>2 DEF Times
  <2>3. now \in Nat
    BY DEF TypeOK, Times
  <2>4. Counted'
    <3>1. ASSUME NEW q \in Queues, NEW i \in DOMAIN admitted[q]
          PROVE  admitted[q][i] <= now + 1
      <4>1. admitted[q][i] \in Nat /\ admitted[q][i] <= now
        BY <2>2 DEF Counted
      <4> QED
        BY <2>3, <4>1
    <3> QED
      BY <2>1, <3>1 DEF Counted
  <2>5. RateBound'
    BY <2>1 DEF RateBound, Window
  <2> QED
    BY <2>4, <2>5
<1>7. CASE Restart \/ RestartUnread \/ UNCHANGED vars
  <2>1. UNCHANGED <<admitted, now>>
    BY <1>7 DEF Restart, RestartUnread, vars
  <2> QED
    BY <2>1 DEF Counted, RateBound, Window
<1> QED
  BY <1>1, <1>2, <1>3, <1>4, <1>5, <1>6, <1>7 DEF Next

(* For any limit, any window and any number of queues, however calls,      *)
(* promotions, ticks and crashes interleave: between two crashes no window *)
(* of the clock holds more admissions than the limit.                      *)
THEOREM RateLimited == Spec => []RateBound
<1>1. Init => RateInv
  <2> SUFFICES ASSUME Init PROVE RateInv
    OBVIOUS
  <2>1. \A q \in Queues : admitted[q] = <<>>
    BY DEF Init
  <2>2. \A q \in Queues, t \in Times : Window(q, t) = {}
    BY <2>1 DEF Window
  <2>3. Cardinality({}) = 0
    BY FS_EmptySet
  <2>4. \A q \in Queues : LimiterLimit[q] # None => 0 <= LimiterLimit[q]
    BY QueuesAssumption
  <2> QED
    <3>1. \A q \in Queues : \A i \in DOMAIN admitted[q] : FALSE
      BY <2>1
    <3>2. RateBound
      BY <2>2, <2>3, <2>4 DEF RateBound
    <3> QED
      BY <3>1, <3>2 DEF RateInv, Counted
<1>2. RateInv => RateBound
  BY DEF RateInv
<1> QED
  BY <1>1, <1>2, RateStep, TypeCorrect, PTL DEF Spec
=============================================================================
