---------------------------- MODULE LeaseProofs ----------------------------
(***************************************************************************)
(* Proofs about Lease, for all processes, threads, TTLs and bounds.        *)
(***************************************************************************)
EXTENDS Lease, TLAPS

(* Every variable keeps its type.                                          *)
THEOREM LeaseTyped == Spec => []TypeOK
<1>1. Init => TypeOK
  <2> SUFFICES ASSUME Init PROVE TypeOK
    OBVIOUS
  <2>1. age \in 0 .. TTL /\ kills \in 0 .. MaxKills /\ pc \in [Claimants -> PCs]
    BY LeaseAssumption DEF LeaseAssumption, Init, PCs
  <2>2. overstayed \in BOOLEAN /\ orphaned \in BOOLEAN
    BY Zenon DEF Init
  <2> QED
    BY <2>1, <2>2 DEF Init, TypeOK
<1>2. TypeOK /\ [Next]_vars => TypeOK'
  <2> SUFFICES ASSUME TypeOK, [Next]_vars PROVE TypeOK'
    OBVIOUS
  <2> USE LeaseAssumption DEF LeaseAssumption, TypeOK, PCs
  <2>1. ASSUME NEW c \in Claimants, Claim(c) PROVE TypeOK'
    BY <2>1 DEF Claim, Goto
  <2>2. ASSUME NEW c \in Claimants, Create(c, "create", "stat") PROVE TypeOK'
    BY <2>2 DEF Create, Goto
  <2>3. ASSUME NEW c \in Claimants, Create(c, "recreate", "idle") PROVE TypeOK'
    BY <2>3 DEF Create, Goto
  <2>4. ASSUME NEW c \in Claimants, Stat(c) PROVE TypeOK'
    BY <2>4 DEF Stat, Goto
  <2>5. ASSUME NEW c \in Claimants, Mark(c) PROVE TypeOK'
    BY <2>5 DEF Mark, Goto
  <2>6. ASSUME NEW c \in Claimants, Restat(c) PROVE TypeOK'
    BY <2>6 DEF Restat, Goto
  <2>7. ASSUME NEW c \in Claimants, Unlink(c) PROVE TypeOK'
    BY <2>7 DEF Unlink, Goto
  <2>8. ASSUME NEW c \in Claimants, Unmark(c) PROVE TypeOK'
    BY <2>8 DEF Unmark, Goto
  <2>9. ASSUME NEW c \in Claimants, Release(c) PROVE TypeOK'
    BY <2>9 DEF Release, Goto
  <2>10. ASSUME NEW p \in Procs, Kill(p) PROVE TypeOK'
    BY <2>10 DEF Kill
  <2>11. ASSUME Tick PROVE TypeOK'
    BY <2>11 DEF Tick
  <2>12. ASSUME UNCHANGED vars PROVE TypeOK'
    BY <2>12 DEF vars
  <2> QED
    BY <2>1, <2>2, <2>3, <2>4, <2>5, <2>6, <2>7, <2>8, <2>9, <2>10, <2>11, <2>12 DEF Next, Step
<1> QED
  BY <1>1, <1>2, PTL DEF Spec

(* While nobody overstays, an owner's file is its own and fresh, and what  *)
(* a thief is about to unlink, with the marker that only it holds, is      *)
(* there and expired: hence nobody's whose owner is alive.                 *)
OwnersFresh == \A c \in Claimants : pc[c] = "own" => lease = c /\ age < TTL
ThiefMarked == \A c \in Claimants : pc[c] \in {"restat", "unlink", "stolen", "failed"} => marker = c
PreyExpired == \A c \in Claimants : pc[c] = "unlink" => Expired
LeaseInv    == ThiefMarked /\ (overstayed \/ (OwnersFresh /\ PreyExpired))

LEMMA LeaseInvStep == TypeOK /\ LeaseInv /\ [Next]_vars => LeaseInv'
<1> SUFFICES ASSUME TypeOK, LeaseInv, [Next]_vars PROVE LeaseInv'
  OBVIOUS
<1> USE LeaseAssumption DEF LeaseAssumption, TypeOK, LeaseInv, OwnersFresh, ThiefMarked, PreyExpired, Expired
<1>1. ASSUME NEW c \in Claimants, Claim(c) PROVE LeaseInv'
  BY <1>1 DEF Claim, Goto
<1>2. ASSUME NEW c \in Claimants, NEW refused \in {"stat", "idle"}, NEW from \in {"create", "recreate"},
             Create(c, from, refused)
      PROVE  LeaseInv'
  BY <1>2 DEF Create, Goto
<1>4. ASSUME NEW c \in Claimants, Stat(c) PROVE LeaseInv'
  BY <1>4 DEF Stat, Goto
<1>5. ASSUME NEW c \in Claimants, Mark(c) PROVE LeaseInv'
  BY <1>5 DEF Mark, Goto
<1>6. ASSUME NEW c \in Claimants, Restat(c) PROVE LeaseInv'
  BY <1>6 DEF Restat, Goto
<1>7. ASSUME NEW c \in Claimants, Unlink(c) PROVE LeaseInv'
  BY <1>7 DEF Unlink, Goto
<1>8. ASSUME NEW c \in Claimants, Unmark(c) PROVE LeaseInv'
  BY <1>8 DEF Unmark, Goto
<1>9. ASSUME NEW c \in Claimants, Release(c) PROVE LeaseInv'
  BY <1>9 DEF Release, Goto
<1>10. ASSUME NEW p \in Procs, Kill(p) PROVE LeaseInv'
  BY <1>10 DEF Kill
<1>11. ASSUME Tick PROVE LeaseInv'
  <2>1. ThiefMarked'
    BY <1>11 DEF Tick
  <2>2. CASE overstayed
    BY <1>11, <2>1, <2>2, Zenon DEF Tick
  <2>3. CASE ~overstayed /\ age' = TTL /\ pc[lease] = "own"
    BY <1>11, <2>1, <2>3, Zenon DEF Tick
  <2>4. CASE ~overstayed /\ ~(age' = TTL /\ pc[lease] = "own")
    BY <1>11, <2>1, <2>4 DEF Tick
  <2> QED
    BY <2>2, <2>3, <2>4
<1>12. ASSUME UNCHANGED vars PROVE LeaseInv'
  BY <1>12 DEF vars
<1> QED
  BY <1>1, <1>2, <1>4, <1>5, <1>6, <1>7, <1>8, <1>9, <1>10, <1>11, <1>12 DEF Next, Step

THEOREM LeaseInvariant == Spec => []LeaseInv
<1>1. Init => LeaseInv
  BY DEF Init, LeaseInv, ThiefMarked, OwnersFresh, PreyExpired
<1> QED
  BY <1>1, LeaseTyped, LeaseInvStep, PTL DEF Spec

(* Unless an owner overstays, at most one claimant owns the workflow,      *)
(* whoever is killed and whatever is stolen (claim_workflow's "can't both  *)
(* believe they won").                                                     *)
THEOREM LeaseIsExclusive == Spec => []OneOwner
<1>1. LeaseInv => OneOwner
  BY DEF LeaseInv, OwnersFresh, OneOwner, Owners
<1> QED
  BY <1>1, LeaseInvariant, PTL

(* Unless an owner overstays, no thief and no release of another takes its *)
(* lease file away.                                                        *)
THEOREM LeaseFileIsSafe == Spec => OwnersFileStays
<1>1. LeaseInv /\ LeaseInv' /\ [Next]_vars =>
        [\A c \in Claimants : pc[c] = "own" /\ pc'[c] = "own" => overstayed \/ lease' = c]_vars
  <2> SUFFICES ASSUME LeaseInv, LeaseInv', [Next]_vars,
                      NEW c \in Claimants, pc[c] = "own", pc'[c] = "own", ~overstayed
               PROVE  lease' = c
    BY DEF vars
  <2>1. lease = c
    BY DEF LeaseInv, OwnersFresh
  <2>2. CASE ~overstayed'
    BY <2>2 DEF LeaseInv, OwnersFresh
  <2>3. CASE overstayed'
    BY <2>1, <2>3 DEF Next, Step, Claim, Create, Stat, Mark, Restat, Unlink, Unmark, Release,
                      Kill, Tick, vars
  <2> QED
    BY <2>2, <2>3
<1> QED
  BY <1>1, LeaseInvariant, PTL DEF Spec, OwnersFileStays

(* For any number of processes, threads and kills, no end of a theft but a *)
(* kill leaves a marker that turns every later thief away.                 *)
THEOREM MarkerIsNotLeft == Spec => []MarkerHeld
<1>1. Init => MarkerHeld
  BY DEF Init, MarkerHeld
<1>2. TypeOK /\ MarkerHeld /\ [Next]_vars => MarkerHeld'
  <2> SUFFICES ASSUME TypeOK, MarkerHeld, [Next]_vars, marker' # None
               PROVE  orphaned' \/ pc'[marker'] \in Stealing
    BY DEF MarkerHeld
  <2> USE LeaseAssumption DEF LeaseAssumption, TypeOK, MarkerHeld, Stealing, Goto
  <2>1. ASSUME NEW c \in Claimants,
               \/ Claim(c) \/ Create(c, "create", "stat") \/ Create(c, "recreate", "idle")
               \/ Stat(c) \/ Release(c)
        PROVE  orphaned' \/ pc'[marker'] \in Stealing
    BY <2>1 DEF Claim, Create, Stat, Release
  <2>2. ASSUME NEW c \in Claimants, Mark(c) \/ Restat(c) \/ Unlink(c)
        PROVE  orphaned' \/ pc'[marker'] \in Stealing
    BY <2>2 DEF Mark, Restat, Unlink
  <2>3. ASSUME NEW c \in Claimants, Unmark(c)
        PROVE  FALSE
    BY <2>3 DEF Unmark
  <2>4. ASSUME NEW p \in Procs, Kill(p)
        PROVE  orphaned' \/ pc'[marker'] \in Stealing
    BY <2>4 DEF Kill
  <2>5. CASE Tick \/ UNCHANGED vars
    BY <2>5 DEF Tick, vars
  <2> QED
    BY <2>1, <2>2, <2>3, <2>4, <2>5 DEF Next, Step
<1> QED
  BY <1>1, <1>2, LeaseTyped, PTL DEF Spec
=============================================================================
