------------------------------- MODULE Lease -------------------------------
(***************************************************************************)
(* The advance lease of one workflow (adapters/orchestration/              *)
(* checkpoint_shim.py, claim_workflow): a file created with O_EXCL, stolen *)
(* by its age, the theft itself guarded by a marker file.  Every file      *)
(* operation is a step; processes may be killed between any two of them    *)
(* and leave their files behind.  No code of the repository claims a       *)
(* workflow yet, only its tests: a claim is never owed, so nothing is said *)
(* of when an abandoned lease is claimed again.                            *)
(***************************************************************************)
EXTENDS Naturals

CONSTANTS Procs, Threads, \* processes, and the threads of each
          None,
          TTL,            \* the age, in ticks, from which a lease may be stolen
          MaxKills        \* bound: processes killed

Claimants == Procs \X Threads

ASSUME LeaseAssumption == None \notin Claimants /\ TTL \in Nat \ {0} /\ MaxKills \in Nat

VARIABLES lease,  \* who created the lease file, or None
          age,    \* how old it is: no age above TTL matters
          marker, \* who created the steal marker, or None
          pc,     \* where each claimant is
          kills,  \* processes killed
          overstayed, \* history: has an owner ever kept a lease for the TTL?
          orphaned    \* history: has a thief ever been killed over its marker?

vars == <<lease, age, marker, pc, kills, overstayed, orphaned>>

PCs == {"idle", "create", "stat", "mark", "restat", "unlink", "stolen", "failed",
        "recreate", "own"}

TypeOK ==
  /\ lease \in Claimants \cup {None} /\ age \in 0 .. TTL
  /\ marker \in Claimants \cup {None}
  /\ pc \in [Claimants -> PCs]
  /\ kills \in 0 .. MaxKills /\ overstayed \in BOOLEAN /\ orphaned \in BOOLEAN

Init ==
  /\ lease = None /\ age = 0 /\ marker = None
  /\ pc = [c \in Claimants |-> "idle"]
  /\ kills = 0 /\ overstayed = FALSE /\ orphaned = FALSE

-----------------------------------------------------------------------------
Goto(c, from, to) == pc[c] = from /\ pc' = [pc EXCEPT ![c] = to]

Expired == lease # None /\ age = TTL

(* claim_workflow takes the lock of its process without waiting; a second  *)
(* thread is told FALSE at once.                                           *)
Claim(c) ==
  /\ \A t \in Threads : pc[<<c[1], t>>] = "idle"
  /\ Goto(c, "idle", "create")
  /\ UNCHANGED <<lease, age, marker, kills, overstayed, orphaned>>

\* Slip: the open is not exclusive.
CreateAnyway(c, from, refused) ==
  /\ Goto(c, from, "own") /\ lease' = c /\ age' = 0
  /\ UNCHANGED <<marker, kills, overstayed, orphaned>>

(* The O_CREAT|O_EXCL open, at first or after a theft.                     *)
Create(c, from, refused) ==
  /\ IF lease = None THEN Goto(c, from, "own") /\ lease' = c /\ age' = 0
                     ELSE Goto(c, from, refused) /\ UNCHANGED <<lease, age>>
  /\ UNCHANGED <<marker, kills, overstayed, orphaned>>

(* _try_steal_expired_lease: the age, first without the marker ...         *)
Stat(c) ==
  /\ Goto(c, "stat", IF Expired THEN "mark" ELSE "idle")
  /\ UNCHANGED <<lease, age, marker, kills, overstayed, orphaned>>

(* ... the marker ...                                                      *)
Mark(c) ==
  /\ IF marker = None THEN Goto(c, "mark", "restat") /\ marker' = c
                      ELSE Goto(c, "mark", "idle") /\ UNCHANGED marker
  /\ UNCHANGED <<lease, age, kills, overstayed, orphaned>>

\* Slip: the age is not looked at again under the marker.
RestatSkipped(c) ==
  /\ Goto(c, "restat", "unlink")
  /\ UNCHANGED <<lease, age, marker, kills, overstayed, orphaned>>

(* ... the age again ...                                                   *)
Restat(c) ==
  /\ Goto(c, "restat", IF Expired THEN "unlink" ELSE "failed")
  /\ UNCHANGED <<lease, age, marker, kills, overstayed, orphaned>>

(* ... the unlink of whatever lease file is there by then ...              *)
Unlink(c) ==
  /\ Goto(c, "unlink", IF lease = None THEN "failed" ELSE "stolen")
  /\ lease' = None /\ UNCHANGED <<age, marker, kills, overstayed, orphaned>>

\* Slip: the marker goes only after a theft.
UnmarkStolen(c) ==
  /\ \/ Goto(c, "stolen", "recreate") /\ marker' = None
     \/ Goto(c, "failed", "idle") /\ UNCHANGED marker
  /\ UNCHANGED <<lease, age, kills, overstayed, orphaned>>

(* ... and in any case the marker goes.                                    *)
Unmark(c) ==
  /\ Goto(c, "stolen", "recreate") \/ Goto(c, "failed", "idle")
  /\ marker' = None /\ UNCHANGED <<lease, age, kills, overstayed, orphaned>>

(* The with-block ends: the lease file is unlinked, whoever's it is.       *)
Release(c) ==
  /\ Goto(c, "own", "idle")
  /\ lease' = None /\ UNCHANGED <<age, marker, kills, overstayed, orphaned>>

(* A process is killed, with all its threads and locks, and comes back.    *)
Kill(p) ==
  /\ kills < MaxKills /\ kills' = kills + 1
  /\ \E t \in Threads : pc[<<p, t>>] # "idle"
  /\ pc' = [c \in Claimants |-> IF c[1] = p THEN "idle" ELSE pc[c]]
  /\ orphaned' = (orphaned \/ (marker # None /\ marker[1] = p))
  /\ UNCHANGED <<lease, age, marker, overstayed>>

\* Slip: time goes on past the TTL.
TickOn ==
  /\ lease # None /\ age' = age + 1
  /\ overstayed' = (overstayed \/ (age' = TTL /\ pc[lease] = "own"))
  /\ UNCHANGED <<lease, marker, pc, kills, orphaned>>

(* Time passes for the lease file.                                         *)
Tick ==
  /\ lease # None /\ age < TTL /\ age' = age + 1
  /\ overstayed' = (overstayed \/ (age' = TTL /\ pc[lease] = "own"))
  /\ UNCHANGED <<lease, marker, pc, kills, orphaned>>

Step(c) ==
  \/ Create(c, "create", "stat") \/ Create(c, "recreate", "idle")
  \/ Stat(c) \/ Mark(c) \/ Restat(c) \/ Unlink(c) \/ Unmark(c) \/ Release(c)

Next ==
  \/ \E c \in Claimants : Claim(c) \/ Step(c)
  \/ \E p \in Procs : Kill(p)
  \/ Tick

Spec == Init /\ [][Next]_vars

-----------------------------------------------------------------------------
Owners == {c \in Claimants : pc[c] = "own"}

(* "two concurrent claimants racing on the same expired lease can't both   *)
(* believe they won": as long as no owner has kept a lease for the TTL, at *)
(* most one claimant owns the workflow, through kills and thefts.          *)
OneOwner == overstayed \/ \A c, d \in Owners : c = d

(* Nor is an owner's file taken from under it: it leaves the disk by the   *)
(* owner's release.                                                        *)
OwnersFileStays ==
  [][\A c \in Claimants :
       pc[c] = "own" /\ pc'[c] = "own" => overstayed \/ lease' = c]_vars

(* A killed holder "would otherwise strand the lease -- and the workflow   *)
(* -- forever (#34)", and a marker that outlives its theft would as well,  *)
(* for it turns every later thief away.  One on disk is that of a thief    *)
(* still at it, or of one killed over it: no other end of a theft, lost    *)
(* races and vanished files included, leaves it behind.                    *)
Stealing   == {"restat", "unlink", "stolen", "failed"}
MarkerHeld == marker # None => orphaned \/ pc[marker] \in Stealing
=============================================================================
