------------------------------ MODULE Lifecycle ------------------------------
(***************************************************************************)
(* What the engine promises about the status of one application, as        *)
(* storage shows it: it starts approved and every change of it is a        *)
(* landing, a state that legal moves lead to (core/state_machine.py:3-4).  *)
(* An application that was handed to the employer would therefore never    *)
(* show a status from before.  Pipeline keeps the promise but for two      *)
(* writes, which its property FollowsLifecycle names.                      *)
(***************************************************************************)
EXTENDS LifecycleTable

VARIABLE status

LInit == status = APPROVED

Land == status' \in ReachableFrom[status]
=============================================================================
