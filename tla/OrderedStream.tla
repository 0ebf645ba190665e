--------------------------- MODULE OrderedStream ---------------------------
(***************************************************************************)
(* What a chat stream promises its reader: the events of the answer, each  *)
(* once and in order, and "complete" only after the last of them.  A       *)
(* stream may break, but then it says so.                                  *)
(***************************************************************************)
EXTENDS Naturals, Sequences

VARIABLES sent,   \* events the answer has so far
          closed, \* is the last of them its [DONE]?
          got,    \* positions of the events handed to the reader
          ended   \* "no", "complete" or "short"

vars == <<sent, closed, got, ended>>

Init == sent = 0 /\ closed = FALSE /\ got = <<>> /\ ended = "no"

Emit ==
  /\ ~closed
  /\ sent' \in Nat /\ sent' > sent
  /\ closed' \in BOOLEAN
  /\ UNCHANGED <<got, ended>>

Deliver ==
  /\ ended = "no" /\ Len(got) < sent
  /\ got' = Append(got, Len(got) + 1)
  /\ UNCHANGED <<sent, closed, ended>>

Finish ==
  /\ ended = "no" /\ closed /\ Len(got) = sent
  /\ ended' = "complete"
  /\ UNCHANGED <<sent, closed, got>>

Break ==
  /\ ended = "no" /\ ended' = "short"
  /\ UNCHANGED <<sent, closed, got>>

Next == Emit \/ Deliver \/ Finish \/ Break

Spec == Init /\ [][Next]_vars
=============================================================================
