---------------------------- MODULE MCDocEditor ----------------------------
(***************************************************************************)
(* The document editor for TLC: sessions that use one or two of its        *)
(* features between them, so that each meets typing, tab switches, saves   *)
(* and the ones most likely to disturb it.                                 *)
(***************************************************************************)
EXTENDS DocEditor, TLC

(* The documents may be renamed.                                           *)
Symmetry == Permutations(Docs)

Session(does, texts) == [does |-> does, texts |-> texts]

MCSessions == {Session({"panel", "ai"}, 2), Session({"close"}, 2), Session({"close", "panel", "ai"}, 1),
               Session({"close", "ai"}, 2),
               Session({"send"}, 2), Session({"close", "history"}, 1),
               Session({"history", "restore"}, 1), Session({"history", "ai"}, 1),
               Session({"export"}, 2), Session({"export", "ai"}, 1)}

ExportSessions == {Session({"export"}, 1)}
=============================================================================
