----------------------------- MODULE DocEditor -----------------------------
(***************************************************************************)
(* The document editor of the workspace (workspace/static/js/document.js)  *)
(* and the part of its server that keeps versions (workspace/routes/       *)
(* document_routes.py).  ONE textarea, one autosave timer, one stash and   *)
(* one animation serve all open tabs; requests are answered later, in any  *)
(* order or not at all, and a handler goes on after its await with         *)
(* whatever is in the editor then.  A closed panel slides out first, with  *)
(* its textarea and its active document; opened again meanwhile, it gets   *)
(* an empty textarea while that document is still the active one.          *)
(*                                                                         *)
(* A text is who wrote it for which document; only a new textarea is       *)
(* blank.  A form-backed PDF is edited here as the Markdown it is kept as. *)
(* Left out: e-mail drafts and a form's page view, whose textarea is not   *)
(* their text, creation, the diff view, the list of a chat's documents,    *)
(* and a panel closed, reopened and closed again within 200 ms.            *)
(***************************************************************************)
EXTENDS Naturals, Sequences, FiniteSets

CONSTANTS Docs, None,
          Sessions,    \* what the user may do in one session besides typing and
                       \* changing tabs, and (a bound) how many texts are
                       \* written: the sessions to explore
          MaxRequests, \* bound: PUTs in flight
          MaxVersions, \* bound: versions of a document
          MaxFaults    \* bound: requests lost

AllUses == {"close", "panel", "send", "ai", "history", "restore", "export"}

Written == [doc : Docs, n : Nat, by : {"user", "ai", "half"}]
Blank   == [doc |-> None, n |-> 0, by |-> "nobody"]
Texts   == Written \cup {Blank}

ASSUME DocEditorAssumption ==
  /\ \A u \in Sessions : u.does \subseteq AllUses /\ u.texts \in Nat
  \* the exported documents are forms, which no empty textarea overwrites
  /\ \A u \in Sessions : "export" \in u.does => u.does \cap {"close", "panel"} = {}
  /\ None \notin Docs /\ None \notin Texts
  /\ MaxRequests \in Nat /\ MaxVersions \in Nat /\ MaxFaults \in Nat

VARIABLES server,  \* versions of each document, oldest first
          docs,    \* the map of open tabs: their text, or None
          active,  \* activeDocId
          pane,    \* the panel: "open" (isOpen), "closing" (it slides out) or "closed"
          editor,  \* the textarea; Blank when there is none
          timer,   \* is the autosave debounce armed?
          puts,    \* PUTs: under way ("sent") or answered ("done")
          opening, \* the answer to loadDocument's GET
          update,  \* a doc_update event on its way
          anim,    \* the text _animateDocEdit types out
          history, \* the version panel
          export,  \* an export under way
          stale,   \* history: has an export read another text than was seen?
          typed,   \* history: the last text the user typed in a document
          session, \* one of Sessions
          written, faults  \* what the bounds count

vars == <<server, docs, active, pane, editor, timer, puts, opening, update, anim,
          history, export, stale, typed, session, written, faults>>

Versions == [text : Texts, source : {"user", "ai"}]
Maybe(S) == S \cup {None}

(* A PUT: `ta` is None while the textarea its handler holds on to is the   *)
(* panel's, and the text that is left in it once it is removed.  Two alike *)
(* count as one.                                                           *)
Puts == [doc : Docs, text : Texts, at : {"sent", "done"}, flush : BOOLEAN, ta : Maybe(Texts)]

(* `loads`: the list is being fetched; `listens`: the click-outside         *)
(* listener is installed; `stash` is _versionSavedContent; `fetched` the   *)
(* version a preview or a restore has asked for.                           *)
Panels  == [open : BOOLEAN, loads : BOOLEAN, listens : BOOLEAN, stash : Maybe(Texts),
            fetched : Maybe([text : Texts, to : {"preview", "restore"}])]
Exports == [at : {"idle", "flush", "read"}, doc : Maybe(Docs), seen : Maybe(Texts)]

TypeOK ==
  /\ server \in [Docs -> Seq(Versions)]
  /\ docs \in [Docs -> Maybe(Texts)] /\ active \in Maybe(Docs)
  /\ pane \in {"open", "closing", "closed"} /\ editor \in Texts /\ timer \in BOOLEAN
  /\ puts \subseteq Puts /\ Cardinality(puts) <= MaxRequests
  /\ opening \in Maybe([doc : Docs, text : Texts]) /\ update \in Maybe(Written) /\ anim \in Maybe(Written)
  /\ history \in Panels /\ export \in Exports /\ stale \in BOOLEAN /\ session \in Sessions
  /\ typed \in [Docs -> Maybe(Written)]
  /\ written \in 0 .. session.texts /\ faults \in 0 .. MaxFaults

First(d)     == [doc |-> d, n |-> 0, by |-> "user"]
ClosedPanel  == [open |-> FALSE, loads |-> FALSE, listens |-> FALSE, stash |-> None, fetched |-> None]
NoExport     == [at |-> "idle", doc |-> None, seen |-> None]

(* Every document has one saved version; some are open in tabs.            *)
Init ==
  /\ server = [d \in Docs |-> <<[text |-> First(d), source |-> "user"]>>]
  /\ docs = [d \in Docs |-> First(d)]
  /\ active \in Docs /\ pane = "open" /\ editor = First(active)
  /\ timer = FALSE /\ puts = {} /\ opening = None /\ update = None /\ anim = None
  /\ history = ClosedPanel /\ export = NoExport /\ stale = FALSE /\ session \in Sessions
  /\ typed = [d \in Docs |-> None] /\ written = 0 /\ faults = 0

-----------------------------------------------------------------------------
Latest(d)  == server[d][Len(server[d])]
Current(d) == Latest(d).text
IsOpen(d)  == d \in Docs /\ docs[d] # None
Open       == {d \in Docs : docs[d] # None}

New(d, by) == [doc |-> d, n |-> written + 1, by |-> by]

(* A click reaches its target only when the version panel does not take it *)
(* for a click outside (ClickOutside comes first).                         *)
Click == ~history.listens

(* saveCurrentToMap, in an open panel: the active document gets what is in *)
(* the textarea, which is empty when the panel has just been built.        *)
Mounted      == IF pane = "open" THEN editor ELSE Blank
SavedTo(map) == IF active \in Docs /\ map[active] # None THEN [map EXCEPT ![active] = Mounted] ELSE map
SavedToMap   == SavedTo(docs)

(* The panel is removed, its textarea with it: a running animation and a   *)
(* handler that waits for its answer go on with that one.                  *)
Removed(more) ==
  LET late == more \cup ({anim} \ {None})
      left == {editor} \cup late \cup {[t EXCEPT !.by = "half"] : t \in late}
  IN /\ anim' = None
     /\ \E last \in [puts -> left] :
          puts' = {IF p.flush \/ p.ta # None THEN p ELSE [p EXCEPT !.ta = last[p]] : p \in puts}

(* openPanel builds a new panel and removes one that still slides out; an  *)
(* open one stays as it is.                                                *)
Opened(more) ==
  /\ pane' = "open"
  /\ IF pane = "open" THEN UNCHANGED <<puts, anim>> ELSE Removed(more)

(* switchToDoc without its save: the version panel is hidden, and nothing  *)
(* else that belongs to the old document is touched.                       *)
Show(map, d) ==
  /\ active' = d /\ editor' = map[d] /\ docs' = map /\ Opened({})
  /\ history' = [history EXCEPT !.open = FALSE]

(* An untitled document that is left empty is deleted: its tab goes, and   *)
(* the server only marks it.  A new panel has a blank title as well.       *)
Leaving(map, d) ==
  {map} \cup {[map EXCEPT ![c] = None] : c \in {c \in Docs \ {d} : c = active /\ map[c] = Blank}}

(* switchToDoc, from a given map, in a panel that is opened if need be.    *)
SwitchFrom(map, d) == \E m \in Leaving(SavedTo(map), d) : Show(m, d)

\* Slip: the map is not brought up to date before the switch.
SwitchUnsaved(d) ==
  /\ Click /\ pane = "open" /\ IsOpen(d) /\ d # active
  /\ Show(docs, d)
  /\ UNCHANGED <<server, timer, opening, update, export, typed, written, faults, stale, session>>

\* Slip: the tab need not be open.
SwitchToAny(d) ==
  /\ Click /\ pane = "open" /\ d # active
  /\ SwitchFrom(docs, d)
  /\ UNCHANGED <<server, timer, opening, update, export, typed, written, faults, stale, session>>

(* A click on another tab.                                                 *)
SwitchToDoc(d) ==
  /\ Click /\ pane = "open" /\ IsOpen(d) /\ d # active
  /\ SwitchFrom(docs, d)
  /\ UNCHANGED <<server, timer, opening, update, export, typed, written, faults, stale, session>>

(* A click on the dock's chip, or on an open tab's document in the library, *)
(* while the panel is closed or still slides out.                          *)
Reopen(d) ==
  /\ Click /\ pane # "open" /\ IsOpen(d)
  /\ SwitchFrom(docs, d)
  /\ UNCHANGED <<server, timer, opening, update, export, typed, written, faults, stale, session>>

(* The input handler: the autosave is debounced.  The keyboard stays with  *)
(* a textarea that slides out.                                             *)
Type ==
  /\ Click /\ active # None /\ written < session.texts
  /\ written' = written + 1
  /\ editor' = New(active, "user")
  /\ typed' = [typed EXCEPT ![active] = editor']
  /\ timer' = TRUE
  /\ UNCHANGED <<server, docs, active, pane, puts, opening, update, anim, history, export, faults, stale, session>>

(* closeTab: the tab's text leaves the map, its document stays on the      *)
(* server; another tab is shown if the closed one was, or the panel closes *)
(* with its last tab, with no active document from then on.                *)
CloseTab(d) ==
  /\ "close" \in session.does /\ Click /\ pane = "open" /\ IsOpen(d)
  /\ LET map == [SavedToMap EXCEPT ![d] = None]
     IN \/ \E e \in Open \ {d} :
             IF active = d THEN Show(map, e)
                           ELSE docs' = map /\ UNCHANGED <<active, pane, editor, puts, anim, history>>
        \/ Open = {d} /\ ~history.open
           /\ docs' = map /\ active' = None /\ pane' = "closing"
           /\ UNCHANGED <<editor, puts, anim, history>>
  /\ UNCHANGED <<server, timer, opening, update, export, typed, written, faults, stale, session>>

(* loadDocument of a closed tab: the GET is answered, then the answer is   *)
(* put into a tab, and that tab is shown.                                  *)
LoadDocument(d) ==
  /\ "close" \in session.does /\ Click /\ ~IsOpen(d) /\ opening = None
  /\ opening' = [doc |-> d, text |-> Current(d)]
  /\ UNCHANGED <<server, docs, active, pane, editor, timer, puts, update, anim, history,
                 export, typed, written, faults, stale, session>>

Loaded ==
  /\ opening # None /\ opening' = None
  /\ SwitchFrom([docs EXCEPT ![opening.doc] = opening.text], opening.doc)
  /\ UNCHANGED <<server, timer, update, export, typed, written, faults, stale, session>>

(* closePanel, with no version panel open: the text is in the map, and the *)
(* panel slides out.                                                       *)
ClosePanel ==
  /\ "panel" \in session.does /\ Click /\ pane = "open" /\ ~history.open
  /\ docs' = SavedToMap /\ pane' = "closing"
  /\ UNCHANGED <<server, active, editor, timer, puts, opening, update, anim, history, export,
                 typed, written, faults, stale, session>>

(* _finishClose, at the end of the transition: only now is no document     *)
(* active.                                                                 *)
FinishClose ==
  /\ pane = "closing" /\ pane' = "closed"
  /\ active' = None /\ editor' = Blank /\ Removed({})
  /\ UNCHANGED <<server, docs, timer, opening, update, history, export, typed, written, faults, stale, session>>

-----------------------------------------------------------------------------
(* Saving.                                                                 *)

(* saveDocument up to its await: document and text are read together.      *)
Put(flush) ==
  LET p == [doc |-> active, text |-> editor, at |-> "sent", flush |-> flush, ta |-> None]
  IN /\ Cardinality(puts) < MaxRequests /\ p \notin puts
     /\ puts' = puts \cup {p}

(* The debounce runs out, whatever document is active by then; with none   *)
(* nothing is saved.                                                       *)
AutosaveFires ==
  /\ timer /\ timer' = FALSE
  /\ IF active = None THEN UNCHANGED puts ELSE Put(FALSE)
  /\ UNCHANGED <<server, docs, active, pane, editor, opening, update, anim, history, export,
                 typed, written, faults, stale, session>>

(* The chat saves the open document before it sends a message.             *)
Send ==
  /\ "send" \in session.does /\ Click /\ pane = "open" /\ Put(FALSE)
  /\ UNCHANGED <<server, docs, active, pane, editor, timer, opening, update, anim, history,
                 export, typed, written, faults, stale, session>>

AsUser(t) == [text |-> t, source |-> "user"]

\* Slip: whatever version is the latest may be replaced.
ServerPutOverAny(p) ==
  /\ p \in puts /\ p.at = "sent"
  /\ puts' = (puts \ {p}) \cup {[p EXCEPT !.at = "done"]}
  /\ IF Current(p.doc) = p.text THEN UNCHANGED server
     ELSE server' = [server EXCEPT ![p.doc][Len(server[p.doc])] = AsUser(p.text)]
  /\ UNCHANGED <<docs, active, pane, editor, timer, opening, update, anim, history, export,
                 typed, written, faults, stale, session>>

(* update_document: a text that changes nothing makes no version; within a *)
(* minute of the user's last one it replaces it.                           *)
ServerPut(p) ==
  /\ p \in puts /\ p.at = "sent"
  /\ puts' = (puts \ {p}) \cup {[p EXCEPT !.at = "done"]}
  /\ IF Current(p.doc) = p.text THEN UNCHANGED server
     ELSE \/ /\ Latest(p.doc).source = "user"
             /\ server' = [server EXCEPT ![p.doc][Len(server[p.doc])] = AsUser(p.text)]
          \/ /\ Len(server[p.doc]) < MaxVersions
             /\ server' = [server EXCEPT ![p.doc] = Append(@, AsUser(p.text))]
  /\ UNCHANGED <<docs, active, pane, editor, timer, opening, update, anim, history, export,
                 typed, written, faults, stale, session>>

\* Slip: the text of now is filed under the document that was saved.
SavedToSender(p) ==
  /\ p \in puts /\ p.at = "done" /\ ~p.flush
  /\ puts' = puts \ {p}
  /\ docs' = IF IsOpen(p.doc) THEN [docs EXCEPT ![p.doc] = editor] ELSE docs
  /\ UNCHANGED <<server, active, pane, editor, timer, opening, update, anim, history, export,
                 typed, written, faults, stale, session>>

(* After saveDocument's await: the ACTIVE document of now gets what is now *)
(* in the textarea that was saved, though it may have been removed.        *)
Saved(p) ==
  /\ p \in puts /\ p.at = "done" /\ ~p.flush
  /\ puts' = puts \ {p}
  /\ docs' = IF IsOpen(active) THEN [docs EXCEPT ![active] = IF p.ta = None THEN editor ELSE p.ta] ELSE docs
  /\ UNCHANGED <<server, active, pane, editor, timer, opening, update, anim, history, export,
                 typed, written, faults, stale, session>>

(* The request or its answer is lost; an export goes on all the same, with *)
(* the document shown by then.                                             *)
Lost(p) ==
  /\ p \in puts /\ faults < MaxFaults /\ faults' = faults + 1
  /\ puts' = puts \ {p}
  /\ export' = IF p.flush THEN [export EXCEPT !.at = "read", !.doc = active] ELSE export
  /\ UNCHANGED <<server, docs, active, pane, editor, timer, opening, update, anim, history,
                 typed, written, stale, session>>

-----------------------------------------------------------------------------
(* The agent.                                                              *)

(* do_edit_document: a version of its own, and an event for the editor.    *)
AiEdit(d) ==
  /\ "ai" \in session.does /\ update = None /\ written < session.texts /\ Len(server[d]) < MaxVersions
  /\ written' = written + 1 /\ update' = New(d, "ai")
  /\ server' = [server EXCEPT ![d] = Append(@, [text |-> update', source |-> "ai"])]
  /\ UNCHANGED <<docs, active, pane, editor, timer, puts, opening, anim, history, export,
                 typed, faults, stale, session>>

(* handleDocUpdate, called twice in a row for an edit: the tab is shown    *)
(* without saving the one shown before.  The text is typed out if it       *)
(* changes what is in an open panel's editor, and put into a new one.      *)
DocUpdate ==
  /\ update # None /\ update' = None
  /\ docs' = [docs EXCEPT ![update.doc] = update] /\ active' = update.doc
  /\ pane' = "open"
  /\ IF pane = "open"
       THEN /\ UNCHANGED puts
            /\ IF active = update.doc /\ editor \notin {update, Blank}
                 THEN anim' = update /\ UNCHANGED editor
                 ELSE editor' = update /\ UNCHANGED anim
       ELSE editor' = update /\ Removed({update})
  /\ UNCHANGED <<server, timer, opening, history, export, typed, written, faults, stale, session>>

(* _animateDocEdit: a frame, or the last one, into whatever is shown.      *)
Frame ==
  /\ anim # None
  /\ \/ editor' = [anim EXCEPT !.by = "half"] /\ editor' # editor /\ UNCHANGED anim
     \/ editor' = anim /\ anim' = None
  /\ UNCHANGED <<server, docs, active, pane, timer, puts, opening, update, history, export,
                 typed, written, faults, stale, session>>

-----------------------------------------------------------------------------
(* The version panel.  Opening it again while an earlier opening still     *)
(* loads or listens is left out.                                           *)

OpenHistory ==
  /\ "history" \in session.does /\ pane = "open"
  /\ ~history.open /\ ~history.loads /\ ~history.listens
  /\ history' = [history EXCEPT !.open = TRUE, !.loads = TRUE, !.stash = editor]
  /\ UNCHANGED <<server, docs, active, pane, editor, timer, puts, opening, update, anim,
                 export, typed, written, faults, stale, session>>

HistoryLoaded ==
  /\ history.loads /\ history' = [history EXCEPT !.loads = FALSE, !.listens = TRUE]
  /\ UNCHANGED <<server, docs, active, pane, editor, timer, puts, opening, update, anim,
                 export, typed, written, faults, stale, session>>

(* _closeVersionPanel, from the badge or the first click outside: the      *)
(* stash goes back into the textarea.                                      *)
CloseHistory ==
  /\ history.open \/ history.listens
  /\ history' = [history EXCEPT !.open = FALSE, !.listens = FALSE, !.stash = None]
  /\ editor' = IF history.stash # None /\ pane # "closed" THEN history.stash ELSE editor
  /\ UNCHANGED <<server, docs, active, pane, timer, puts, opening, update, anim, export,
                 typed, written, faults, stale, session>>

(* A click on a version: fetched, then shown.                              *)
Preview ==
  /\ history.open /\ ~history.loads /\ history.fetched = None /\ active # None
  /\ \E v \in DOMAIN server[active] :
       history' = [history EXCEPT !.fetched = [text |-> server[active][v].text, to |-> "preview"]]
  /\ UNCHANGED <<server, docs, active, pane, editor, timer, puts, opening, update, anim,
                 export, typed, written, faults, stale, session>>

Previewed ==
  /\ history.fetched # None /\ history.fetched.to = "preview"
  /\ history' = [history EXCEPT !.fetched = None]
  /\ editor' = IF pane = "closed" THEN editor ELSE history.fetched.text
  /\ UNCHANGED <<server, docs, active, pane, timer, puts, opening, update, anim, export,
                 typed, written, faults, stale, session>>

(* Restore: the server makes it a new version; the answer fills the editor *)
(* and the map's entry of the active document.                             *)
Restore ==
  /\ "restore" \in session.does /\ history.open /\ ~history.loads /\ history.fetched = None
  /\ active # None /\ Len(server[active]) < MaxVersions
  /\ \E v \in 1 .. Len(server[active]) - 1 :
       LET t == server[active][v].text
       IN /\ history' = [history EXCEPT !.fetched = [text |-> t, to |-> "restore"]]
          /\ server' = [server EXCEPT ![active] = Append(@, AsUser(t))]
  /\ UNCHANGED <<docs, active, pane, editor, timer, puts, opening, update, anim, export,
                 typed, written, faults, stale, session>>

Restored ==
  /\ history.fetched # None /\ history.fetched.to = "restore"
  /\ history' = [history EXCEPT !.fetched = None, !.stash = None]
  /\ editor' = IF pane = "closed" THEN editor ELSE history.fetched.text
  /\ docs' = IF IsOpen(active) THEN [docs EXCEPT ![active] = history.fetched.text] ELSE docs
  /\ UNCHANGED <<server, active, pane, timer, puts, opening, update, anim, export,
                 typed, written, faults, stale, session>>

-----------------------------------------------------------------------------
(* The export of a document the server renders.                            *)

(* _saveActiveDocBeforeExport: nothing is flushed when the map already has *)
(* the text.                                                               *)
StartExport ==
  /\ "export" \in session.does /\ Click /\ pane = "open" /\ export.at = "idle"
  /\ LET to(at) == export' = [at |-> at, doc |-> active, seen |-> editor]
     IN IF editor = docs[active] THEN to("read") /\ UNCHANGED puts
                                 ELSE to("flush") /\ Put(TRUE)
  /\ UNCHANGED <<server, docs, active, pane, editor, timer, opening, update, anim, history,
                 typed, written, faults, stale, session>>

Flushed(p) ==
  /\ p \in puts /\ p.at = "done" /\ p.flush
  /\ puts' = puts \ {p}
  /\ docs' = IF IsOpen(p.doc) THEN [docs EXCEPT ![p.doc] = p.text] ELSE docs
  /\ export' = [export EXCEPT !.at = "read", !.doc = active]
  /\ UNCHANGED <<server, active, pane, editor, timer, opening, update, anim, history,
                 typed, written, faults, stale, session>>

(* The server renders the text it has; with no document shown it finds     *)
(* none.                                                                   *)
ExportRead ==
  /\ export.at = "read"
  /\ export' = NoExport
  /\ stale' = (stale \/ (export.doc # None /\ Current(export.doc) # export.seen))
  /\ UNCHANGED <<server, docs, active, pane, editor, timer, puts, opening, update, anim,
                 history, typed, written, faults, session>>

-----------------------------------------------------------------------------
Next ==
  \/ \E d \in Docs : SwitchToDoc(d) \/ CloseTab(d) \/ LoadDocument(d) \/ Reopen(d) \/ AiEdit(d)
  \/ Type \/ Loaded \/ ClosePanel \/ FinishClose \/ AutosaveFires \/ Send
  \/ \E p \in puts : ServerPut(p) \/ Saved(p) \/ Lost(p) \/ Flushed(p)
  \/ DocUpdate \/ Frame
  \/ OpenHistory \/ HistoryLoaded \/ CloseHistory
  \/ Preview \/ Previewed \/ Restore \/ Restored
  \/ StartExport \/ ExportRead

Spec == Init /\ [][Next]_vars

-----------------------------------------------------------------------------
(* Every version the agent wrote stays in the history as it was, however   *)
(* autosaves, restores and late PUTs fall around it: only the user's own   *)
(* last version is ever replaced.                                          *)
AiVersionsKept ==
  [][\A d \in Docs : \A i \in DOMAIN server[d] :
       server[d][i].source = "ai" =>
         i \in DOMAIN server'[d] /\ server'[d][i] = server[d][i]]_vars

(* Is the user's last text of an open document where the user finds it: in *)
(* the editor if it is shown, otherwise in its tab?                        *)
Shown(d) == typed[d] = (IF active = d THEN editor ELSE docs[d])

(* What may put another text in its place, or none: the user closes its    *)
(* tab; the agent's edit or its animation, the version panel, a document   *)
(* loaded twice, the answer to an export's flush; and a closed panel, when *)
(* the text was typed while it slid out, and when it is opened again       *)
(* before it is gone.                                                      *)
Replaces(d) ==
  \/ CloseTab(d)
  \/ DocUpdate \/ Frame \/ CloseHistory \/ Previewed \/ Restored
  \/ Loaded /\ opening.doc = d
  \/ \E p \in puts : p.doc = d /\ Flushed(p)
  \/ active = d /\ FinishClose
  \/ active = d /\ pane = "closing" /\ (Loaded \/ \E e \in Docs : Reopen(e))

(* Nothing else loses typed text: no order of tab switches, closings and   *)
(* openings of the panel, saves, and late, lost or overtaking answers to   *)
(* them does.                                                              *)
TypedTextKept ==
  [][\A d \in Docs : IsOpen(d) /\ Shown(d) => Shown(d)' \/ Replaces(d)]_vars

(* Is this a text of the document?  A blank one is of any.                 *)
Of(text, d) == text = Blank \/ text.doc = d

(* Is every text under its own document: in the map, in the editor, in the *)
(* PUTs, on the server and in an answer that is still to be shown?         *)
AtHome ==
  /\ \A d \in Open : Of(docs[d], d)
  /\ active # None => Of(editor, active)
  /\ \A p \in puts : Of(p.text, p.doc)
  /\ \A d \in Docs : \A i \in DOMAIN server[d] : Of(server[d][i].text, d)
  /\ opening # None => Of(opening.text, opening.doc)

(* Only the animation and the version panel, which write into whatever     *)
(* document is shown, and a save that is answered when its textarea is     *)
(* gone put one document's text into another.                              *)
TextsStayHome ==
  [][AtHome => \/ AtHome'
               \/ Frame \/ CloseHistory \/ Previewed \/ Restored
               \/ \E p \in puts : p.ta # None /\ Saved(p)]_vars

(* "so the server-side export reads the values the user actually sees"     *)
(* (document.js:620-621).                                                  *)
ExportReadsWhatIsSeen == ~stale
=============================================================================
