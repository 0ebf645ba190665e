-------------------------- MODULE DocEditorProofs --------------------------
(***************************************************************************)
(* Proofs about DocEditor, for any documents, sessions and bounds.         *)
(***************************************************************************)
EXTENDS DocEditor, FiniteSetTheorems, FunctionTheorems, SequenceTheorems, TLAPS

(* The versions of a document are a sequence; of what does not matter.     *)
ServerSeqs == \E S : server \in [Docs -> Seq(S)]

(* The two ways in which a step changes a history: a version is added, or  *)
(* the user's own last one is replaced.                                    *)
Added(d, v)    == server' = [server EXCEPT ![d] = Append(@, v)]
Replaced(d, v) == /\ Latest(d).source = "user"
                  /\ server' = [server EXCEPT ![d][Len(server[d])] = v]

LEMMA ServerSteps ==
  ASSUME [Next]_vars
  PROVE  server' = server \/ \E d, v : Added(d, v) \/ Replaced(d, v)
<1>1. CASE UNCHANGED vars
  BY <1>1 DEF vars
<1>2. ASSUME NEW p \in puts, ServerPut(p)
      PROVE  server' = server \/ \E d, v : Added(d, v) \/ Replaced(d, v)
  BY <1>2 DEF ServerPut, Added, Replaced
<1>3. ASSUME NEW d \in Docs, AiEdit(d) PROVE \E v : Added(d, v)
  BY <1>3 DEF AiEdit, Added
<1>4. CASE Restore
  BY <1>4 DEF Restore, Added
<1>5. ASSUME NEW d \in Docs, SwitchToDoc(d) \/ CloseTab(d) \/ LoadDocument(d) \/ Reopen(d)
      PROVE  server' = server
  BY <1>5 DEF SwitchToDoc, CloseTab, LoadDocument, Reopen
<1>6. ASSUME NEW p \in puts, Saved(p) \/ Lost(p) \/ Flushed(p) PROVE server' = server
  BY <1>6 DEF Saved, Lost, Flushed
<1>7. ASSUME Type \/ Loaded \/ ClosePanel \/ FinishClose \/ AutosaveFires \/ Send \/ DocUpdate \/ Frame
      PROVE  server' = server
  BY <1>7 DEF Type, Loaded, ClosePanel, FinishClose, AutosaveFires, Send, DocUpdate, Frame
<1>8. ASSUME \/ OpenHistory \/ HistoryLoaded \/ CloseHistory \/ Preview \/ Previewed \/ Restored
             \/ StartExport \/ ExportRead
      PROVE  server' = server
  BY <1>8 DEF OpenHistory, HistoryLoaded, CloseHistory, Preview, Previewed, Restored, StartExport, ExportRead
<1> QED
  BY <1>1, <1>2, <1>3, <1>4, <1>5, <1>6, <1>7, <1>8 DEF Next

LEMMA ServerSeqsInit == Init => ServerSeqs
<1> SUFFICES ASSUME Init PROVE ServerSeqs
  OBVIOUS
<1> DEFINE S == {[text |-> First(d), source |-> "user"] : d \in Docs}
<1>1. ASSUME NEW d \in Docs PROVE <<[text |-> First(d), source |-> "user"]>> \in Seq(S)
  <2> DEFINE v == [text |-> First(d), source |-> "user"]
  <2>1. v \in S
    OBVIOUS
  <2> HIDE DEF v, S
  <2>2. <<v>> \in Seq(S)
    BY <2>1
  <2> QED
    BY <2>2 DEF v
<1> HIDE DEF S
<1>2. server \in [Docs -> Seq(S)]
  BY <1>1 DEF Init
<1> QED
  BY <1>2 DEF ServerSeqs

LEMMA ServerSeqsStep == ServerSeqs /\ [Next]_vars => ServerSeqs'
<1> SUFFICES ASSUME ServerSeqs, [Next]_vars PROVE ServerSeqs'
  OBVIOUS
<1>1. PICK S : server \in [Docs -> Seq(S)]
  BY DEF ServerSeqs
<1>2. ASSUME NEW d, NEW v, Added(d, v) \/ Replaced(d, v) PROVE ServerSeqs'
  <2> DEFINE T == S \cup {v}
  <2>1. ASSUME NEW c \in Docs PROVE server[c] \in Seq(T) /\ Append(server[c], v) \in Seq(T)
    <3>1. server[c] \in Seq(T)
      BY <1>1, SeqMonotonic
    <3> HIDE DEF T
    <3>2. v \in T
      BY DEF T
    <3> QED
      BY <3>1, <3>2
  <2>2. ASSUME NEW c \in Docs PROVE [server[c] EXCEPT ![Len(server[c])] = v] \in Seq(T)
    <3>1. server[c] \in Seq(T) /\ v \in T /\ Len(server[c]) \in Nat
      BY <2>1, LenProperties
    <3> HIDE DEF T
    <3>2. CASE Len(server[c]) \in 1 .. Len(server[c])
      BY <3>1, <3>2, ExceptSeq
    <3>3. CASE Len(server[c]) = 0
      <4>1. DOMAIN server[c] = 1 .. 0
        BY <3>1, <3>3
      <4>2. [server[c] EXCEPT ![Len(server[c])] = v] = server[c]
        BY <3>1, <3>3, <4>1
      <4> QED
        BY <3>1, <4>2
    <3> QED
      BY <3>1, <3>2, <3>3
  <2> HIDE DEF T
  <2>3. server' \in [Docs -> Seq(T)]
    BY <1>1, <1>2, <2>1, <2>2 DEF Added, Replaced
  <2> QED
    BY <2>3 DEF ServerSeqs
<1>3. CASE server' = server
  BY <1>3 DEF ServerSeqs
<1> QED
  BY <1>2, <1>3, ServerSteps

LEMMA AgentVersionsStay ==
  ASSUME ServerSeqs, [Next]_vars, NEW d \in Docs, NEW i \in DOMAIN server[d],
         server[d][i].source = "ai"
  PROVE  i \in DOMAIN server'[d] /\ server'[d][i] = server[d][i]
<1>1. PICK S : server \in [Docs -> Seq(S)]
  BY DEF ServerSeqs
<1>2. server[d] \in Seq(S) /\ i \in 1 .. Len(server[d]) /\ DOMAIN server = Docs
  BY <1>1
<1>3. ASSUME NEW c, NEW v, Added(c, v) PROVE i \in DOMAIN server'[d] /\ server'[d][i] = server[d][i]
  <2>1. server'[d] = IF d = c THEN Append(server[d], v) ELSE server[d]
    BY <1>2, <1>3 DEF Added
  <2>2. /\ i \in DOMAIN Append(server[d], v) /\ Append(server[d], v)[i] = server[d][i]
    BY <1>2
  <2> QED
    BY <1>2, <2>1, <2>2
<1>4. ASSUME NEW c, NEW v, Replaced(c, v) PROVE i \in DOMAIN server'[d] /\ server'[d][i] = server[d][i]
  <2>1. c = d => Len(server[d]) # i
    BY <1>4 DEF Replaced, Latest
  <2>2. server'[d] = IF d = c THEN [server[d] EXCEPT ![Len(server[d])] = v] ELSE server[d]
    BY <1>2, <1>4 DEF Replaced
  <2> QED
    BY <1>2, <2>1, <2>2
<1> QED
  BY <1>3, <1>4, ServerSteps

(* In any session, with any number of documents, PUTs and faults, a        *)
(* version the agent wrote stays in the history as it was.                 *)
THEOREM AgentVersionsAreKept == Spec => AiVersionsKept
<1>1. ServerSeqs /\ [Next]_vars =>
        [\A d \in Docs : \A i \in DOMAIN server[d] :
           server[d][i].source = "ai" =>
             i \in DOMAIN server'[d] /\ server'[d][i] = server[d][i]]_vars
  BY AgentVersionsStay
<1> QED
  BY <1>1, ServerSeqsInit, ServerSeqsStep, PTL DEF Spec, AiVersionsKept
-----------------------------------------------------------------------------
(* What types need: PUTs are finitely many, no document is without a       *)
(* version, the document shown has a tab, and one is shown while the panel *)
(* is open and none once it is closed.                                     *)
Shows ==
  /\ active # None => docs[active] # None
  /\ pane = "open" => active # None
  /\ pane = "closed" => active = None
DocInv == TypeOK /\ IsFiniteSet(puts) /\ Shows /\ \A d \in Docs : server[d] # <<>>

PutsOK == puts \subseteq Puts /\ IsFiniteSet(puts) /\ Cardinality(puts) <= MaxRequests

LEMMA LatestType ==
  ASSUME DocInv, NEW d \in Docs
  PROVE  Latest(d) \in Versions /\ Current(d) \in Texts
<1>1. server[d] \in Seq(Versions) /\ server[d] # <<>>
  BY DEF DocInv, TypeOK
<1>2. Len(server[d]) \in 1 .. Len(server[d])
  BY <1>1, EmptySeq
<1>3. server[d][Len(server[d])] \in Versions
  BY <1>1, <1>2
<1> QED
  BY <1>3 DEF Latest, Current, Versions

LEMMA NewIsText ==
  ASSUME DocInv, NEW d \in Docs, NEW by \in {"user", "ai"}
  PROVE  New(d, by) \in Written
BY DEF DocInv, TypeOK, New, Written

(* A PUT sent, one answered, one gone: still PUTs, and no more than the    *)
(* bound.                                                                  *)
LEMMA PutSent ==
  ASSUME DocInv, active # None, NEW flush \in BOOLEAN, Put(flush)
  PROVE  PutsOK'
<1> DEFINE p == [doc |-> active, text |-> editor, at |-> "sent", flush |-> flush, ta |-> None]
<1>1. p \in Puts
  BY DEF DocInv, TypeOK, Maybe, Puts
<1>2. puts' = puts \cup {p} /\ p \notin puts /\ Cardinality(puts) < MaxRequests
  BY DEF Put
<1> HIDE DEF p
<1>3. puts \subseteq Puts /\ IsFiniteSet(puts)
  BY DEF DocInv, TypeOK
<1>4. /\ IsFiniteSet(puts \cup {p}) /\ Cardinality(puts \cup {p}) = Cardinality(puts) + 1
      /\ Cardinality(puts) \in Nat
  BY <1>2, <1>3, FS_AddElement, FS_CardinalityType
<1> QED
  BY <1>1, <1>2, <1>3, <1>4, DocEditorAssumption DEF PutsOK

LEMMA PutGone ==
  ASSUME DocInv, NEW p \in puts, puts' = puts \ {p}
  PROVE  PutsOK'
<1>1. /\ puts \subseteq Puts /\ IsFiniteSet(puts) /\ Cardinality(puts) \in Nat
      /\ Cardinality(puts) <= MaxRequests
  BY FS_CardinalityType DEF DocInv, TypeOK
<1>2. IsFiniteSet(puts \ {p}) /\ Cardinality(puts \ {p}) = Cardinality(puts) - 1
  BY <1>1, FS_RemoveElement
<1> QED
  BY <1>1, <1>2, DocEditorAssumption DEF PutsOK

LEMMA PutAnswered ==
  ASSUME DocInv, NEW p \in puts, puts' = (puts \ {p}) \cup {[p EXCEPT !.at = "done"]}
  PROVE  PutsOK'
<1> DEFINE r == [p EXCEPT !.at = "done"]
<1>1. /\ puts \subseteq Puts /\ IsFiniteSet(puts) /\ Cardinality(puts) \in Nat
      /\ Cardinality(puts) <= MaxRequests
  BY FS_CardinalityType DEF DocInv, TypeOK
<1>2. r \in Puts
  BY <1>1 DEF Puts
<1> HIDE DEF r
<1>3. IsFiniteSet(puts \ {p}) /\ Cardinality(puts \ {p}) = Cardinality(puts) - 1
  BY <1>1, FS_RemoveElement
<1>4. IsFiniteSet((puts \ {p}) \cup {r})
  BY <1>3, FS_AddElement
<1>5. /\ Cardinality((puts \ {p}) \cup {r}) <= Cardinality(puts)
      /\ Cardinality((puts \ {p}) \cup {r}) \in Nat
  BY <1>1, <1>3, <1>4, FS_AddElement, FS_CardinalityType
<1> QED
  BY <1>1, <1>2, <1>4, <1>5, DocEditorAssumption DEF PutsOK, r

(* The panel is removed: the requests stay, each with the text that its    *)
(* textarea will have.                                                     *)
LEMMA PutsDetached ==
  ASSUME DocInv, NEW more \in SUBSET Written, Removed(more)
  PROVE  PutsOK' /\ anim' = None
<1> DEFINE late == more \cup ({anim} \ {None})
           left == {editor} \cup late \cup {[t EXCEPT !.by = "half"] : t \in late}
<1>1. puts \subseteq Puts /\ IsFiniteSet(puts) /\ Cardinality(puts) \in Nat /\ Cardinality(puts) <= MaxRequests
  BY FS_CardinalityType DEF DocInv, TypeOK
<1>2. late \subseteq Written /\ editor \in Texts
  BY DEF DocInv, TypeOK, Maybe
<1>3. \A t \in late : [t EXCEPT !.by = "half"] \in Written
  BY <1>2 DEF Written
<1>4. left \subseteq Texts
  BY <1>2, <1>3 DEF Texts
<1>5. PICK last \in [puts -> left] :
        puts' = {IF p.flush \/ p.ta # None THEN p ELSE [p EXCEPT !.ta = last[p]] : p \in puts}
  BY DEF Removed
<1>6. anim' = None
  BY DEF Removed
<1> HIDE DEF left, late
<1> DEFINE f == [p \in puts |-> IF p.flush \/ p.ta # None THEN p ELSE [p EXCEPT !.ta = last[p]]]
<1>7. \A p \in puts : f[p] \in Puts
  <2> SUFFICES ASSUME NEW p \in puts PROVE f[p] \in Puts
    OBVIOUS
  <2>1. p \in Puts /\ last[p] \in Maybe(Texts)
    BY <1>1, <1>4, <1>5 DEF Maybe
  <2>2. [p EXCEPT !.ta = last[p]] \in Puts
    BY <2>1 DEF Puts
  <2> QED
    BY <2>1, <2>2
<1>8. f \in [puts -> puts'] /\ \A q \in puts' : \E p \in puts : f[p] = q
  BY <1>5
<1> HIDE DEF f
<1>9. puts' \subseteq Puts
  BY <1>7, <1>8
<1>10. f \in Surjection(puts, puts')
  BY <1>8, Fun_IsSurj
<1>11. IsFiniteSet(puts') /\ Cardinality(puts') <= Cardinality(puts)
  BY <1>1, <1>10, FS_Surjection
<1>12. Cardinality(puts') \in Nat
  BY <1>11, FS_CardinalityType
<1> QED
  BY <1>1, <1>6, <1>9, <1>11, <1>12, DocEditorAssumption DEF PutsOK

(* A version more, or another one in the last one's place.                 *)
LEMMA VersionAdded ==
  ASSUME DocInv, NEW d \in Docs, NEW v \in Versions,
         \/ server' = [server EXCEPT ![d] = Append(@, v)]
         \/ server' = [server EXCEPT ![d][Len(server[d])] = v]
  PROVE  server' \in [Docs -> Seq(Versions)] /\ \A c \in Docs : server'[c] # <<>>
<1>1. /\ server \in [Docs -> Seq(Versions)] /\ \A c \in Docs : server[c] # <<>>
      /\ server[d] \in Seq(Versions)
  BY DEF DocInv, TypeOK
<1>2. Append(server[d], v) \in Seq(Versions) /\ Append(server[d], v) # <<>>
  BY <1>1
<1>3. Len(server[d]) \in 1 .. Len(server[d])
  BY <1>1, EmptySeq
<1>4. /\ [server[d] EXCEPT ![Len(server[d])] = v] \in Seq(Versions)
      /\ Len([server[d] EXCEPT ![Len(server[d])] = v]) = Len(server[d])
  BY <1>1, <1>3, ExceptSeq
<1>5. [server[d] EXCEPT ![Len(server[d])] = v] # <<>>
  BY <1>3, <1>4
<1> QED
  BY <1>1, <1>2, <1>4, <1>5

(* The map after a save: the same tabs, and the shown one gets the text of *)
(* the editor, or none from a panel just built.                            *)
LEMMA MapType ==
  ASSUME DocInv, NEW map \in [Docs -> Maybe(Texts)]
  PROVE  /\ Mounted \in Texts
         /\ SavedTo(map) \in [Docs -> Maybe(Texts)]
         /\ \A d \in Docs : SavedTo(map)[d] # None <=> map[d] # None
         /\ \A d \in Docs : active # d => SavedTo(map)[d] = map[d]
         /\ active # None /\ map[active] # None => SavedTo(map)[active] = Mounted
<1>1. editor \in Texts /\ Blank \in Texts /\ None \notin Texts /\ active \in Maybe(Docs) /\ None \notin Docs
  BY DocEditorAssumption DEF DocInv, TypeOK, Texts
<1>2. Mounted \in Texts
  BY <1>1 DEF Mounted
<1>3. CASE active \in Docs /\ map[active] # None
  BY <1>1, <1>2, <1>3 DEF SavedTo, Maybe
<1>4. CASE ~(active \in Docs /\ map[active] # None)
  BY <1>1, <1>2, <1>4 DEF SavedTo, Maybe
<1> QED
  BY <1>3, <1>4

LEMMA TabsMap ==
  ASSUME DocInv
  PROVE  /\ docs \in [Docs -> Maybe(Texts)] /\ SavedToMap \in [Docs -> Maybe(Texts)]
         /\ \A d \in Docs : SavedToMap[d] # None <=> docs[d] # None
         /\ \A d \in Docs : active # d => SavedToMap[d] = docs[d]
         /\ active # None => active \in Docs /\ docs[active] # None /\ SavedToMap[active] = Mounted
<1>1. docs \in [Docs -> Maybe(Texts)]
  BY DEF DocInv, TypeOK
<1>2. active # None => active \in Docs /\ docs[active] # None
  BY DEF DocInv, TypeOK, Shows, Maybe
<1> QED
  BY <1>1, <1>2, MapType DEF SavedToMap

(* A document left empty may go; the others stay as they were.             *)
LEMMA LeavingType ==
  ASSUME NEW map \in [Docs -> Maybe(Texts)], NEW d \in Docs, NEW m \in Leaving(map, d)
  PROVE  /\ m \in [Docs -> Maybe(Texts)] /\ m[d] = map[d]
         /\ \A c \in Docs : m[c] = map[c] \/ (c = active /\ c # d /\ map[c] = Blank /\ m[c] = None)
BY DEF Leaving, Maybe

LEMMA DocInvInit == Init => DocInv
<1> SUFFICES ASSUME Init PROVE DocInv
  OBVIOUS
<1>1. \A d \in Docs : First(d) \in Texts
  BY DEF First, Texts, Written
<1>2. \A d \in Docs : [text |-> First(d), source |-> "user"] \in Versions
  BY <1>1 DEF Versions
<1>3. \A d \in Docs : /\ server[d] = <<[text |-> First(d), source |-> "user"]>>
                      /\ server[d] \in Seq(Versions) /\ server[d] # <<>>
  BY <1>2 DEF Init
<1>4. server \in [Docs -> Seq(Versions)]
  BY <1>3 DEF Init
<1>5. puts = {} /\ IsFiniteSet({}) /\ Cardinality({}) = 0
  BY FS_EmptySet DEF Init
<1>6. /\ history \in Panels /\ export \in Exports
  BY DEF Init, ClosedPanel, NoExport, Panels, Exports, Maybe
<1>7. /\ docs \in [Docs -> Maybe(Texts)] /\ active \in Maybe(Docs) /\ editor \in Texts
      /\ typed \in [Docs -> Maybe(Written)] /\ active \in Docs /\ docs[active] # None /\ pane = "open"
  BY <1>1, DocEditorAssumption DEF Init, Maybe
<1>8. written \in 0 .. session.texts /\ faults \in 0 .. MaxFaults /\ session \in Sessions
  BY DocEditorAssumption DEF Init
<1>9. /\ opening \in Maybe([doc : Docs, text : Texts]) /\ update \in Maybe(Written)
      /\ anim \in Maybe(Written) /\ timer \in BOOLEAN /\ stale \in BOOLEAN
  BY DEF Init, Maybe
<1> QED
  BY <1>3, <1>4, <1>5, <1>6, <1>7, <1>8, <1>9, DocEditorAssumption DEF DocInv, TypeOK, Shows

(* The types in parts, so that a step names those it touches.              *)
ServerOK == server \in [Docs -> Seq(Versions)] /\ \A d \in Docs : server[d] # <<>>
TabsOK   == docs \in [Docs -> Maybe(Texts)] /\ active \in Maybe(Docs) /\ editor \in Texts
            /\ pane \in {"open", "closing", "closed"} /\ Shows
RestOK   == /\ timer \in BOOLEAN /\ stale \in BOOLEAN
            /\ opening \in Maybe([doc : Docs, text : Texts])
            /\ update \in Maybe(Written) /\ anim \in Maybe(Written)
            /\ typed \in [Docs -> Maybe(Written)]
CountsOK == session \in Sessions /\ written \in 0 .. session.texts /\ faults \in 0 .. MaxFaults

LEMMA Parts ==
  DocInv <=> /\ ServerOK /\ TabsOK /\ PutsOK /\ RestOK /\ CountsOK
             /\ history \in Panels /\ export \in Exports
BY DEF DocInv, TypeOK, ServerOK, TabsOK, PutsOK, RestOK, CountsOK

LEMMA PartsNext ==
  ASSUME ServerOK', TabsOK', PutsOK', RestOK', CountsOK', history' \in Panels, export' \in Exports
  PROVE  DocInv'
BY DEF DocInv, TypeOK, ServerOK, TabsOK, PutsOK, RestOK, CountsOK

(* A tab is shown, in a new panel if need be: tabs, requests, animation    *)
(* and version panel keep their types.                                     *)
LEMMA ShowKeeps ==
  ASSUME DocInv, NEW d \in Docs, NEW map \in [Docs -> Maybe(Texts)], map[d] # None, Show(map, d)
  PROVE  TabsOK' /\ PutsOK' /\ anim' \in Maybe(Written) /\ history' \in Panels
<1>1. active' = d /\ editor' = map[d] /\ docs' = map /\ history' = [history EXCEPT !.open = FALSE] /\ Opened({})
  BY DEF Show
<1>2. history' \in Panels
  BY <1>1 DEF DocInv, TypeOK, Panels
<1>3. pane' = "open" /\ d # None /\ editor' \in Texts
  BY <1>1, DocEditorAssumption DEF Opened, Maybe
<1>4. TabsOK'
  BY <1>1, <1>3 DEF TabsOK, Shows, Maybe
<1>5. PutsOK' /\ anim' \in Maybe(Written)
  <2>1. CASE pane = "open"
    BY <1>1, <2>1 DEF Opened, DocInv, TypeOK, PutsOK
  <2>2. CASE pane # "open"
    <3>1. Removed({})
      BY <1>1, <2>2 DEF Opened
    <3> QED
      BY <3>1, PutsDetached DEF Maybe
  <2> QED
    BY <2>1, <2>2
<1> QED
  BY <1>2, <1>4, <1>5

LEMMA SwitchKeeps ==
  ASSUME DocInv, NEW d \in Docs, NEW map \in [Docs -> Maybe(Texts)], map[d] # None, SwitchFrom(map, d)
  PROVE  TabsOK' /\ PutsOK' /\ anim' \in Maybe(Written) /\ history' \in Panels
<1>1. PICK m \in Leaving(SavedTo(map), d) : Show(m, d)
  BY DEF SwitchFrom
<1>2. SavedTo(map) \in [Docs -> Maybe(Texts)] /\ SavedTo(map)[d] # None
  BY MapType
<1>3. m \in [Docs -> Maybe(Texts)] /\ m[d] # None
  BY <1>2, LeavingType
<1> QED
  BY <1>1, <1>3, ShowKeeps

(* The steps of the tabs.                                                  *)
LEMMA TabStep ==
  ASSUME DocInv, \/ \E d \in Docs : SwitchToDoc(d) \/ CloseTab(d) \/ LoadDocument(d) \/ Reopen(d)
                 \/ Type \/ Loaded \/ ClosePanel \/ FinishClose
  PROVE  DocInv'
<1>0. /\ ServerOK /\ TabsOK /\ PutsOK /\ RestOK /\ CountsOK
      /\ history \in Panels /\ export \in Exports
  BY Parts
<1>1. ASSUME NEW d \in Docs, SwitchToDoc(d) \/ Reopen(d) PROVE DocInv'
  <2>1. TabsOK' /\ PutsOK' /\ anim' \in Maybe(Written) /\ history' \in Panels
    BY <1>0, <1>1, SwitchKeeps DEF SwitchToDoc, Reopen, IsOpen, TabsOK
  <2>2. UNCHANGED <<server, timer, opening, update, export, typed, written, faults, stale, session>>
    BY <1>1 DEF SwitchToDoc, Reopen
  <2> QED
    BY <1>0, <2>1, <2>2, PartsNext DEF ServerOK, RestOK, CountsOK
<1>2. ASSUME NEW d \in Docs, CloseTab(d) PROVE DocInv'
  <2>1. PICK map : map = [SavedToMap EXCEPT ![d] = None]
    OBVIOUS
  <2>2. map \in [Docs -> Maybe(Texts)] /\ \A e \in Docs \ {d} : map[e] # None <=> docs[e] # None
    BY <2>1, TabsMap DEF Maybe
  <2>3. \/ \E e \in Open \ {d} : active = d /\ Show(map, e)
        \/ active # d /\ docs' = map /\ UNCHANGED <<active, pane, editor, puts, anim, history>>
        \/ docs' = map /\ active' = None /\ pane' = "closing" /\ UNCHANGED <<editor, puts, anim, history>>
    BY <1>2, <2>1 DEF CloseTab
  <2>4. ASSUME NEW e \in Open \ {d}, Show(map, e)
        PROVE  TabsOK' /\ PutsOK' /\ anim' \in Maybe(Written) /\ history' \in Panels
    BY <2>2, <2>4, ShowKeeps DEF Open
  <2>5. ASSUME active # d, docs' = map, UNCHANGED <<active, pane, editor, puts, anim, history>>
        PROVE  TabsOK' /\ PutsOK' /\ anim' \in Maybe(Written) /\ history' \in Panels
    BY <1>0, <2>2, <2>5 DEF TabsOK, Shows, Maybe, PutsOK, RestOK
  <2>6. ASSUME docs' = map, active' = None, pane' = "closing", UNCHANGED <<editor, puts, anim, history>>
        PROVE  TabsOK' /\ PutsOK' /\ anim' \in Maybe(Written) /\ history' \in Panels
    BY <1>0, <2>2, <2>6 DEF TabsOK, Shows, Maybe, PutsOK, RestOK
  <2>7. TabsOK' /\ PutsOK' /\ anim' \in Maybe(Written) /\ history' \in Panels
    BY <2>3, <2>4, <2>5, <2>6
  <2>8. UNCHANGED <<server, timer, opening, update, export, typed, written, faults, stale, session>>
    BY <1>2 DEF CloseTab
  <2> QED
    BY <1>0, <2>7, <2>8, PartsNext DEF ServerOK, RestOK, CountsOK
<1>3. ASSUME NEW d \in Docs, LoadDocument(d) PROVE DocInv'
  <2>1. RestOK'
    BY <1>0, <1>3, LatestType DEF LoadDocument, RestOK, Maybe
  <2> QED
    BY <1>0, <1>3, <2>1, PartsNext DEF LoadDocument, ServerOK, TabsOK, Shows, PutsOK, CountsOK
<1>4. CASE Type
  <2>1. active \in Docs /\ editor' = New(active, "user") /\ editor' \in Written
    BY <1>0, <1>4, NewIsText DEF Type, TabsOK, Maybe
  <2>2. TabsOK'
    BY <1>0, <1>4, <2>1 DEF Type, TabsOK, Shows, Texts
  <2>3. RestOK'
    BY <1>0, <1>4, <2>1 DEF Type, RestOK, Maybe
  <2>4. CountsOK'
    BY <1>0, <1>4, DocEditorAssumption DEF Type, CountsOK
  <2> QED
    BY <1>0, <1>4, <2>2, <2>3, <2>4, PartsNext DEF Type, ServerOK, PutsOK
<1>5. CASE Loaded
  <2> DEFINE d == opening.doc
             added == [docs EXCEPT ![d] = opening.text]
  <2>1. d \in Docs /\ opening.text \in Texts /\ opening' = None
    BY <1>0, <1>5 DEF Loaded, RestOK, Maybe
  <2>2. added \in [Docs -> Maybe(Texts)] /\ added[d] # None
    BY <1>0, <2>1, DocEditorAssumption DEF TabsOK, Maybe
  <2>3. SwitchFrom(added, d)
    BY <1>5 DEF Loaded
  <2>4. UNCHANGED <<server, timer, update, export, typed, written, faults, stale, session>>
    BY <1>5 DEF Loaded
  <2> HIDE DEF added, d
  <2>5. TabsOK' /\ PutsOK' /\ anim' \in Maybe(Written) /\ history' \in Panels
    BY <2>1, <2>2, <2>3, SwitchKeeps
  <2>6. RestOK'
    BY <1>0, <2>1, <2>4, <2>5 DEF RestOK, Maybe
  <2> QED
    BY <1>0, <2>4, <2>5, <2>6, PartsNext DEF ServerOK, CountsOK
<1>6. CASE ClosePanel
  <2>1. TabsOK'
    BY <1>0, <1>6, TabsMap DEF ClosePanel, TabsOK, Shows
  <2> QED
    BY <1>0, <1>6, <2>1, PartsNext DEF ClosePanel, ServerOK, PutsOK, RestOK, CountsOK
<1>7. CASE FinishClose
  <2>1. PutsOK' /\ anim' = None
    BY <1>7, PutsDetached DEF FinishClose
  <2>2. TabsOK'
    BY <1>0, <1>7 DEF FinishClose, TabsOK, Shows, Maybe, Texts
  <2>3. RestOK'
    BY <1>0, <1>7, <2>1 DEF FinishClose, RestOK, Maybe
  <2> QED
    BY <1>0, <1>7, <2>1, <2>2, <2>3, PartsNext DEF FinishClose, ServerOK, CountsOK
<1> QED
  BY <1>1, <1>2, <1>3, <1>4, <1>5, <1>6, <1>7

(* The steps that save.                                                    *)
LEMMA SaveStep ==
  ASSUME DocInv, AutosaveFires \/ Send \/ \E p \in puts : ServerPut(p) \/ Saved(p) \/ Lost(p) \/ Flushed(p)
  PROVE  DocInv'
<1>0. /\ ServerOK /\ TabsOK /\ PutsOK /\ RestOK /\ CountsOK
      /\ history \in Panels /\ export \in Exports
  BY Parts
<1>1. CASE AutosaveFires
  <2>1. PutsOK'
    BY <1>0, <1>1, PutSent DEF AutosaveFires, PutsOK
  <2>2. RestOK'
    BY <1>0, <1>1 DEF AutosaveFires, RestOK
  <2> QED
    BY <1>0, <1>1, <2>1, <2>2, PartsNext DEF AutosaveFires, ServerOK, TabsOK, Shows, CountsOK
<1>2. CASE Send
  <2>1. PutsOK'
    BY <1>0, <1>2, PutSent DEF Send, TabsOK, Shows
  <2> QED
    BY <1>0, <1>2, <2>1, PartsNext DEF Send, ServerOK, TabsOK, Shows, RestOK, CountsOK
<1>3. ASSUME NEW p \in puts, ServerPut(p) PROVE DocInv'
  <2>1. PutsOK'
    BY <1>3, PutAnswered DEF ServerPut
  <2>2. p.doc \in Docs /\ AsUser(p.text) \in Versions
    BY <1>0 DEF PutsOK, Puts, AsUser, Versions
  <2>3. ServerOK'
    <3>1. CASE UNCHANGED server
      BY <1>0, <3>1 DEF ServerOK
    <3>2. CASE ~UNCHANGED server
      BY <1>3, <2>2, <3>2, VersionAdded DEF ServerPut, ServerOK
    <3> QED
      BY <3>1, <3>2
  <2> QED
    BY <1>0, <1>3, <2>1, <2>3, PartsNext DEF ServerPut, TabsOK, Shows, RestOK, CountsOK
<1>4. ASSUME NEW p \in puts, Saved(p) PROVE DocInv'
  <2>1. PutsOK'
    BY <1>4, PutGone DEF Saved
  <2>2. (IF p.ta = None THEN editor ELSE p.ta) \in Texts
    BY <1>0 DEF PutsOK, Puts, Maybe, TabsOK
  <2>3. docs' \in [Docs -> Maybe(Texts)] /\ \A d \in Docs : docs'[d] # None <=> docs[d] # None
    BY <1>0, <1>4, <2>2, DocEditorAssumption DEF Saved, TabsOK, IsOpen, Maybe
  <2>4. TabsOK'
    BY <1>0, <1>4, <2>3 DEF Saved, TabsOK, Shows, Maybe
  <2> QED
    BY <1>0, <1>4, <2>1, <2>4, PartsNext DEF Saved, ServerOK, RestOK, CountsOK
<1>5. ASSUME NEW p \in puts, Lost(p) PROVE DocInv'
  <2>1. PutsOK'
    BY <1>5, PutGone DEF Lost
  <2>2. export' \in Exports
    BY <1>0, <1>5 DEF Lost, Exports, TabsOK
  <2>3. CountsOK'
    BY <1>0, <1>5, DocEditorAssumption DEF Lost, CountsOK
  <2> QED
    BY <1>0, <1>5, <2>1, <2>2, <2>3, PartsNext DEF Lost, ServerOK, TabsOK, Shows, RestOK
<1>6. ASSUME NEW p \in puts, Flushed(p) PROVE DocInv'
  <2>1. PutsOK'
    BY <1>6, PutGone DEF Flushed
  <2>2. export' \in Exports
    BY <1>0, <1>6 DEF Flushed, Exports, TabsOK
  <2>3. p.doc \in Docs /\ p.text \in Texts
    BY <1>0 DEF PutsOK, Puts
  <2>4. TabsOK'
    BY <1>0, <1>6, <2>3, DocEditorAssumption DEF Flushed, TabsOK, Shows, IsOpen, Maybe
  <2> QED
    BY <1>0, <1>6, <2>1, <2>2, <2>4, PartsNext DEF Flushed, ServerOK, RestOK, CountsOK
<1> QED
  BY <1>1, <1>2, <1>3, <1>4, <1>5, <1>6

(* The steps of the agent.                                                 *)
LEMMA AgentStep ==
  ASSUME DocInv, DocUpdate \/ Frame \/ \E d \in Docs : AiEdit(d)
  PROVE  DocInv'
<1>0. /\ ServerOK /\ TabsOK /\ PutsOK /\ RestOK /\ CountsOK
      /\ history \in Panels /\ export \in Exports
  BY Parts
<1>1. ASSUME NEW d \in Docs, AiEdit(d) PROVE DocInv'
  <2>1. update' \in Written /\ server' = [server EXCEPT ![d] = Append(@, [text |-> update', source |-> "ai"])]
    BY <1>1, NewIsText DEF AiEdit
  <2>2. [text |-> update', source |-> "ai"] \in Versions
    BY <2>1 DEF Versions, Texts
  <2>3. ServerOK'
    BY <2>1, <2>2, VersionAdded DEF ServerOK
  <2>4. RestOK'
    BY <1>0, <1>1, <2>1 DEF AiEdit, RestOK, Maybe
  <2>5. CountsOK'
    BY <1>0, <1>1, DocEditorAssumption DEF AiEdit, CountsOK
  <2> QED
    BY <1>0, <1>1, <2>3, <2>4, <2>5, PartsNext DEF AiEdit, TabsOK, Shows, PutsOK
<1>2. CASE DocUpdate
  <2>1. update \in Written /\ update.doc \in Docs
    BY <1>0, <1>2 DEF DocUpdate, RestOK, Maybe, Written
  <2>2. editor' \in {editor, update} /\ pane' = "open" /\ active' = update.doc
    BY <1>2 DEF DocUpdate
  <2>3. docs' = [docs EXCEPT ![update.doc] = update]
    BY <1>2 DEF DocUpdate
  <2>4. TabsOK'
    BY <1>0, <2>1, <2>2, <2>3, DocEditorAssumption DEF TabsOK, Shows, Maybe, Texts
  <2>5. PutsOK' /\ anim' \in Maybe(Written)
    <3>1. CASE pane = "open"
      BY <1>0, <1>2, <2>1, <3>1 DEF DocUpdate, PutsOK, RestOK, Maybe
    <3>2. CASE pane # "open"
      <4>1. Removed({update}) /\ {update} \in SUBSET Written
        BY <1>2, <2>1, <3>2 DEF DocUpdate
      <4> QED
        BY <4>1, PutsDetached DEF Maybe
    <3> QED
      BY <3>1, <3>2
  <2>6. update' = None /\ UNCHANGED <<server, timer, opening, history, export, typed, written, faults, stale, session>>
    BY <1>2 DEF DocUpdate
  <2>7. RestOK'
    BY <1>0, <2>5, <2>6 DEF RestOK, Maybe
  <2> QED
    BY <1>0, <2>4, <2>5, <2>6, <2>7, PartsNext DEF ServerOK, CountsOK
<1>3. CASE Frame
  <2>1. anim \in Written
    BY <1>0, <1>3 DEF Frame, RestOK, Maybe
  <2>2. [anim EXCEPT !.by = "half"] \in Written
    BY <2>1 DEF Written
  <2>3. TabsOK'
    BY <1>0, <1>3, <2>1, <2>2 DEF Frame, TabsOK, Shows, Texts
  <2>4. RestOK'
    BY <1>0, <1>3 DEF Frame, RestOK, Maybe
  <2> QED
    BY <1>0, <1>3, <2>3, <2>4, PartsNext DEF Frame, ServerOK, PutsOK, CountsOK
<1> QED
  BY <1>1, <1>2, <1>3

(* The steps of the version panel and of the export.                       *)
LEMMA PanelStep ==
  ASSUME DocInv,
         \/ OpenHistory \/ HistoryLoaded \/ CloseHistory \/ Preview \/ Previewed \/ Restore \/ Restored
         \/ StartExport \/ ExportRead
  PROVE  DocInv'
<1>0. /\ ServerOK /\ TabsOK /\ PutsOK /\ RestOK /\ CountsOK
      /\ history \in Panels /\ export \in Exports
  BY Parts
<1>1. CASE OpenHistory
  <2>1. history' \in Panels
    BY <1>0, <1>1 DEF OpenHistory, Panels, Maybe, TabsOK
  <2> QED
    BY <1>0, <1>1, <2>1, PartsNext DEF OpenHistory, ServerOK, TabsOK, Shows, PutsOK, RestOK, CountsOK
<1>2. CASE HistoryLoaded
  <2>1. history' \in Panels
    BY <1>0, <1>2 DEF HistoryLoaded, Panels
  <2> QED
    BY <1>0, <1>2, <2>1, PartsNext DEF HistoryLoaded, ServerOK, TabsOK, Shows, PutsOK, RestOK, CountsOK
<1>3. CASE CloseHistory
  <2>1. history' \in Panels
    BY <1>0, <1>3 DEF CloseHistory, Panels, Maybe
  <2>2. history.stash \in Maybe(Texts)
    BY <1>0 DEF Panels
  <2>3. TabsOK'
    BY <1>0, <1>3, <2>2 DEF CloseHistory, TabsOK, Shows, Maybe
  <2> QED
    BY <1>0, <1>3, <2>1, <2>3, PartsNext DEF CloseHistory, ServerOK, PutsOK, RestOK, CountsOK
<1>4. CASE Preview
  <2>1. PICK v \in DOMAIN server[active] :
          history' = [history EXCEPT !.fetched = [text |-> server[active][v].text, to |-> "preview"]]
    BY <1>4 DEF Preview
  <2>2. server[active] \in Seq(Versions)
    BY <1>0, <1>4 DEF Preview, ServerOK, TabsOK, Maybe
  <2>3. server[active][v].text \in Texts
    <3>1. server[active][v] \in Versions
      BY <2>1, <2>2
    <3> QED
      BY <3>1 DEF Versions
  <2>4. history' \in Panels
    BY <1>0, <2>1, <2>3 DEF Panels, Maybe
  <2> QED
    BY <1>0, <1>4, <2>4, PartsNext DEF Preview, ServerOK, TabsOK, Shows, PutsOK, RestOK, CountsOK
<1>5. CASE Previewed
  <2>1. history' \in Panels
    BY <1>0, <1>5 DEF Previewed, Panels, Maybe
  <2>2. history.fetched.text \in Texts
    BY <1>0, <1>5 DEF Previewed, Panels, Maybe
  <2>3. TabsOK'
    BY <1>0, <1>5, <2>2 DEF Previewed, TabsOK, Shows
  <2> QED
    BY <1>0, <1>5, <2>1, <2>3, PartsNext DEF Previewed, ServerOK, PutsOK, RestOK, CountsOK
<1>6. CASE Restore
  <2>1. PICK v \in 1 .. Len(server[active]) - 1 :
          /\ history' = [history EXCEPT !.fetched = [text |-> server[active][v].text, to |-> "restore"]]
          /\ server' = [server EXCEPT ![active] = Append(@, AsUser(server[active][v].text))]
    BY <1>6 DEF Restore
  <2>2. active \in Docs /\ server[active] \in Seq(Versions)
    BY <1>0, <1>6 DEF Restore, ServerOK, TabsOK, Maybe
  <2>3. server[active][v] \in Versions
    BY <2>1, <2>2
  <2>4. server[active][v].text \in Texts /\ AsUser(server[active][v].text) \in Versions
    BY <2>3 DEF Versions, AsUser
  <2>5. history' \in Panels
    BY <1>0, <2>1, <2>4 DEF Panels, Maybe
  <2>6. ServerOK'
    BY <2>1, <2>2, <2>4, VersionAdded DEF ServerOK
  <2> QED
    BY <1>0, <1>6, <2>5, <2>6, PartsNext DEF Restore, TabsOK, Shows, PutsOK, RestOK, CountsOK
<1>7. CASE Restored
  <2>1. history' \in Panels
    BY <1>0, <1>7 DEF Restored, Panels, Maybe
  <2>2. history.fetched.text \in Texts
    BY <1>0, <1>7 DEF Restored, Panels, Maybe
  <2>3. TabsOK'
    BY <1>0, <1>7, <2>2, DocEditorAssumption DEF Restored, TabsOK, Shows, IsOpen, Maybe
  <2> QED
    BY <1>0, <1>7, <2>1, <2>3, PartsNext DEF Restored, ServerOK, PutsOK, RestOK, CountsOK
<1>8. CASE StartExport
  <2>1. PutsOK'
    BY <1>0, <1>8, PutSent DEF StartExport, PutsOK, TabsOK, Shows
  <2>2. export' \in Exports
    <3>1. PICK at \in {"read", "flush"} : export' = [at |-> at, doc |-> active, seen |-> editor]
      BY <1>8 DEF StartExport
    <3> QED
      BY <1>0, <3>1 DEF Exports, TabsOK, Maybe
  <2> QED
    BY <1>0, <1>8, <2>1, <2>2, PartsNext DEF StartExport, ServerOK, TabsOK, Shows, RestOK, CountsOK
<1>9. CASE ExportRead
  <2>1. export' \in Exports
    BY <1>9 DEF ExportRead, NoExport, Exports, Maybe
  <2>2. RestOK'
    BY <1>0, <1>9 DEF ExportRead, RestOK
  <2> QED
    BY <1>0, <1>9, <2>1, <2>2, PartsNext DEF ExportRead, ServerOK, TabsOK, Shows, PutsOK, CountsOK
<1> QED
  BY <1>1, <1>2, <1>3, <1>4, <1>5, <1>6, <1>7, <1>8, <1>9

LEMMA DocInvStep == DocInv /\ [Next]_vars => DocInv'
<1> SUFFICES ASSUME DocInv, [Next]_vars PROVE DocInv'
  OBVIOUS
<1>1. CASE UNCHANGED vars
  BY <1>1 DEF vars, DocInv, TypeOK, Shows
<1>2. CASE Next
  BY <1>2, TabStep, SaveStep, AgentStep, PanelStep DEF Next
<1> QED
  BY <1>1, <1>2

(* Editor, tabs, requests, panel and server keep their types, and never    *)
(* are more PUTs in flight than the bound.                                 *)
THEOREM EditorTyped == Spec => []TypeOK
<1>1. DocInv => TypeOK
  BY DEF DocInv
<1> QED
  BY <1>1, DocInvInit, DocInvStep, PTL DEF Spec

-----------------------------------------------------------------------------
(* Where the user's last text of an open document is after a step that is  *)
(* none of those that may replace it.                                      *)
LEMMA TypedTextStays ==
  ASSUME DocInv, [Next]_vars, NEW d \in Docs, IsOpen(d), Shown(d), ~Replaces(d)
  PROVE  Shown(d)'
<1>0. /\ docs \in [Docs -> Maybe(Texts)] /\ active \in Maybe(Docs) /\ editor \in Texts
      /\ typed \in [Docs -> Maybe(Written)] /\ d # None /\ None \notin Texts /\ Blank \notin Written
      /\ active # None => docs[active] # None
      /\ pane = "open" => active # None
      /\ pane = "closed" => active = None
      /\ pane \in {"open", "closing", "closed"}
  BY DocEditorAssumption DEF DocInv, TypeOK, Shows, Blank, Written
<1>1. ASSUME UNCHANGED <<docs, active, editor, typed>> PROVE Shown(d)'
  BY <1>1 DEF Shown
(* The user's text is a written one, so a tab that is left with it is      *)
(* never taken for an empty one.                                           *)
<1>2. typed[d] \in Written
  BY <1>0 DEF Shown, IsOpen, Maybe
<1>3. typed[d] = SavedToMap[d] \/ (active = d /\ pane # "open")
  BY <1>0, TabsMap DEF Shown, Mounted
<1>4. ASSUME NEW e \in Docs, NEW map \in [Docs -> Maybe(Texts)], SwitchFrom(map, e), UNCHANGED typed,
             SavedTo(map)[d] = SavedToMap[d], active # d \/ pane = "open"
      PROVE  Shown(d)'
  <2>1. PICK m \in Leaving(SavedTo(map), e) : Show(m, e)
    BY <1>4 DEF SwitchFrom
  <2>2. SavedTo(map) \in [Docs -> Maybe(Texts)]
    BY <1>4, MapType
  <2>3. m[d] = typed[d]
    BY <1>0, <1>2, <1>3, <1>4, <2>2, LeavingType
  <2> QED
    BY <1>4, <2>1, <2>3 DEF Show, Shown
<1>5. ASSUME NEW e \in Docs, SwitchToDoc(e) PROVE Shown(d)'
  BY <1>0, <1>4, <1>5 DEF SwitchToDoc, SavedToMap
<1>6. ASSUME NEW e \in Docs, Reopen(e) PROVE Shown(d)'
  <2>1. active # d
    BY <1>0, <1>6 DEF Reopen, Replaces
  <2> QED
    BY <1>0, <1>4, <1>6, <2>1 DEF Reopen, SavedToMap
<1>7. ASSUME NEW e \in Docs, CloseTab(e) PROVE Shown(d)'
  <2>1. PICK map : map = [SavedToMap EXCEPT ![e] = None]
    OBVIOUS
  <2>2. \/ \E f \in Open \ {e} : active = e /\ Show(map, f)
        \/ active # e /\ docs' = map /\ UNCHANGED <<active, pane, editor, puts, anim, history>>
        \/ docs' = map /\ active' = None
    BY <1>7, <2>1 DEF CloseTab
  <2>3. docs' = map /\ UNCHANGED typed /\ d # e /\ pane = "open"
    BY <1>7, <2>2 DEF CloseTab, Show, Replaces
  <2>4. map[d] = typed[d]
    BY <1>0, <1>3, <2>1, <2>3, TabsMap
  <2>5. ASSUME NEW f \in Open \ {e}, Show(map, f) PROVE Shown(d)'
    BY <2>3, <2>4, <2>5 DEF Show, Shown
  <2>6. CASE docs' = map /\ active' = active /\ editor' = editor
    BY <2>3, <2>4, <2>6 DEF Shown
  <2>7. CASE docs' = map /\ active' = None
    BY <1>0, <2>3, <2>4, <2>7 DEF Shown
  <2> QED
    BY <2>2, <2>5, <2>6, <2>7
<1>8. CASE Loaded
  <2> DEFINE e == opening.doc
             added == [docs EXCEPT ![e] = opening.text]
  <2>1. SwitchFrom(added, e) /\ UNCHANGED typed
    BY <1>8 DEF Loaded
  <2>2. e # d /\ e \in Docs /\ opening.text \in Texts
    BY <1>8 DEF Loaded, Replaces, DocInv, TypeOK, Maybe
  <2>3. active # d \/ pane = "open"
    BY <1>0, <1>8 DEF Replaces
  <2>4. added \in [Docs -> Maybe(Texts)] /\ added[d] = docs[d]
    BY <1>0, <2>2 DEF Maybe
  <2> HIDE DEF added, e
  <2>5. SavedTo(added)[d] = SavedToMap[d]
    BY <1>0, <2>4, MapType, TabsMap
  <2> QED
    BY <1>4, <2>1, <2>2, <2>3, <2>4, <2>5
<1>9. CASE Type
  <2>1. /\ active \in Docs /\ UNCHANGED <<docs, active>>
        /\ typed' = [typed EXCEPT ![active] = editor']
    BY <1>0, <1>9 DEF Type, Maybe
  <2> QED
    BY <1>0, <2>1 DEF Shown
<1>10. CASE ClosePanel
  <2>1. docs' = SavedToMap /\ UNCHANGED <<active, editor, typed>> /\ pane = "open"
    BY <1>10 DEF ClosePanel
  <2> QED
    BY <1>0, <1>3, <2>1, TabsMap DEF Shown
<1>11. CASE FinishClose
  <2>1. active # d /\ active' = None /\ UNCHANGED <<docs, typed>>
    BY <1>11 DEF FinishClose, Replaces
  <2> QED
    BY <1>0, <2>1 DEF Shown
<1>12. ASSUME NEW p \in puts, Saved(p) PROVE Shown(d)'
  <2>1. (active # d => docs'[d] = docs[d]) /\ UNCHANGED <<active, editor, typed>>
    BY <1>0, <1>12 DEF Saved
  <2> QED
    BY <2>1 DEF Shown
<1>13. ASSUME NEW p \in puts, Flushed(p) PROVE Shown(d)'
  <2>1. p.doc # d /\ p.doc \in Docs /\ docs'[d] = docs[d] /\ UNCHANGED <<active, editor, typed>>
    BY <1>0, <1>13 DEF Flushed, Replaces, DocInv, TypeOK, Puts
  <2> QED
    BY <2>1 DEF Shown
<1>14. ASSUME NEW e \in Docs, LoadDocument(e) \/ AiEdit(e) PROVE Shown(d)'
  BY <1>1, <1>14 DEF LoadDocument, AiEdit
<1>15. ASSUME NEW p \in puts, ServerPut(p) \/ Lost(p) PROVE Shown(d)'
  BY <1>1, <1>15 DEF ServerPut, Lost
<1>16. CASE AutosaveFires \/ Send \/ OpenHistory \/ HistoryLoaded \/ Preview \/ Restore
  BY <1>1, <1>16 DEF AutosaveFires, Send, OpenHistory, HistoryLoaded, Preview, Restore
<1>17. CASE StartExport \/ ExportRead \/ UNCHANGED vars
  BY <1>1, <1>17 DEF StartExport, ExportRead, vars
<1>18. CASE DocUpdate \/ Frame \/ CloseHistory \/ Previewed \/ Restored
  BY <1>18 DEF Replaces
<1> QED
  BY <1>5, <1>6, <1>7, <1>8, <1>9, <1>10, <1>11, <1>12, <1>13, <1>14, <1>15, <1>16, <1>17, <1>18 DEF Next

(* For any documents, any session and any order of answers: only the named *)
(* steps take the user's last text from where the user finds it.           *)
THEOREM TypedTextIsKept == Spec => TypedTextKept
<1>1. DocInv /\ [Next]_vars =>
        [\A d \in Docs : IsOpen(d) /\ Shown(d) => Shown(d)' \/ Replaces(d)]_vars
  BY TypedTextStays
<1> QED
  BY <1>1, DocInvInit, DocInvStep, PTL DEF Spec, TypedTextKept

-----------------------------------------------------------------------------
(* Texts at home, in parts.                                                *)
TabsHome     == \A d \in Docs : docs[d] # None => Of(docs[d], d)
EditorHome   == active # None => Of(editor, active)
PutsHome     == \A p \in puts : Of(p.text, p.doc)
VersionsHome == \A d \in Docs : \A i \in DOMAIN server[d] : Of(server[d][i].text, d)
OpeningHome  == opening # None => Of(opening.text, opening.doc)

LEMMA HomeParts ==
  AtHome <=> TabsHome /\ EditorHome /\ PutsHome /\ VersionsHome /\ OpeningHome
BY DEF AtHome, TabsHome, EditorHome, PutsHome, VersionsHome, OpeningHome, Open

LEMMA HomeNext ==
  ASSUME TabsHome', EditorHome', PutsHome', VersionsHome', OpeningHome'
  PROVE  AtHome'
BY DEF AtHome, TabsHome, EditorHome, PutsHome, VersionsHome, OpeningHome, Open

LEMMA PutHome ==
  ASSUME EditorHome, PutsHome, active # None, NEW flush, Put(flush)
  PROVE  PutsHome'
BY DEF EditorHome, PutsHome, Put

(* A panel that is removed leaves what the requests carry alone.           *)
LEMMA DetachedHome ==
  ASSUME DocInv, PutsHome, NEW more, Removed(more)
  PROVE  PutsHome'
<1> SUFFICES ASSUME NEW q \in puts' PROVE Of(q.text, q.doc)
  BY DEF PutsHome
<1>1. PICK p \in puts : q.text = p.text /\ q.doc = p.doc
  <2>1. PICK last : puts' = {IF p.flush \/ p.ta # None THEN p ELSE [p EXCEPT !.ta = last[p]] : p \in puts}
    BY DEF Removed
  <2>2. PICK p \in puts : q = IF p.flush \/ p.ta # None THEN p ELSE [p EXCEPT !.ta = last[p]]
    BY <2>1
  <2>3. p \in Puts
    BY DEF DocInv, TypeOK
  <2> QED
    BY <2>2, <2>3 DEF Puts
<1> QED
  BY <1>1 DEF PutsHome

(* A version of its own document is added, or put in the last one's place. *)
LEMMA VersionHome ==
  ASSUME DocInv, VersionsHome, NEW d \in Docs, NEW v, Of(v.text, d),
         \/ server' = [server EXCEPT ![d] = Append(@, v)]
         \/ server' = [server EXCEPT ![d][Len(server[d])] = v]
  PROVE  VersionsHome'
<1>1. server \in [Docs -> Seq(Versions)] /\ server[d] \in Seq(Versions)
  BY DEF DocInv, TypeOK
<1>2. \A i \in DOMAIN Append(server[d], v) : Of(Append(server[d], v)[i].text, d)
  BY <1>1 DEF VersionsHome
<1>3. \A i \in DOMAIN [server[d] EXCEPT ![Len(server[d])] = v] :
        Of([server[d] EXCEPT ![Len(server[d])] = v][i].text, d)
  BY <1>1 DEF VersionsHome
<1>4. \/ server' = [server EXCEPT ![d] = Append(server[d], v)]
      \/ server' = [server EXCEPT ![d] = [server[d] EXCEPT ![Len(server[d])] = v]]
  OBVIOUS
<1>5. \A c \in Docs \ {d} : server'[c] = server[c]
  BY <1>1, <1>4
<1>6. server'[d] = Append(server[d], v) \/ server'[d] = [server[d] EXCEPT ![Len(server[d])] = v]
  BY <1>1, <1>4
<1> QED
  BY <1>2, <1>3, <1>5, <1>6 DEF VersionsHome

(* A map at home is at home after a save, and shows a text at home.        *)
LEMMA SavedHome ==
  ASSUME DocInv, EditorHome, NEW map \in [Docs -> Maybe(Texts)],
         \A c \in Docs : map[c] # None => Of(map[c], c)
  PROVE  \A c \in Docs : SavedTo(map)[c] # None => Of(SavedTo(map)[c], c)
<1>1. active # None => Of(Mounted, active)
  BY DEF EditorHome, Mounted, Of
<1>2. active # None => active \in Docs
  BY DEF DocInv, TypeOK, Maybe
<1>3. ASSUME NEW c \in Docs, SavedTo(map)[c] # None PROVE Of(SavedTo(map)[c], c)
  <2>1. map[c] # None
    BY <1>3, MapType
  <2>2. CASE active = c
    <3>1. SavedTo(map)[c] = Mounted /\ active # None
      BY <2>1, <2>2, MapType, DocEditorAssumption
    <3> QED
      BY <1>1, <2>2, <3>1
  <2>3. CASE active # c
    <3>1. SavedTo(map)[c] = map[c]
      BY <2>3, MapType
    <3> QED
      BY <2>1, <3>1
  <2> QED
    BY <2>2, <2>3
<1> QED
  BY <1>3

LEMMA ShowHome ==
  ASSUME DocInv, PutsHome, NEW d \in Docs, NEW map, Show(map, d), map[d] # None,
         \A c \in Docs : map[c] # None => Of(map[c], c)
  PROVE  TabsHome' /\ EditorHome' /\ PutsHome'
<1>1. docs' = map /\ active' = d /\ editor' = map[d] /\ Opened({})
  BY DEF Show
<1>2. TabsHome' /\ EditorHome'
  BY <1>1 DEF TabsHome, EditorHome
<1>3. CASE pane = "open"
  BY <1>1, <1>2, <1>3 DEF Opened, PutsHome
<1>4. CASE pane # "open"
  BY <1>1, <1>2, <1>4, DetachedHome DEF Opened
<1> QED
  BY <1>3, <1>4

LEMMA SwitchHome ==
  ASSUME DocInv, EditorHome, PutsHome, NEW d \in Docs, NEW map \in [Docs -> Maybe(Texts)],
         SwitchFrom(map, d), map[d] # None, \A c \in Docs : map[c] # None => Of(map[c], c)
  PROVE  TabsHome' /\ EditorHome' /\ PutsHome'
<1>1. PICK m \in Leaving(SavedTo(map), d) : Show(m, d)
  BY DEF SwitchFrom
<1>2. SavedTo(map) \in [Docs -> Maybe(Texts)] /\ SavedTo(map)[d] # None
  BY MapType
<1>3. \A c \in Docs : SavedTo(map)[c] # None => Of(SavedTo(map)[c], c)
  BY SavedHome
<1>4. m[d] # None /\ \A c \in Docs : m[c] # None => Of(m[c], c)
  BY <1>1, <1>2, <1>3, LeavingType
<1> QED
  BY <1>1, <1>4, ShowHome

LEMMA HomeStep ==
  ASSUME DocInv, AtHome, [Next]_vars, ~Frame, ~CloseHistory, ~Previewed, ~Restored,
         ~\E p \in puts : p.ta # None /\ Saved(p)
  PROVE  AtHome'
<1>0. /\ docs \in [Docs -> Maybe(Texts)] /\ active \in Maybe(Docs) /\ editor \in Texts
      /\ opening \in Maybe([doc : Docs, text : Texts]) /\ update \in Maybe(Written)
      /\ puts \subseteq Puts /\ (active # None => docs[active] # None)
      /\ pane = "open" => active # None
      /\ TabsHome /\ EditorHome /\ PutsHome /\ VersionsHome /\ OpeningHome
  BY HomeParts DEF DocInv, TypeOK, Shows
<1>1. \A c \in Docs : SavedToMap[c] # None => Of(SavedToMap[c], c)
  BY <1>0, SavedHome DEF TabsHome, SavedToMap
<1>2. ASSUME NEW d \in Docs, SwitchToDoc(d) \/ Reopen(d) PROVE AtHome'
  <2>1. SwitchFrom(docs, d) /\ docs[d] # None /\ UNCHANGED <<server, opening>>
    BY <1>2 DEF SwitchToDoc, Reopen, IsOpen
  <2>2. TabsHome' /\ EditorHome' /\ PutsHome'
    BY <1>0, <2>1, SwitchHome DEF TabsHome
  <2> QED
    BY <1>0, <2>1, <2>2, HomeNext DEF VersionsHome, OpeningHome
<1>3. ASSUME NEW d \in Docs, CloseTab(d) PROVE AtHome'
  <2>1. PICK map : map = [SavedToMap EXCEPT ![d] = None]
    OBVIOUS
  <2>2. \/ \E e \in Open \ {d} : active = d /\ Show(map, e)
        \/ docs' = map /\ active' = active /\ editor' = editor /\ puts' = puts
        \/ docs' = map /\ active' = None /\ puts' = puts
    BY <1>3, <2>1 DEF CloseTab
  <2>3. /\ \A c \in Docs : map[c] # None => Of(map[c], c)
        /\ \A c \in Docs \ {d} : map[c] # None <=> docs[c] # None
    BY <1>1, <2>1, TabsMap
  <2>4. ASSUME NEW e \in Open \ {d}, Show(map, e) PROVE TabsHome' /\ EditorHome' /\ PutsHome'
    BY <1>0, <2>3, <2>4, ShowHome DEF Open
  <2>5. ASSUME docs' = map PROVE TabsHome'
    BY <2>3, <2>5 DEF TabsHome
  <2>6. ASSUME active' = None \/ (active' = active /\ editor' = editor) PROVE EditorHome'
    BY <1>0, <2>6 DEF EditorHome
  <2>7. TabsHome' /\ EditorHome' /\ PutsHome'
    BY <1>0, <2>2, <2>4, <2>5, <2>6 DEF PutsHome
  <2> QED
    BY <1>0, <1>3, <2>7, HomeNext DEF CloseTab, VersionsHome, OpeningHome
<1>4. ASSUME NEW d \in Docs, LoadDocument(d) PROVE AtHome'
  <2>1. server[d] \in Seq(Versions) /\ server[d] # <<>>
    BY DEF DocInv, TypeOK
  <2>2. Len(server[d]) \in DOMAIN server[d]
    BY <2>1, EmptySeq
  <2>3. OpeningHome'
    BY <1>0, <1>4, <2>2 DEF LoadDocument, OpeningHome, VersionsHome, Current, Latest
  <2> QED
    BY <1>0, <1>4, <2>3, HomeNext DEF LoadDocument, TabsHome, EditorHome, PutsHome, VersionsHome
<1>5. CASE Loaded
  <2> DEFINE d == opening.doc
             added == [docs EXCEPT ![d] = opening.text]
  <2>1. SwitchFrom(added, d) /\ opening' = None /\ UNCHANGED server
    BY <1>5 DEF Loaded
  <2>2. d \in Docs /\ opening.text \in Texts /\ Of(opening.text, d)
    BY <1>0, <1>5 DEF Loaded, Maybe, OpeningHome
  <2>3. /\ added \in [Docs -> Maybe(Texts)] /\ added[d] # None
        /\ \A c \in Docs : added[c] # None => Of(added[c], c)
    BY <1>0, <2>2, DocEditorAssumption DEF TabsHome, Maybe
  <2> HIDE DEF added, d
  <2>4. TabsHome' /\ EditorHome' /\ PutsHome'
    BY <1>0, <2>1, <2>2, <2>3, SwitchHome
  <2> QED
    BY <1>0, <2>1, <2>4, HomeNext DEF VersionsHome, OpeningHome
<1>6. CASE Type
  <2>1. EditorHome'
    BY <1>6 DEF Type, New, EditorHome, Of
  <2> QED
    BY <1>0, <1>6, <2>1, HomeNext DEF Type, TabsHome, PutsHome, VersionsHome, OpeningHome
<1>7. CASE ClosePanel \/ FinishClose
  <2>1. CASE ClosePanel
    <3>1. TabsHome'
      BY <1>1, <2>1 DEF ClosePanel, TabsHome
    <3> QED
      BY <1>0, <2>1, <3>1, HomeNext DEF ClosePanel, EditorHome, PutsHome, VersionsHome, OpeningHome
  <2>2. CASE FinishClose
    <3>1. PutsHome'
      BY <1>0, <2>2, DetachedHome DEF FinishClose
    <3> QED
      BY <1>0, <2>2, <3>1, HomeNext DEF FinishClose, TabsHome, EditorHome, VersionsHome, OpeningHome
  <2> QED
    BY <1>7, <2>1, <2>2
<1>8. CASE AutosaveFires \/ Send \/ StartExport
  <2>1. PutsHome'
    BY <1>0, <1>8, PutHome DEF AutosaveFires, Send, StartExport, PutsHome
  <2> QED
    BY <1>0, <1>8, <2>1, HomeNext
       DEF AutosaveFires, Send, StartExport, TabsHome, EditorHome, VersionsHome, OpeningHome
<1>9. ASSUME NEW p \in puts, ServerPut(p) PROVE AtHome'
  <2>1. p \in Puts /\ Of(p.text, p.doc)
    BY <1>0 DEF PutsHome
  <2>2. PutsHome'
    BY <1>0, <1>9, <2>1 DEF ServerPut, PutsHome, Puts
  <2>3. Of(AsUser(p.text).text, p.doc) /\ p.doc \in Docs
    BY <2>1 DEF AsUser, Puts
  <2>4. VersionsHome'
    <3>1. CASE UNCHANGED server
      BY <1>0, <3>1 DEF VersionsHome
    <3>2. CASE ~UNCHANGED server
      BY <1>0, <1>9, <2>3, <3>2, VersionHome DEF ServerPut
    <3> QED
      BY <3>1, <3>2
  <2> QED
    BY <1>0, <1>9, <2>2, <2>4, HomeNext DEF ServerPut, TabsHome, EditorHome, OpeningHome
<1>10. ASSUME NEW p \in puts, Saved(p) PROVE AtHome'
  <2>1. p.ta = None
    BY <1>10
  <2>2. docs' = IF IsOpen(active) THEN [docs EXCEPT ![active] = editor] ELSE docs
    BY <1>10, <2>1 DEF Saved
  <2>3. active # None => Of(editor, active)
    BY <1>0 DEF EditorHome
  <2>4. IsOpen(active) => active # None /\ active \in Docs
    BY DocEditorAssumption DEF IsOpen
  <2>5. \A c \in Docs : docs[c] # None => Of(docs[c], c)
    BY <1>0 DEF TabsHome
  <2>6. ASSUME NEW c \in Docs, docs'[c] # None PROVE Of(docs'[c], c)
    BY <1>0, <2>2, <2>3, <2>4, <2>5, <2>6
  <2>7. TabsHome'
    BY <2>6 DEF TabsHome
  <2> QED
    BY <1>0, <1>10, <2>7, HomeNext DEF Saved, EditorHome, PutsHome, VersionsHome, OpeningHome
<1>11. ASSUME NEW p \in puts, Lost(p) PROVE AtHome'
  BY <1>0, <1>11, HomeNext DEF Lost, TabsHome, EditorHome, PutsHome, VersionsHome, OpeningHome
<1>12. ASSUME NEW p \in puts, Flushed(p) PROVE AtHome'
  <2>1. Of(p.text, p.doc) /\ p.doc \in Docs
    BY <1>0 DEF PutsHome, Puts
  <2>2. TabsHome' /\ PutsHome'
    BY <1>0, <1>12, <2>1 DEF Flushed, TabsHome, PutsHome
  <2> QED
    BY <1>0, <1>12, <2>2, HomeNext DEF Flushed, EditorHome, VersionsHome, OpeningHome
<1>13. ASSUME NEW d \in Docs, AiEdit(d) PROVE AtHome'
  <2>1. update'.doc = d /\ server' = [server EXCEPT ![d] = Append(@, [text |-> update', source |-> "ai"])]
    BY <1>13 DEF AiEdit, New
  <2>2. VersionsHome'
    <3>1. Of([text |-> update', source |-> "ai"].text, d)
      BY <2>1 DEF Of
    <3> QED
      BY <1>0, <2>1, <3>1, VersionHome
  <2> QED
    BY <1>0, <1>13, <2>2, HomeNext DEF AiEdit, TabsHome, EditorHome, PutsHome, OpeningHome
<1>14. CASE DocUpdate
  <2>1. update.doc \in Docs /\ Of(update, update.doc)
    BY <1>0, <1>14 DEF DocUpdate, Maybe, Written, Of
  <2>2. docs' = [docs EXCEPT ![update.doc] = update] /\ active' = update.doc
    BY <1>14 DEF DocUpdate
  <2>3. editor' = update \/ (active = update.doc /\ editor' = editor)
    BY <1>14 DEF DocUpdate
  <2>4. TabsHome' /\ EditorHome'
    BY <1>0, <2>1, <2>2, <2>3, DocEditorAssumption DEF TabsHome, EditorHome
  <2>5. PutsHome'
    <3>1. CASE pane = "open"
      BY <1>0, <1>14, <3>1 DEF DocUpdate, PutsHome
    <3>2. CASE pane # "open"
      BY <1>0, <1>14, <3>2, DetachedHome DEF DocUpdate
    <3> QED
      BY <3>1, <3>2
  <2> QED
    BY <1>0, <1>14, <2>4, <2>5, HomeNext DEF DocUpdate, VersionsHome, OpeningHome
<1>15. CASE Restore
  <2>1. PICK v \in 1 .. Len(server[active]) - 1 :
          server' = [server EXCEPT ![active] = Append(@, AsUser(server[active][v].text))]
    BY <1>15 DEF Restore
  <2>2. active \in Docs /\ server[active] \in Seq(Versions)
    BY <1>0, <1>15 DEF Restore, Maybe, DocInv, TypeOK
  <2>3. Of(AsUser(server[active][v].text).text, active)
    BY <1>0, <2>1, <2>2 DEF AsUser, VersionsHome
  <2>4. VersionsHome'
    BY <1>0, <2>1, <2>2, <2>3, VersionHome
  <2> QED
    BY <1>0, <1>15, <2>4, HomeNext DEF Restore, TabsHome, EditorHome, PutsHome, OpeningHome
<1>16. CASE OpenHistory \/ HistoryLoaded \/ Preview \/ ExportRead \/ UNCHANGED vars
  BY <1>0, <1>16, HomeNext
     DEF OpenHistory, HistoryLoaded, Preview, ExportRead, vars,
         TabsHome, EditorHome, PutsHome, VersionsHome, OpeningHome
<1> QED
  BY <1>2, <1>3, <1>4, <1>5, <1>6, <1>7, <1>8, <1>9, <1>10, <1>11, <1>12, <1>13, <1>14, <1>15, <1>16
     DEF Next

(* For any documents and any session, no other step puts one document's    *)
(* text into another.                                                      *)
THEOREM TextsStay == Spec => TextsStayHome
<1>1. DocInv /\ [Next]_vars =>
        [AtHome => \/ AtHome'
                   \/ Frame \/ CloseHistory \/ Previewed \/ Restored
                   \/ \E p \in puts : p.ta # None /\ Saved(p)]_vars
  BY HomeStep
<1> QED
  BY <1>1, DocInvInit, DocInvStep, PTL DEF Spec, TextsStayHome
=============================================================================
