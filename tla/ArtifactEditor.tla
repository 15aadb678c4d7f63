--------------------------- MODULE ArtifactEditor ---------------------------
(***************************************************************************)
(* ArtifactStore: the files of a session in the browser.  They stream in   *)
(* while a reply is written, are replaced by each new revision, are edited *)
(* with a debounced save, and have a panel with the history of one file.   *)
(* The backend's answers travel on their own, the events of a room in      *)
(* order, to the sockets that are in it; a connection that breaks loses    *)
(* what is on its way, and the renewed one is in no room.                  *)
(*                                                                         *)
(* What is left out: the list of tabs, except that closing one moves the   *)
(* focus, and which revision the panel compares.  How the join and the     *)
(* leave of a room travel is in ChatView.                                  *)
(***************************************************************************)
EXTENDS ArtifactStream, FiniteSets, Functions

CONSTANTS Files,      \* file names: Named and the numbers of snippets
          Typed,      \* what the user types
          NoFile, NoSession

ASSUME ArtifactEditorAssumption ==
  /\ Named \in Files /\ NoSession \notin Sessions
  /\ \A s \in Scenes : \A n \in 1 .. Len(s.text) :
       4 * n <= Len(s.text) => n \in Files

VARIABLES
  current,  \* currentSessionId
  loads,    \* loadGeneration
  lists,    \* GETs of artifacts in flight
  shown,    \* artifacts: the revision and the content of each file
  live,     \* streaming
  active,   \* activeFilename
  pending,  \* pendingSaves
  panel,    \* the revision history
  fetches,  \* GETs of revisions in flight
  edits,    \* artifact:edit messages in flight
  acted     \* bound: what the user has done so far

panelVars  == <<panel, fetches>>
storeVars  == <<current, loads, lists, shown, live, active, pending,
                panelVars>>
editorVars == <<storeVars, edits, acted>>

NotShown   == [id |-> 0, content |-> <<>>]
NotPending == NotShown
Closed(generation) ==
  [open |-> FALSE, file |-> NoFile, revisions |-> {}, loading |-> FALSE,
   generation |-> generation]

EditorInit ==
  /\ StreamInit
  /\ current = NoSession /\ loads = 0 /\ lists = {}
  /\ shown = [f \in Files |-> NotShown]
  /\ live = {}
  /\ active = NoFile
  /\ pending = [f \in Files |-> NotPending]
  /\ panel = Closed(0) /\ fetches = {}
  /\ edits = <<>> /\ acted = 0

Content   == Seq(Units \cup Typed)
Ids       == DOMAIN log
Shown     == [id : Ids \cup {0}, content : Content]

EditorTypeOK ==
  /\ scene \in Scenes /\ received \in 0 .. Len(scene.text)
  /\ buffer \in Seq(Units) /\ inBlock \in BOOLEAN /\ snippets \in Nat
  /\ atMessageStart \in BOOLEAN
  /\ phase \in {"streaming", "flushing", "ended"}
  /\ failed \in BOOLEAN /\ torn \in BOOLEAN
  /\ artifact = NoArtifact \/ /\ artifact.file \in Files
                              /\ Len(artifact.content) <= MaxContent
  /\ \A id \in Ids : /\ log[id].session \in Sessions
                     /\ log[id].file \in Files
                     /\ log[id].origin = "ai" => Len(log[id].content)
                                                   <= MaxContent
  /\ rooms \subseteq Sessions /\ missed \subseteq Nat
  /\ current \in Sessions \cup {NoSession}
  /\ loads \in Nat
  /\ \A get \in lists : get.generation \in 1 .. loads
  /\ shown \in [Files -> Shown] /\ pending \in [Files -> Shown]
  /\ active \in Files \cup {NoFile}
  /\ panel.file \in Files \cup {NoFile} /\ panel.revisions \subseteq Ids
  /\ panel.open \in BOOLEAN /\ panel.loading \in BOOLEAN
  /\ \A get \in fetches : get.generation \in 1 .. panel.generation
  /\ \A n \in DOMAIN edits : edits[n].id \in Ids

RevisionsOf(session, file) == {id \in Ids : /\ log[id].session = session
                                            /\ log[id].file = file}
(* listLatestForSession.                                                   *)
LatestOf(session) == {Max(RevisionsOf(session, f)) :
                        f \in {g \in Files : RevisionsOf(session, g) # {}}}

Acts == acted < scene.actions /\ acted' = acted + 1

(* resetRevisionHistory.                                                   *)
ResetPanel == panel' = Closed(panel.generation + 1) /\ UNCHANGED fetches

(* The chat's store leaves the old room and joins the new one in the same  *)
(* turn; the server may refuse either (WsRateLimiter).                     *)
LoadSession(session) ==
  /\ Acts
  /\ \E left \in {{}, {current} \ {session}}, joined \in {{}, {session}} :
       rooms' = (rooms \ left) \cup joined
  /\ loads' = loads + 1
  /\ lists' = lists \cup {[generation |-> loads + 1, session |-> session,
                           answered |-> FALSE, answer |-> {}]}
  /\ current' = session
  /\ shown' = [f \in Files |-> NotShown]
  /\ live' = {}
  /\ active' = NoFile
  /\ pending' = [f \in Files |-> NotPending]
  /\ ResetPanel
  /\ UNCHANGED <<scene, received, parserVars, todo, phase, failed, torn,
                 artifact, temps, log, wire, missed, edits>>

(* The connection breaks.  The socket renews it but nothing joins the room *)
(* of the session again (socket.service.ts).                               *)
Disconnect ==
  /\ rooms # {}
  /\ rooms' = {}
  /\ wire' = <<>>
  /\ missed' = missed \cup EndsIn(Range(wire))
  /\ UNCHANGED <<scene, received, parserVars, todo, phase, failed, torn,
                 artifact, temps, log, editorVars>>

(* The backend reads its tables ...                                        *)
AnswerList(get) ==
  /\ ~get.answered
  /\ lists' = (lists \ {get})
                \cup {[get EXCEPT !.answered = TRUE,
                               !.answer = LatestOf(get.session)]}
  /\ UNCHANGED <<streamVars, current, loads, shown, live, active, pending,
                 panelVars, edits, acted>>

(* Mutation: which load an answer belongs to is not looked at.             *)
AnyList(get) == TRUE

CurrentList(get) == get.generation = loads /\ current = get.session

(* ... and the answer arrives, or an error, which changes nothing.         *)
ReceiveList(get) ==
  /\ lists' = lists \ {get}
  /\ \/ /\ get.answered /\ CurrentList(get)
        /\ shown' = [f \in Files |->
             LET newest == {id \in get.answer : log[id].file = f} IN
             IF newest = {} THEN NotShown
             ELSE LET id == Max(newest)
                  IN [id |-> id, content |-> log[id].content]]
        /\ IF get.answer = {} THEN UNCHANGED active
           ELSE \E id \in get.answer : active' = log[id].file
     \/ /\ ~(get.answered /\ CurrentList(get))
        /\ UNCHANGED <<shown, active>>
  /\ UNCHANGED <<streamVars, current, loads, live, pending, panelVars, edits,
                 acted>>

Visible == {f \in Files : shown[f] # NotShown} \cup {s.file : s \in live}

(* loadRevisionHistory of a file that has just become the active one.      *)
LoadHistory(file) ==
  /\ panel' = [open |-> TRUE, file |-> file, revisions |-> {},
               loading |-> TRUE, generation |-> panel.generation + 1]
  /\ fetches' = fetches \cup {[generation |-> panel.generation + 1,
                               session |-> current, file |-> file,
                               answered |-> FALSE, answer |-> {}]}

SelectTab(file) ==
  /\ Acts
  /\ file \in Visible
  /\ active' = file
  /\ IF panel.open THEN LoadHistory(file) ELSE UNCHANGED panelVars
  /\ UNCHANGED <<streamVars, current, loads, lists, shown, live, pending,
                 edits>>

(* closeTab of the active file; closing another changes nothing here.      *)
CloseTab ==
  /\ Acts
  /\ active # NoFile
  /\ \E next \in (Visible \ {active}) \cup {NoFile} :
       /\ active' = next
       /\ IF ~panel.open THEN UNCHANGED panelVars
          ELSE IF next = NoFile THEN ResetPanel ELSE LoadHistory(next)
  /\ UNCHANGED <<streamVars, current, loads, lists, shown, live, pending,
                 edits>>

ToggleRevisionHistory ==
  /\ Acts
  /\ \/ /\ panel.open
        /\ panel' = [panel EXCEPT !.open = FALSE]
        /\ UNCHANGED fetches
     \/ ~panel.open /\ active # NoFile /\ LoadHistory(active)
  /\ UNCHANGED <<streamVars, current, loads, lists, shown, live, active,
                 pending, edits>>

AnswerFetch(get) ==
  /\ ~get.answered
  /\ fetches' = (fetches \ {get}) \cup
       {[get EXCEPT !.answered = TRUE,
                      !.answer = RevisionsOf(get.session, get.file)]}
  /\ UNCHANGED <<streamVars, current, loads, lists, shown, live, active,
                 pending, panel, edits, acted>>

CurrentFetch(get) == /\ get.generation = panel.generation /\ panel.open
                     /\ current = get.session /\ active = get.file

ReceiveFetch(get) ==
  /\ fetches' = fetches \ {get}
  /\ panel' = [panel EXCEPT
       !.revisions = IF get.answered
                     THEN IF CurrentFetch(get) THEN get.answer ELSE @
                     ELSE IF get.generation = panel.generation THEN {} ELSE @,
       !.loading = IF get.generation = panel.generation THEN FALSE ELSE @]
  /\ UNCHANGED <<streamVars, current, loads, lists, shown, live, active,
                 pending, edits, acted>>

(* editContent changes the shown revision in place and schedules a save.   *)
EditContent(file, content) ==
  /\ Acts
  /\ shown[file] # NotShown
  /\ shown' = [shown EXCEPT ![file].content = content]
  /\ pending' = [pending EXCEPT ![file] = [id |-> shown[file].id,
                                           content |-> content]]
  /\ UNCHANGED <<streamVars, current, loads, lists, live, active, panelVars,
                 edits>>

(* The timer, or saveContent: emitSave drops text typed into a revision    *)
(* that is no longer the one shown.                                        *)
EmitSave(file) ==
  /\ pending[file] # NotPending
  /\ pending' = [pending EXCEPT ![file] = NotPending]
  /\ edits' = IF shown[file].id = pending[file].id
              THEN Append(edits, pending[file]) ELSE edits
  /\ UNCHANGED <<streamVars, current, loads, lists, shown, live, active,
                 panelVars, acted>>

(* onArtifactEdit: a further revision of the file of the edited one, or an *)
(* exception.                                                              *)
ApplyEdit ==
  LET edit == Head(edits)
      base == log[edit.id]
  IN /\ edits # <<>>
     /\ edits' = Tail(edits)
     /\ \/ /\ log' = Append(log, Revision(base.session, base.file,
                                          edit.content, "user", FALSE))
           /\ Tell(base.session, [type |-> "created", id |-> Len(log) + 1])
        \/ UNCHANGED <<log, netVars>>
     /\ UNCHANGED <<scene, received, parserVars, todo, phase, failed, torn,
                    artifact, temps, storeVars, acted>>

(* The handlers of the four events, applied to the shown files and to the  *)
(* open history.                                                           *)
Upsert(id) ==
  LET file == log[id].file IN
  /\ shown' = [shown EXCEPT ![file] = [id |-> id,
                                       content |-> log[id].content]]
  /\ panel' = IF panel.file = file
              THEN [panel EXCEPT !.revisions = @ \cup {id}] ELSE panel

Started(event) ==
  /\ event.type = "start"
  /\ IF event.session = current
     THEN /\ live' = live \cup {[temp |-> event.temp, file |-> event.file,
                                 session |-> event.session,
                                 content |-> <<>>]}
          /\ active' = event.file
     ELSE UNCHANGED <<live, active>>
  /\ UNCHANGED <<shown, panel>>

Extended(event) ==
  /\ event.type = "chunk"
  /\ live' = {IF s.temp = event.temp
              THEN [s EXCEPT !.content = @ \o event.delta] ELSE s : s \in live}
  /\ UNCHANGED <<active, shown, panel>>

Finished(event) ==
  /\ event.type = "end"
  /\ IF \E s \in live : s.temp = event.temp /\ s.session = current
     THEN Upsert(event.id) ELSE UNCHANGED <<shown, panel>>
  /\ live' = {s \in live : s.temp # event.temp}
  /\ UNCHANGED active

CreatedElsewhere(event) ==
  /\ event.type = "created"
  /\ IF log[event.id].session = current
     THEN Upsert(event.id) ELSE UNCHANGED <<shown, panel>>
  /\ UNCHANGED <<live, active>>

ReceiveEvent ==
  /\ wire # <<>>
  /\ LET event == Head(wire) IN \/ Started(event) \/ Extended(event)
                                \/ Finished(event) \/ CreatedElsewhere(event)
  /\ wire' = Tail(wire)
  /\ UNCHANGED <<scene, received, parserVars, todo, phase, failed, torn,
                 artifact, temps, log, rooms, missed, current, loads, lists,
                 pending, fetches, edits, acted>>

UserStep == \/ \E session \in Sessions : LoadSession(session)
            \/ \E file \in Files : \/ SelectTab(file) \/ EmitSave(file)
                                   \/ \E text \in Typed :
                                        EditContent(file, <<text>>)
            \/ CloseTab \/ ToggleRevisionHistory

NetworkStep == \/ \E get \in lists : AnswerList(get) \/ ReceiveList(get)
               \/ \E get \in fetches : AnswerFetch(get) \/ ReceiveFetch(get)
               \/ ApplyEdit \/ Disconnect

EditorNext == \/ StreamStep /\ UNCHANGED editorVars
              \/ UserStep \/ NetworkStep \/ ReceiveEvent

EditorSpec == EditorInit /\ [][EditorNext]_<<streamVars, editorVars>>

(* The provider's timers end the stream, its handler is not interrupted,   *)
(* and the socket delivers what was sent unless its connection breaks.     *)
FairEditorSpec ==
  /\ EditorSpec
  /\ WF_<<streamVars, editorVars>>(Finishing /\ UNCHANGED editorVars)
  /\ WF_<<streamVars, editorVars>>(ReceiveEvent)

(* Whatever arrives late, from another session or for another file: the    *)
(* editor shows, saves and lists files of the session the user is in, and  *)
(* the history panel only revisions of its own file (the generations of    *)
(* loadSession and loadRevisionHistory, the session tests of the events).  *)
OneSessionShown ==
  /\ \A f \in Files :
       /\ shown[f] # NotShown => shown[f].id \in RevisionsOf(current, f)
       /\ pending[f] # NotPending => pending[f].id \in RevisionsOf(current, f)
  /\ \A s \in live : s.session = current
  /\ panel.revisions \subseteq RevisionsOf(current, panel.file)

(* A file that is being written in the editor is finished there, or gone,  *)
(* once its reply has ended without a failure: the flush ends a block that *)
(* the reply left open (ArtifactStreamParser.flush, handleSegments), and   *)
(* nothing that the user does in between leaves it behind.  Excepted is a  *)
(* file whose end was announced while the tab was not in the room, or was  *)
(* on the wire when the connection broke.                                  *)
StreamingFilesSettle ==
  [](phase = "ended" /\ ~failed => <>(\A s \in live : s.temp \in missed))
=============================================================================
