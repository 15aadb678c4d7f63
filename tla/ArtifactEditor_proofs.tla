------------------------ MODULE ArtifactEditor_proofs ------------------------
(***************************************************************************)
(* Proofs about the artifact editor and the parser behind it, for any      *)
(* number of sessions, files, loads and edits and for replies of any       *)
(* length.                                                                 *)
(*                                                                         *)
(* The editor never mixes sessions or files.  Its guards (generations,     *)
(* session tests) only work together with facts about what is under way:   *)
(* answers name revisions of the session they were asked for, the reply's  *)
(* events revisions of the reply's session.                                *)
(*                                                                         *)
(* What is saved is one block of the reply.  A place in the text is the    *)
(* number of units handled so far and the first unit of the open block;    *)
(* each segment moves from one place to the next, and the segments that    *)
(* are still to be handled lead to where the parser is.                    *)
(***************************************************************************)
EXTENDS ArtifactEditor, SequenceTheorems, WellFoundedInduction, TLAPS

(* A sequence of whatever its elements are.                                *)
OwnSeq(s) == s \in Seq({s[n] : n \in DOMAIN s})

LogOK == OwnSeq(log)

(* Revisions are added and never changed.                                  *)
LogGrows == \A id \in Ids : id \in Ids' /\ log'[id] = log[id]

(* What an event on its way refers to.                                     *)
EventOK(event) ==
  /\ event.type = "start" => event.session = Home
  /\ event.type = "end" => event.id \in Ids /\ log[event.id].session = Home
  /\ event.type = "created" => event.id \in Ids

WireOK == /\ OwnSeq(wire)
          /\ \A n \in DOMAIN wire : EventOK(wire[n])

(* What an answer to the editor may name.                                  *)
ListOK(get) == get.answer \subseteq {id \in Ids : log[id].session = get.session}
FetchOK(get) ==
  /\ get.answer \subseteq RevisionsOf(get.session, get.file)
  /\ get.generation \in Nat /\ get.generation <= panel.generation
  /\ get.generation = panel.generation /\ panel.open => get.file = panel.file

LiveFields  == {"temp", "file", "session", "content"}
PanelFields == {"open", "file", "revisions", "loading", "generation"}
LiveOK(s) == s.session = Home /\ s = [x \in LiveFields |-> s[x]]
IsPanel(c) == c = [x \in PanelFields |-> c[x]]
PanelOK   == /\ IsPanel(panel)
             /\ panel.generation \in Nat

GetFields == {"generation", "session", "answered", "answer"}
IsList(get)  == get = [x \in GetFields |-> get[x]]
IsFetch(get) == get = [x \in GetFields \cup {"file"} |-> get[x]]

RecordsOK == /\ shown = [f \in Files |-> shown[f]]
             /\ pending = [f \in Files |-> pending[f]]
             /\ \A f \in Files : shown[f] = [x \in {"id", "content"} |-> shown[f][x]]
             /\ \A s \in live : LiveOK(s)
             /\ PanelOK
             /\ \A get \in lists : IsList(get)
             /\ \A get \in fetches : IsFetch(get)

EditorInvariant == /\ LogOK /\ WireOK /\ RecordsOK
                   /\ \A get \in lists : ListOK(get)
                   /\ \A get \in fetches : FetchOK(get)
                   /\ OneSessionShown
-----------------------------------------------------------------------------
(* A bounded set of numbers has a largest one, a set of revisions a newest.*)
LEMMA MaxIs ==
  ASSUME NEW n \in Nat, NEW S, S \subseteq 0 .. n, S # {}
  PROVE  Max(S) \in S /\ \A y \in S : Max(S) >= y
<1> DEFINE R == {p \in Nat \X Nat : p[1] < p[2]}
           T == {m \in Nat : \E x \in S : x + m = n}
<1>1. IsWellFoundedOn(R, Nat)
  BY NatLessThanWellFounded DEF R, OpToRel
<1>2. \A y \in S : \E m \in Nat : y + m = n
  <2> SUFFICES ASSUME NEW y \in S
               PROVE  \E m \in Nat : y + m = n
    OBVIOUS
  <2>1. y \in Nat /\ y <= n
    OBVIOUS
  <2> QED BY <2>1
<1>3. PICK t \in T : \A m \in T : ~(<<m, t>> \in R)
  <2>1. T \subseteq Nat /\ T # {}
    BY <1>2
  <2> HIDE DEF T, R
  <2> QED BY <1>1, <2>1, WFMin
<1>4. PICK x \in S : x + t = n
  OBVIOUS
<1>5. \A y \in S : x >= y
  <2> SUFFICES ASSUME NEW y \in S
               PROVE  x >= y
    OBVIOUS
  <2>1. PICK m \in T : y + m = n
    BY <1>2
  <2>2. m \in Nat /\ t \in Nat /\ x \in Nat /\ y \in Nat
    OBVIOUS
  <2>3. ~(<<m, t>> \in R)
    BY <1>3
  <2>4. ~(m < t)
    BY <2>2, <2>3
  <2> HIDE DEF R, T
  <2> QED BY <1>4, <2>1, <2>2, <2>4
<1>6. \E z \in S : \A y \in S : z >= y
  BY <1>5
<1> HIDE DEF R, T
<1> QED BY <1>6 DEF Max

LEMMA MaxIsIn ==
  ASSUME NEW n \in Nat, NEW S, S \subseteq 1 .. n, S # {}
  PROVE  Max(S) \in S
<1>1. S \subseteq 0 .. n
  OBVIOUS
<1> QED BY <1>1, MaxIs

(* A sequence is one of whatever its elements are.                         *)
LEMMA ElementsOf ==
  ASSUME NEW S, NEW s \in Seq(S), NEW R, \A n \in DOMAIN s : s[n] \in R
  PROVE  s \in Seq(R)
<1>1. Len(s) \in Nat /\ DOMAIN s = 1 .. Len(s) /\ s \in [1 .. Len(s) -> S]
  OBVIOUS
<1>2. s \in [1 .. Len(s) -> R]
  BY <1>1
<1> QED BY <1>1, <1>2

LEMMA OwnElements ==
  ASSUME NEW S, NEW s \in Seq(S)
  PROVE  OwnSeq(s)
<1> DEFINE R == {s[n] : n \in DOMAIN s}
<1>1. \A n \in DOMAIN s : s[n] \in R
  OBVIOUS
<1> HIDE DEF R
<1>2. s \in Seq(R)
  BY <1>1, ElementsOf
<1> QED BY <1>2 DEF R, OwnSeq

(* What Append and Tail do to a sequence of its own elements.              *)
LongerBy(s, x, t) == /\ Len(s) + 1 \in DOMAIN t /\ t[Len(s) + 1] = x
                     /\ DOMAIN t = DOMAIN s \cup {Len(s) + 1}
                     /\ \A n \in DOMAIN s : t[n] = s[n]

LEMMA Appended ==
  ASSUME NEW s, OwnSeq(s), NEW x, NEW t,
         t = Append(s, x)
  PROVE  OwnSeq(t) /\ LongerBy(s, x, t)
<1> DEFINE S == {s[n] : n \in DOMAIN s} \cup {x}
<1>1. s \in Seq(S) /\ x \in S
  BY DEF OwnSeq
<1> HIDE DEF S
<1>2. /\ t \in Seq(S) /\ Len(s) \in Nat
      /\ DOMAIN t = 1 .. Len(s) + 1 /\ DOMAIN s = 1 .. Len(s)
      /\ \A n \in DOMAIN s : t[n] = s[n]
      /\ t[Len(s) + 1] = x
  BY <1>1, AppendProperties
<1>3. OwnSeq(t)
  BY <1>2, OwnElements
<1> QED BY <1>2, <1>3 DEF LongerBy

LEMMA Shortened ==
  ASSUME NEW s, OwnSeq(s), s # <<>>, NEW t, t = Tail(s)
  PROVE  /\ OwnSeq(t)
         /\ Head(s) = s[1] /\ 1 \in DOMAIN s
         /\ \A n \in DOMAIN t : n + 1 \in DOMAIN s /\ t[n] = s[n + 1]
<1> DEFINE S == {s[n] : n \in DOMAIN s}
<1> HIDE DEF S
<1>1. s \in Seq(S)
  BY DEF S, OwnSeq
<1>2. /\ t \in Seq(S) /\ Len(t) = Len(s) - 1 /\ Len(s) \in Nat \ {0}
      /\ DOMAIN t = 1 .. Len(s) - 1 /\ DOMAIN s = 1 .. Len(s)
      /\ Head(s) = s[1] /\ \A n \in 1 .. Len(s) - 1 : t[n] = s[n + 1]
  BY <1>1
<1>3. OwnSeq(t)
  BY <1>2, OwnElements
<1>4. DOMAIN t = 1 .. Len(t)
  BY <1>2
<1>5. \A n \in DOMAIN t : n + 1 \in DOMAIN s /\ t[n] = s[n + 1]
  BY <1>2, <1>4
<1>6. 1 \in DOMAIN s
  BY <1>2
<1>7. Head(s) = s[1]
  BY <1>2
<1> QED BY <1>3, <1>5, <1>6, <1>7, Zenon
-----------------------------------------------------------------------------
(* The log and the wire.                                                   *)
LEMMA LogStays ==
  ASSUME log' = log
  PROVE  LogGrows
BY DEF LogGrows, Ids

LEMMA RevisionIsAdded ==
  ASSUME LogOK, NEW revision, log' = Append(log, revision)
  PROVE  /\ LogOK' /\ LogGrows
         /\ Len(log) + 1 \in Ids' /\ log'[Len(log) + 1] = revision
<1>1. PICK t : t = log'
  OBVIOUS
<1>2. /\ OwnSeq(t)
      /\ Len(log) + 1 \in DOMAIN t /\ t[Len(log) + 1] = revision
      /\ DOMAIN t = DOMAIN log \cup {Len(log) + 1}
      /\ \A n \in DOMAIN log : t[n] = log[n]
  <2>1. OwnSeq(log) /\ t = Append(log, revision)
    BY <1>1 DEF LogOK
  <2>2. OwnSeq(t) /\ LongerBy(log, revision, t)
    BY <2>1, Appended, Zenon
  <2> QED BY <2>2 DEF LongerBy
<1> QED BY <1>1, <1>2 DEF LogOK, LogGrows, Ids

LEMMA RevisionsGrow ==
  ASSUME LogGrows
  PROVE  \A session, file : RevisionsOf(session, file)
                              \subseteq RevisionsOf(session, file)'
BY DEF LogGrows, RevisionsOf

LEMMA EventsRely ==
  ASSUME LogGrows, WireOK, wire' = wire
  PROVE  WireOK'
BY DEF LogGrows, WireOK, EventOK

LEMMA EventIsAdded ==
  ASSUME LogGrows, WireOK, NEW event, EventOK(event)',
         wire' = Append(wire, event)
  PROVE  WireOK'
<1>1. PICK t : t = wire'
  OBVIOUS
<1>2. /\ OwnSeq(t)
      /\ t[Len(wire) + 1] = event
      /\ DOMAIN t = DOMAIN wire \cup {Len(wire) + 1}
      /\ \A n \in DOMAIN wire : t[n] = wire[n]
  <2>1. OwnSeq(wire) /\ t = Append(wire, event)
    BY <1>1 DEF WireOK
  <2>2. OwnSeq(t) /\ LongerBy(wire, event, t)
    BY <2>1, Appended, Zenon
  <2> QED BY <2>2 DEF LongerBy
<1>3. \A n \in DOMAIN wire : EventOK(wire[n]) /\ EventOK(t[n])'
  BY <1>2 DEF WireOK, EventOK, LogGrows
<1> QED BY <1>1, <1>2, <1>3 DEF WireOK

LEMMA EventIsTaken ==
  ASSUME log' = log, WireOK, wire # <<>>, wire' = Tail(wire)
  PROVE  EventOK(Head(wire)) /\ WireOK'
<1>1. PICK t : t = wire'
  OBVIOUS
<1>2. /\ OwnSeq(t)
      /\ Head(wire) = wire[1] /\ 1 \in DOMAIN wire
      /\ \A n \in DOMAIN t : n + 1 \in DOMAIN wire /\ t[n] = wire[n + 1]
  BY <1>1, Shortened DEF WireOK
<1>3. EventOK(Head(wire))
  BY <1>2 DEF WireOK
<1>4. \A n \in DOMAIN t : EventOK(wire[n + 1])
  BY <1>2 DEF WireOK
<1>5. \A n \in DOMAIN t : EventOK(t[n])'
  BY <1>2, <1>4 DEF EventOK, Ids
<1> QED BY <1>1, <1>2, <1>3, <1>5 DEF WireOK

(* The step of a reply.                                                    *)
LEMMA Told ==
  ASSUME LogGrows, WireOK, NEW room, NEW event, EventOK(event)', Tell(room, event)
  PROVE  WireOK'
BY EventIsAdded, EventsRely DEF Tell

LEMMA StreamStepKeeps ==
  ASSUME LogOK, WireOK, StreamStep
  PROVE  LogOK' /\ LogGrows /\ WireOK'
<1>1. CASE HandleStart
  <2>1. PICK event : /\ Tell(Home, event) /\ log' = log
                     /\ event.type = "start" /\ event.session = Home
    BY <1>1 DEF HandleStart
  <2>2. EventOK(event)'
    BY <2>1 DEF EventOK
  <2> QED BY <2>1, <2>2, LogStays, Told DEF LogOK
<1>2. CASE HandleChunk
  <2>1. PICK event : /\ Tell(Home, event) /\ log' = log
                     /\ event.type = "chunk"
    BY <1>2 DEF HandleChunk
  <2>2. EventOK(event)'
    BY <2>1 DEF EventOK
  <2> QED BY <2>1, <2>2, LogStays, Told DEF LogOK
<1>3. CASE HandleEnd
  <2>1. PICK revision, event :
          /\ log' = Append(log, revision) /\ revision.session = Home
          /\ Tell(Home, event)
          /\ event.type = "end" /\ event.id = Len(log) + 1
    BY <1>3 DEF HandleEnd, Revision
  <2>2. /\ LogOK' /\ LogGrows
        /\ Len(log) + 1 \in Ids' /\ log'[Len(log) + 1] = revision
    BY <2>1, RevisionIsAdded
  <2>3. EventOK(event)'
    BY <2>1, <2>2 DEF EventOK
  <2> QED BY <2>1, <2>2, <2>3, Told
<1>4. CASE ~(HandleStart \/ HandleChunk \/ HandleEnd)
  <2>1. log' = log /\ wire' = wire
    BY <1>4 DEF StreamStep, Finishing, Push, StreamEnds, Handle, Ended,
                HandleProse, RefuseName, Overrun, SkipOrphan, SaveFails, Throw,
                netVars
  <2> QED BY <2>1, LogStays, EventsRely DEF LogOK
<1> QED BY <1>1, <1>2, <1>3, <1>4

(* Whatever the store shows stays right when revisions are added.          *)
LEMMA StoreRely ==
  ASSUME EditorInvariant, LogGrows, UNCHANGED storeVars
  PROVE  /\ RecordsOK' /\ OneSessionShown'
         /\ \A get \in lists' : ListOK(get)'
         /\ \A get \in fetches' : FetchOK(get)'
<1> USE DEF storeVars, panelVars
<1>1. RecordsOK'
  BY DEF EditorInvariant, RecordsOK, LiveOK, PanelOK
<1>2. \A get \in lists' : ListOK(get)'
  BY DEF EditorInvariant, ListOK, LogGrows
<1>3. \A get \in fetches' : FetchOK(get)'
  BY RevisionsGrow DEF EditorInvariant, FetchOK
<1>4. OneSessionShown'
  <2>1. \A f \in Files :
          /\ RevisionsOf(current, f) \subseteq RevisionsOf(current, f)'
          /\ RevisionsOf(current, panel.file)
                \subseteq RevisionsOf(current, panel.file)'
    BY DEF LogGrows, RevisionsOf
  <2> QED BY <2>1, RevisionsGrow DEF EditorInvariant, OneSessionShown, LogGrows,
                                     RevisionsOf
<1> QED BY <1>1, <1>2, <1>3, <1>4
-----------------------------------------------------------------------------
(* The parts of the invariant that a step of the editor must keep.         *)
StoreOK == /\ RecordsOK /\ OneSessionShown
           /\ \A get \in lists : ListOK(get)
           /\ \A get \in fetches : FetchOK(get)

LEMMA PanelRecord ==
  ASSUME NEW open, NEW file, NEW revisions, NEW loading, NEW generation, NEW c,
         c = [open |-> open, file |-> file, revisions |-> revisions,
              loading |-> loading, generation |-> generation]
  PROVE  /\ IsPanel(c)
         /\ c.open = open /\ c.file = file /\ c.revisions = revisions
         /\ c.generation = generation
BY DEF IsPanel, PanelFields

(* A session is opened.                                                    *)
LEMMA LoadSessionKeeps ==
  ASSUME EditorInvariant, NEW session, LoadSession(session)
  PROVE  StoreOK'
<1> USE DEF EditorInvariant, RecordsOK, PanelOK
<1>1. /\ log' = log /\ live' = {} /\ fetches' = fetches
      /\ shown' = [f \in Files |-> NotShown]
      /\ pending' = [f \in Files |-> NotPending]
      /\ panel' = Closed(panel.generation + 1)
  BY DEF LoadSession, ResetPanel, streamVars
<1>2. PICK new : /\ lists' = lists \cup {new}
                 /\ new = [generation |-> loads + 1, session |-> session,
                           answered |-> FALSE, answer |-> {}]
  BY DEF LoadSession
<1>3. RecordsOK'
  <2>1. /\ shown' = [f \in Files |-> shown'[f]]
        /\ pending' = [f \in Files |-> pending'[f]]
        /\ \A f \in Files : shown'[f] = NotShown
    BY <1>1
  <2>2. NotShown = [x \in {"id", "content"} |-> NotShown[x]]
    BY DEF NotShown
  <2>3. PanelOK'
    <3>1. PICK c, generation : c = panel' /\ generation = panel.generation + 1
      OBVIOUS
    <3>2. c = [open |-> FALSE, file |-> NoFile, revisions |-> {},
               loading |-> FALSE, generation |-> generation]
      BY <1>1, <3>1 DEF Closed
    <3>3. generation \in Nat
      BY <3>1
    <3> QED BY <3>1, <3>2, <3>3, PanelRecord
  <2>4. IsList(new)
    BY <1>2 DEF IsList, GetFields
  <2>5. /\ \A get \in lists' : IsList(get)
        /\ \A get \in fetches' : IsFetch(get)
    BY <1>1, <1>2, <2>4
  <2> QED BY <1>1, <2>1, <2>2, <2>3, <2>5
<1>4. \A get \in lists' : ListOK(get)'
  BY <1>1, <1>2 DEF ListOK, Ids
<1>5. \A get \in fetches' : FetchOK(get)'
  BY <1>1 DEF FetchOK, RevisionsOf, Closed, Ids
<1>6. OneSessionShown'
  BY <1>1 DEF OneSessionShown, Closed, NotPending
<1> QED BY <1>3, <1>4, <1>5, <1>6 DEF StoreOK

LEMMA AnswerListKeeps ==
  ASSUME EditorInvariant, NEW get \in lists, AnswerList(get) \/ ReceiveList(get),
         LogOK
  PROVE  StoreOK'
<1> USE DEF EditorInvariant, RecordsOK, PanelOK
<1>1. /\ log' = log /\ current' = current
      /\ UNCHANGED <<live, pending, panel, fetches>>
  BY DEF AnswerList, ReceiveList, streamVars, panelVars
<1>2. \A f \in fetches' : FetchOK(f)'
  BY <1>1 DEF FetchOK, RevisionsOf, Ids
<1>3. CASE AnswerList(get)
  <2>1. shown' = shown
    BY <1>3 DEF AnswerList
  <2>2. PICK new : /\ lists' = (lists \ {get}) \cup {new}
                   /\ new = [get EXCEPT !.answered = TRUE,
                                        !.answer = LatestOf(get.session)]
    BY <1>3 DEF AnswerList
  <2>3. IsList(new) /\ new.answer = LatestOf(get.session)
        /\ new.session = get.session
    BY <2>2 DEF IsList, GetFields
  <2>4. LatestOf(get.session) \subseteq {id \in Ids : log[id].session = get.session}
    <3>1. ASSUME NEW f, RevisionsOf(get.session, f) # {}
          PROVE  Max(RevisionsOf(get.session, f)) \in RevisionsOf(get.session, f)
      <4>1. Len(log) \in Nat /\ Ids = 1 .. Len(log)
        BY DEF LogOK, Ids
      <4>2. RevisionsOf(get.session, f) \subseteq 1 .. Len(log)
        BY <4>1 DEF RevisionsOf
      <4> QED BY <3>1, <4>1, <4>2, MaxIsIn
    <3>2. ASSUME NEW id \in LatestOf(get.session)
          PROVE  id \in Ids /\ log[id].session = get.session
      <4>1. PICK f \in Files : /\ RevisionsOf(get.session, f) # {}
                               /\ id = Max(RevisionsOf(get.session, f))
        BY <3>2 DEF LatestOf
      <4> QED BY <3>1, <4>1 DEF RevisionsOf
    <3> QED BY <3>2
  <2>5. ListOK(new)
    BY <2>3, <2>4 DEF ListOK
  <2>6. \A l \in lists' : ListOK(l)' /\ IsList(l)
    BY <1>1, <2>2, <2>3, <2>5 DEF ListOK, Ids
  <2>7. RecordsOK' /\ OneSessionShown'
    BY <1>1, <2>1, <2>6 DEF OneSessionShown, RevisionsOf, Ids, LiveOK
  <2> QED BY <1>2, <2>6, <2>7 DEF StoreOK
<1>4. CASE ReceiveList(get)
  <2>1. lists' = lists \ {get}
    BY <1>4 DEF ReceiveList
  <2>2. \A l \in lists' : ListOK(l)'
    BY <1>1, <2>1 DEF ListOK, Ids
  <2>3. CASE shown' = shown
    BY <1>1, <1>2, <2>1, <2>2, <2>3
       DEF StoreOK, OneSessionShown, RevisionsOf, Ids, LiveOK
  <2>4. CASE shown' # shown
    <3> DEFINE newest(f) == {id \in get.answer : log[id].file = f}
    <3>1. /\ get.session = current
          /\ shown' = [f \in Files |->
                IF newest(f) = {} THEN NotShown
                ELSE [id |-> Max(newest(f)), content |-> log[Max(newest(f))].content]]
      BY <1>4, <2>4 DEF ReceiveList, CurrentList
    <3>2. ASSUME NEW f \in Files, newest(f) # {}
          PROVE  Max(newest(f)) \in RevisionsOf(current, f)
      <4>1. Len(log) \in Nat /\ Ids = 1 .. Len(log)
        BY DEF LogOK, Ids
      <4>2. newest(f) \subseteq RevisionsOf(current, f)
        BY <3>1 DEF ListOK, RevisionsOf
      <4>3. newest(f) \subseteq 1 .. Len(log)
        BY <4>1, <4>2 DEF RevisionsOf
      <4> HIDE DEF newest
      <4>4. Max(newest(f)) \in newest(f)
        BY <3>2, <4>1, <4>3, MaxIsIn
      <4> QED BY <4>2, <4>4
    <3>3. ASSUME NEW f \in Files
          PROVE  /\ shown'[f] = [x \in {"id", "content"} |-> shown'[f][x]]
                 /\ shown'[f] # NotShown => shown'[f].id \in RevisionsOf(current, f)
      <4> HIDE DEF newest
      <4>1. CASE newest(f) = {}
        BY <3>1, <4>1 DEF NotShown
      <4>2. CASE newest(f) # {}
        BY <3>1, <3>2, <4>2
      <4> QED BY <4>1, <4>2
    <3>4. shown' = [f \in Files |-> shown'[f]]
      BY <3>1
    <3>5. RecordsOK'
      BY <1>1, <2>1, <3>3, <3>4 DEF LiveOK
    <3>6. OneSessionShown'
      BY <1>1, <3>3 DEF OneSessionShown, RevisionsOf, Ids
    <3> QED BY <1>2, <2>2, <3>5, <3>6 DEF StoreOK
  <2> QED BY <2>3, <2>4
<1> QED BY <1>3, <1>4

(* The panel changes, by a new history, by closing it or by an answer.     *)
LEMMA PanelKeeps ==
  ASSUME EditorInvariant, log' = log, NEW c, c = panel',
         UNCHANGED <<current, shown, live, pending, lists>>,
         IsPanel(c), c.generation \in Nat,
         c.revisions \subseteq RevisionsOf(current, c.file),
         \A get \in fetches' : IsFetch(get) /\ FetchOK(get)'
  PROVE  StoreOK'
<1> USE DEF EditorInvariant
<1>1. RecordsOK'
  BY DEF RecordsOK, LiveOK, PanelOK
<1>2. OneSessionShown'
  BY DEF OneSessionShown, RevisionsOf, Ids
<1>3. \A get \in lists' : ListOK(get)'
  BY DEF ListOK, Ids
<1> QED BY <1>1, <1>2, <1>3 DEF StoreOK

LEMMA HistoryKeeps ==
  ASSUME EditorInvariant, NEW file, LoadHistory(file), log' = log,
         UNCHANGED <<current, shown, live, pending, lists>>
  PROVE  StoreOK'
<1>1. PICK c : /\ c = panel'
               /\ c = [open |-> TRUE, file |-> file, revisions |-> {},
                       loading |-> TRUE, generation |-> panel.generation + 1]
  BY DEF LoadHistory
<1>2. PICK new : /\ fetches' = fetches \cup {new}
                 /\ new = [generation |-> panel.generation + 1,
                           session |-> current, file |-> file,
                           answered |-> FALSE, answer |-> {}]
  BY DEF LoadHistory
<1>3. panel.generation \in Nat
  BY DEF EditorInvariant, RecordsOK, PanelOK
<1>4. IsPanel(c) /\ c.generation \in Nat /\ c.revisions = {}
  <2>1. PICK generation \in Nat : generation = panel.generation + 1
    BY <1>3
  <2>2. c = [open |-> TRUE, file |-> file, revisions |-> {}, loading |-> TRUE,
             generation |-> generation]
    BY <1>1, <2>1
  <2>3. IsPanel(c)
    <3>1. \A open, f, revisions, loading, g :
            c = [open |-> open, file |-> f, revisions |-> revisions,
                 loading |-> loading, generation |-> g] => IsPanel(c)
      BY DEF IsPanel, PanelFields
    <3> QED BY <2>2, <3>1, Zenon
  <2>4. c.generation = generation /\ c.revisions = {}
    BY <2>2
  <2> QED BY <2>1, <2>3, <2>4
<1>5. IsFetch(new)
  BY <1>2 DEF IsFetch, GetFields
<1>6. FetchOK(new)'
  BY <1>1, <1>2, <1>3 DEF FetchOK
<1>7. \A get \in fetches : IsFetch(get) /\ FetchOK(get)'
  BY <1>1, <1>3 DEF EditorInvariant, RecordsOK, FetchOK, RevisionsOf, Ids
<1> QED BY <1>1, <1>2, <1>4, <1>5, <1>6, <1>7, PanelKeeps

(* Closing the panel, with or without a new generation.                    *)
LEMMA ClosingKeeps ==
  ASSUME EditorInvariant, log' = log,
         UNCHANGED <<current, shown, live, pending, lists>>, fetches' = fetches,
         ResetPanel \/ panel' = panel \/ panel' = [panel EXCEPT !.open = FALSE]
  PROVE  StoreOK'
<1>1. /\ IsPanel(panel) /\ panel.generation \in Nat
      /\ panel.revisions \subseteq RevisionsOf(current, panel.file)
  BY DEF EditorInvariant, RecordsOK, PanelOK, OneSessionShown
<1>2. PICK c : c = panel'
  OBVIOUS
<1>3. /\ IsPanel(c) /\ c.generation \in Nat
      /\ c.generation = panel.generation /\ c.open
           => panel.open /\ c.file = panel.file
      /\ c.generation >= panel.generation
      /\ \/ c.revisions = {}
         \/ c.revisions = panel.revisions /\ c.file = panel.file
  BY <1>1, <1>2 DEF ResetPanel, Closed, IsPanel, PanelFields
<1>4. ASSUME NEW get \in fetches'
      PROVE  IsFetch(get) /\ FetchOK(get)'
  <2>1. IsFetch(get) /\ FetchOK(get)
    BY DEF EditorInvariant, RecordsOK
  <2> QED BY <1>1, <1>2, <1>3, <2>1 DEF FetchOK, RevisionsOf, Ids
<1> QED BY <1>1, <1>2, <1>3, <1>4, PanelKeeps

LEMMA FetchKeeps ==
  ASSUME EditorInvariant, NEW get \in fetches, AnswerFetch(get) \/ ReceiveFetch(get)
  PROVE  StoreOK'
<1>1. /\ log' = log /\ UNCHANGED <<current, shown, live, pending, lists>>
  BY DEF AnswerFetch, ReceiveFetch, streamVars
<1>2. /\ IsPanel(panel) /\ panel.generation \in Nat
      /\ panel.revisions \subseteq RevisionsOf(current, panel.file)
      /\ IsFetch(get) /\ FetchOK(get)
  BY DEF EditorInvariant, RecordsOK, PanelOK, OneSessionShown
<1>3. CASE AnswerFetch(get)
  <2>1. PICK new : /\ fetches' = (fetches \ {get}) \cup {new}
                   /\ new = [get EXCEPT !.answered = TRUE,
                                !.answer = RevisionsOf(get.session, get.file)]
    BY <1>3 DEF AnswerFetch
  <2>2. PICK c : c = panel' /\ c = panel
    BY <1>3 DEF AnswerFetch
  <2>3. /\ IsFetch(new) /\ new.answer = RevisionsOf(new.session, new.file)
        /\ new.generation = get.generation /\ new.file = get.file
    BY <1>2, <2>1 DEF IsFetch, GetFields
  <2>4. FetchOK(new)'
    BY <1>1, <1>2, <2>2, <2>3 DEF FetchOK, RevisionsOf, Ids
  <2>5. \A f \in fetches : IsFetch(f) /\ FetchOK(f)'
    BY <1>1, <2>2 DEF EditorInvariant, RecordsOK, FetchOK, RevisionsOf, Ids
  <2> QED BY <1>1, <1>2, <2>1, <2>2, <2>3, <2>4, <2>5, PanelKeeps
<1>4. CASE ReceiveFetch(get)
  <2>1. PICK c, revisions, loading :
          /\ c = panel'
          /\ c = [panel EXCEPT !.revisions = revisions, !.loading = loading]
          /\ \/ revisions = {} \/ revisions = panel.revisions
             \/ revisions = get.answer /\ CurrentFetch(get)
    BY <1>4 DEF ReceiveFetch
  <2>2. /\ IsPanel(c)
        /\ c.generation = panel.generation /\ c.file = panel.file
        /\ c.open = panel.open /\ c.revisions = revisions
    BY <1>2, <2>1 DEF IsPanel, PanelFields
  <2>3. revisions \subseteq RevisionsOf(current, panel.file)
    BY <1>2, <2>1 DEF CurrentFetch, FetchOK
  <2>4. \A f \in fetches' : f \in fetches
    BY <1>4 DEF ReceiveFetch
  <2>5. \A f \in fetches' : IsFetch(f) /\ FetchOK(f)'
    BY <1>1, <2>1, <2>2, <2>4
       DEF EditorInvariant, RecordsOK, FetchOK, RevisionsOf, Ids
  <2> QED BY <1>1, <1>2, <2>1, <2>2, <2>3, <2>5, PanelKeeps
<1> QED BY <1>3, <1>4

(* The user types, and the timer fires.                                    *)
LEMMA EditKeeps ==
  ASSUME EditorInvariant, NEW file \in Files,
         EmitSave(file) \/ \E text \in Typed : EditContent(file, <<text>>)
  PROVE  StoreOK'
<1> USE DEF EditorInvariant, RecordsOK
<1>1. /\ log' = log /\ current' = current
      /\ UNCHANGED <<live, panel, lists, fetches>>
  BY DEF EmitSave, EditContent, streamVars, panelVars
<1>2. /\ \A get \in lists' : ListOK(get)'
      /\ \A get \in fetches' : FetchOK(get)'
  BY <1>1 DEF ListOK, FetchOK, RevisionsOf, Ids
<1>3. CASE EmitSave(file)
  <2>1. shown' = shown /\ pending' = [pending EXCEPT ![file] = NotPending]
    BY <1>3 DEF EmitSave
  <2>2. RecordsOK'
    BY <1>1, <2>1 DEF LiveOK, PanelOK
  <2>3. OneSessionShown'
    BY <1>1, <2>1 DEF OneSessionShown, RevisionsOf, Ids
  <2> QED BY <1>2, <2>2, <2>3 DEF StoreOK
<1>4. CASE \E text \in Typed : EditContent(file, <<text>>)
  <2>1. PICK now, later :
          /\ shown[file] # NotShown
          /\ now = [shown[file] EXCEPT !.content = now.content]
          /\ shown' = [shown EXCEPT ![file] = now]
          /\ later.id = shown[file].id
          /\ pending' = [pending EXCEPT ![file] = later]
    <3>1. PICK text : EditContent(file, <<text>>)
      BY <1>4
    <3>2. PICK now : now = [shown[file] EXCEPT !.content = <<text>>]
      OBVIOUS
    <3>3. now = [shown[file] EXCEPT !.content = now.content]
      BY <3>2
    <3>4. shown' = [shown EXCEPT ![file] = now]
      BY <3>1, <3>2 DEF EditContent
    <3>5. PICK later : later = [id |-> shown[file].id, content |-> <<text>>]
      OBVIOUS
    <3> QED BY <3>1, <3>3, <3>4, <3>5 DEF EditContent
  <2>2. /\ now = [x \in {"id", "content"} |-> now[x]]
        /\ now.id = shown[file].id
    BY <2>1
  <2>3. RecordsOK'
    BY <1>1, <2>1, <2>2 DEF LiveOK, PanelOK
  <2>4. shown[file].id \in RevisionsOf(current, file)
    BY <2>1 DEF OneSessionShown
  <2>5. OneSessionShown'
    BY <1>1, <2>1, <2>2, <2>4 DEF OneSessionShown, RevisionsOf, Ids
  <2> QED BY <1>2, <2>3, <2>5 DEF StoreOK
<1> QED BY <1>3, <1>4

(* An event arrives.  Only a file that is live here was started in the     *)
(* session of the reply, so the revision that ends it is of this session.  *)
LEMMA UpsertKeeps ==
  ASSUME EditorInvariant, NEW id \in Ids, log[id].session = current, Upsert(id),
         log' = log, UNCHANGED <<current, pending, lists, fetches>>,
         \A s \in live' : LiveOK(s) /\ s.session = current
  PROVE  StoreOK'
<1> USE DEF EditorInvariant, RecordsOK
<1>1. PICK file : file = log[id].file
  OBVIOUS
<1>2. PICK now : /\ now = [id |-> id, content |-> log[id].content]
                 /\ shown' = [shown EXCEPT ![file] = now]
  BY <1>1 DEF Upsert
<1>3. now = [x \in {"id", "content"} |-> now[x]] /\ now.id = id
  BY <1>2
<1>4. /\ IsPanel(panel) /\ panel.generation \in Nat
      /\ panel.revisions \subseteq RevisionsOf(current, panel.file)
  BY DEF PanelOK, OneSessionShown
<1>5. PICK c : /\ c = panel'
               /\ \/ c = panel
                  \/ panel.file = file /\ c = [panel EXCEPT !.revisions = @ \cup {id}]
  BY <1>1 DEF Upsert
<1>6. /\ IsPanel(c)
      /\ c.generation = panel.generation /\ c.file = panel.file
      /\ c.open = panel.open
      /\ \/ c.revisions = panel.revisions
         \/ panel.file = file /\ c.revisions = panel.revisions \cup {id}
  BY <1>4, <1>5 DEF IsPanel, PanelFields
<1>7. id \in RevisionsOf(current, file)
  BY <1>1 DEF RevisionsOf
<1>8. RecordsOK'
  BY <1>2, <1>3, <1>4, <1>5, <1>6 DEF PanelOK
<1>9. \A f \in Files :
        /\ shown'[f] # NotShown => shown'[f].id \in RevisionsOf(current, f)
        /\ pending'[f] # NotPending => pending'[f].id \in RevisionsOf(current, f)
  BY <1>2, <1>3, <1>7 DEF OneSessionShown
<1>10. OneSessionShown'
  <2>1. c.revisions \subseteq RevisionsOf(current, c.file)
    BY <1>4, <1>6, <1>7
  <2> QED BY <1>5, <1>9, <2>1 DEF OneSessionShown, RevisionsOf, Ids
<1>11. /\ \A get \in lists' : ListOK(get)'
       /\ \A get \in fetches' : FetchOK(get)'
  BY <1>4, <1>5, <1>6 DEF ListOK, FetchOK, RevisionsOf, Ids
<1> QED BY <1>8, <1>10, <1>11 DEF StoreOK

LEMMA NothingUpserted ==
  ASSUME EditorInvariant, log' = log,
         UNCHANGED <<current, shown, panel, pending, lists, fetches>>,
         \A s \in live' : LiveOK(s) /\ s.session = current
  PROVE  StoreOK'
<1> USE DEF EditorInvariant, RecordsOK
<1>1. RecordsOK'
  BY DEF PanelOK
<1>2. OneSessionShown'
  BY DEF OneSessionShown, RevisionsOf, Ids
<1>3. /\ \A get \in lists' : ListOK(get)'
      /\ \A get \in fetches' : FetchOK(get)'
  BY DEF ListOK, FetchOK, RevisionsOf, Ids
<1> QED BY <1>1, <1>2, <1>3 DEF StoreOK

LEMMA EventKeeps ==
  ASSUME EditorInvariant, ReceiveEvent
  PROVE  StoreOK' /\ WireOK' /\ log' = log
<1> USE DEF EditorInvariant, RecordsOK
<1>1. /\ log' = log /\ wire # <<>> /\ wire' = Tail(wire)
      /\ UNCHANGED <<current, pending, lists, fetches>>
  BY DEF ReceiveEvent
<1>2. PICK event : event = Head(wire)
  OBVIOUS
<1>3. EventOK(event) /\ WireOK'
  BY <1>1, <1>2, EventIsTaken
<1>4. \A s \in live : LiveOK(s) /\ s.session = current
  BY DEF OneSessionShown
<1>5. CASE Started(event)
  <2>1. PICK new : \/ live' = live
                   \/ /\ live' = live \cup {new} /\ event.session = current
                      /\ new = [temp |-> event.temp, file |-> event.file,
                                session |-> event.session, content |-> <<>>]
    BY <1>5 DEF Started
  <2>2. event.session = Home
    BY <1>3, <1>5 DEF Started, EventOK
  <2>3. new = [temp |-> event.temp, file |-> event.file,
               session |-> event.session, content |-> <<>>] => LiveOK(new)
    BY <2>2 DEF LiveOK, LiveFields
  <2>4. \A s \in live' : LiveOK(s) /\ s.session = current
    BY <1>4, <2>1, <2>3
  <2> QED BY <1>1, <1>3, <1>5, <2>4, NothingUpserted DEF Started
<1>6. CASE Extended(event)
  <2>1. ASSUME NEW s \in live'
        PROVE  LiveOK(s) /\ s.session = current
    <3>1. PICK r \in live :
            s = r \/ s = [r EXCEPT !.content = @ \o event.delta]
      BY <1>6 DEF Extended
    <3> QED BY <1>4, <3>1 DEF LiveOK, LiveFields
  <2> QED BY <1>1, <1>3, <1>6, <2>1, NothingUpserted DEF Extended
<1>7. CASE Finished(event)
  <2>1. \A s \in live' : LiveOK(s) /\ s.session = current
    BY <1>4, <1>7 DEF Finished
  <2>2. CASE \E s \in live : s.temp = event.temp /\ s.session = current
    <3>1. Upsert(event.id)
      BY <1>7, <2>2 DEF Finished
    <3>2. current = Home
      BY <1>4, <2>2 DEF LiveOK
    <3>3. event.id \in Ids /\ log[event.id].session = current
      BY <1>3, <1>7, <3>2 DEF Finished, EventOK
    <3> QED BY <1>1, <1>3, <2>1, <3>1, <3>3, UpsertKeeps
  <2>3. CASE ~\E s \in live : s.temp = event.temp /\ s.session = current
    BY <1>1, <1>3, <1>7, <2>1, <2>3, NothingUpserted DEF Finished
  <2> QED BY <2>2, <2>3
<1>8. CASE CreatedElsewhere(event)
  <2>1. live' = live /\ event.id \in Ids
    BY <1>3, <1>8 DEF CreatedElsewhere, EventOK
  <2>2. CASE log[event.id].session = current
    BY <1>1, <1>3, <1>4, <1>8, <2>1, <2>2, UpsertKeeps DEF CreatedElsewhere
  <2>3. CASE log[event.id].session # current
    BY <1>1, <1>3, <1>4, <1>8, <2>1, <2>3, NothingUpserted DEF CreatedElsewhere
  <2> QED BY <2>2, <2>3
<1> QED BY <1>2, <1>5, <1>6, <1>7, <1>8 DEF ReceiveEvent
-----------------------------------------------------------------------------
LEMMA InitEstablishes == EditorInit => EditorInvariant
<1> SUFFICES ASSUME EditorInit
             PROVE  EditorInvariant
  OBVIOUS
<1>1. log = <<>> /\ wire = <<>> /\ OwnSeq(<<>>) /\ DOMAIN <<>> = {}
  BY DEF EditorInit, StreamInit, OwnSeq
<1>5. LogOK /\ WireOK
  BY <1>1 DEF LogOK, WireOK
<1>2. PanelOK
  <2>1. PICK c : c = panel
    OBVIOUS
  <2>2. c = [open |-> FALSE, file |-> NoFile, revisions |-> {},
             loading |-> FALSE, generation |-> 0]
    BY <2>1 DEF EditorInit, Closed
  <2>3. IsPanel(c) /\ c.generation = 0
    BY <2>2 DEF IsPanel, PanelFields
  <2> QED BY <2>1, <2>3 DEF PanelOK
<1>3. RecordsOK
  BY <1>2 DEF EditorInit, RecordsOK, NotShown
<1>4. OneSessionShown
  BY DEF EditorInit, OneSessionShown, Closed, NotPending
<1> QED BY <1>1, <1>3, <1>4, <1>5 DEF EditorInvariant, EditorInit

(* The steps that leave the revisions and the events alone.                *)
LEMMA StoreStepKeeps ==
  ASSUME EditorInvariant, StoreOK', log' = log, wire' = wire
  PROVE  EditorInvariant'
<1>1. LogOK' /\ WireOK'
  BY LogStays, EventsRely DEF EditorInvariant, LogOK
<1> QED BY <1>1 DEF EditorInvariant, StoreOK

LEMMA UserStepKeeps ==
  ASSUME EditorInvariant, UserStep
  PROVE  EditorInvariant'
<1>1. log' = log /\ wire' = wire
  BY DEF UserStep, LoadSession, SelectTab, EmitSave, EditContent, CloseTab,
         ToggleRevisionHistory, streamVars, netVars
<1>2. CASE \E session \in Sessions : LoadSession(session)
  BY <1>1, <1>2, LoadSessionKeeps, StoreStepKeeps
<1>3. CASE \E file \in Files :
             EmitSave(file) \/ \E text \in Typed : EditContent(file, <<text>>)
  BY <1>1, <1>3, EditKeeps, StoreStepKeeps
<1>4. CASE \/ \E file \in Files : SelectTab(file)
           \/ CloseTab \/ ToggleRevisionHistory
  <2>1. UNCHANGED <<current, shown, live, pending, lists>>
    BY <1>4 DEF SelectTab, CloseTab, ToggleRevisionHistory
  <2>2. \/ \E file : LoadHistory(file)
        \/ /\ fetches' = fetches
           /\ \/ ResetPanel \/ panel' = panel
              \/ panel' = [panel EXCEPT !.open = FALSE]
    BY <1>4 DEF SelectTab, CloseTab, ToggleRevisionHistory, panelVars,
                ResetPanel
  <2>3. StoreOK'
    BY <1>1, <2>1, <2>2, HistoryKeeps, ClosingKeeps
  <2> QED BY <1>1, <2>3, StoreStepKeeps
<1> QED BY <1>2, <1>3, <1>4 DEF UserStep

LEMMA ApplyEditKeeps ==
  ASSUME EditorInvariant, ApplyEdit
  PROVE  EditorInvariant'
<1>1. UNCHANGED storeVars
  BY DEF ApplyEdit
<1>2. LogOK' /\ LogGrows /\ WireOK'
  <2>1. CASE log' = log /\ wire' = wire
    BY <2>1, LogStays, EventsRely DEF EditorInvariant, LogOK
  <2>2. CASE ~(log' = log /\ wire' = wire)
    <3>1. PICK event : event = [type |-> "created", id |-> Len(log) + 1]
      OBVIOUS
    <3>2. PICK revision, room :
            log' = Append(log, revision) /\ Tell(room, event)
      BY <2>2, <3>1 DEF ApplyEdit, netVars
    <3>3. LogOK' /\ LogGrows /\ Len(log) + 1 \in Ids'
      BY <3>2, RevisionIsAdded DEF EditorInvariant
    <3>4. EventOK(event)'
      BY <3>1, <3>3 DEF EventOK
    <3> QED BY <3>2, <3>3, <3>4, Told DEF EditorInvariant
  <2> QED BY <2>1, <2>2
<1> QED BY <1>1, <1>2, StoreRely DEF EditorInvariant

(* The connection breaks: what is on the wire is gone.                     *)
LEMMA DisconnectKeeps ==
  ASSUME EditorInvariant, Disconnect
  PROVE  EditorInvariant'
<1>1. UNCHANGED storeVars /\ log' = log /\ wire' = <<>>
  BY DEF Disconnect, editorVars
<1>2. LogGrows /\ LogOK'
  BY <1>1, LogStays DEF EditorInvariant, LogOK
<1>3. OwnSeq(<<>>) /\ DOMAIN <<>> = {}
  BY DEF OwnSeq
<1>4. WireOK'
  BY <1>1, <1>3 DEF WireOK
<1> QED BY <1>1, <1>2, <1>4, StoreRely DEF EditorInvariant

LEMMA StepKeeps ==
  ASSUME EditorInvariant, [EditorNext]_<<streamVars, editorVars>>
  PROVE  EditorInvariant'
<1>1. CASE StreamStep /\ UNCHANGED editorVars
  <2>1. UNCHANGED storeVars
    BY <1>1 DEF editorVars
  <2>2. LogOK' /\ LogGrows /\ WireOK'
    BY <1>1, StreamStepKeeps DEF EditorInvariant
  <2> QED BY <2>1, <2>2, StoreRely DEF EditorInvariant
<1>2. CASE UserStep
  BY <1>2, UserStepKeeps
<1>3. CASE \E get \in lists : AnswerList(get) \/ ReceiveList(get)
  <2>1. log' = log /\ wire' = wire
    BY <1>3 DEF AnswerList, ReceiveList, streamVars, netVars
  <2>2. StoreOK'
    BY <1>3, AnswerListKeeps DEF EditorInvariant
  <2> QED BY <2>1, <2>2, StoreStepKeeps
<1>4. CASE \E get \in fetches : AnswerFetch(get) \/ ReceiveFetch(get)
  <2>1. log' = log /\ wire' = wire
    BY <1>4 DEF AnswerFetch, ReceiveFetch, streamVars, netVars
  <2>2. StoreOK'
    BY <1>4, FetchKeeps
  <2> QED BY <2>1, <2>2, StoreStepKeeps
<1>5. CASE ApplyEdit
  BY <1>5, ApplyEditKeeps
<1>6. CASE ReceiveEvent
  <2>1. StoreOK' /\ WireOK' /\ log' = log
    BY <1>6, EventKeeps
  <2> QED BY <2>1 DEF EditorInvariant, StoreOK, LogOK
<1>7. CASE UNCHANGED <<streamVars, editorVars>>
  <2>1. UNCHANGED storeVars /\ log' = log /\ wire' = wire
    BY <1>7 DEF editorVars, streamVars, netVars
  <2>2. LogGrows /\ LogOK' /\ WireOK'
    BY <2>1, LogStays, EventsRely DEF EditorInvariant, LogOK
  <2> QED BY <2>1, <2>2, StoreRely DEF EditorInvariant
<1>8. CASE Disconnect
  BY <1>8, DisconnectKeeps
<1> QED BY <1>1, <1>2, <1>3, <1>4, <1>5, <1>6, <1>7, <1>8
       DEF EditorNext, NetworkStep

(* What the editor shows, its saves and its answers in flight belong to    *)
(* the session they were asked for, in every behaviour.                    *)
THEOREM EditorInvariantHolds == EditorSpec => []EditorInvariant
<1>1. EditorInit => EditorInvariant
  BY InitEstablishes
<1>2. EditorInvariant /\ [EditorNext]_<<streamVars, editorVars>>
        => EditorInvariant'
  BY StepKeeps
<1> QED BY <1>1, <1>2, PTL DEF EditorSpec

(* Whatever arrives late, from another session or for another file: the    *)
(* editor shows, saves and lists files of the session the user is in       *)
(* (loadSession, loadRevisionHistory and the event handlers).              *)
THEOREM OneSessionShownHolds == EditorSpec => []OneSessionShown
<1>1. EditorInvariant => OneSessionShown
  BY DEF EditorInvariant
<1> QED BY <1>1, EditorInvariantHolds, PTL
-----------------------------------------------------------------------------
(* A place in a reply's text: how much of it the segments so far stand for *)
(* and, in a block, the first unit of the block.                           *)

(* A closing line of T from unit i to unit e.                              *)
ClosingAt(T, i, e) == \E w \in Closings : IsAt(w, T, i) /\ e = i + Len(w) - 1
LineStart(T, first, i) == i = first \/ T[i - 1] = "nl"

(* No closing line lies between the first unit of a block and unit b.      *)
Sound(T, first, b) ==
  \A i \in first .. b : \A e \in i .. b : ~(LineStart(T, first, i) /\ ClosingAt(T, i, e))

(* None even begins there.                                                 *)
Clean(T, first, b) ==
  \A i \in first .. b : \A e \in Nat : ~(LineStart(T, first, i) /\ ClosingAt(T, i, e))

(* Where one begins behind a line break that was passed on, all its        *)
(* backticks have arrived.                                                 *)
Awaits(T, first, b, r) ==
  first <= b /\ T[b] = "nl" /\ (\E e \in Nat : ClosingAt(T, b + 1, e)) => r >= b + 3

(* A block that begins at unit `first` is opened by the line before it.    *)
Opening(T, first) == \E w \in Openings : Opens(T, first, w)
OpensFile(T, file, first) == \E w \in Openings : /\ Opens(T, first, w)
                                                 /\ file = Named <=> w \notin Closings

(* A block has the name of its fence or the number of a snippet, of which  *)
(* the text up to b has room for so many.                                  *)
FileFits(file, b) == file = Named \/ (file \in Nat \ {0} /\ 4 * file <= b)

(* A segment takes place (a, first) to (b, next); `ok`: nothing was torn.  *)
Moves(T, ok, segment, a, first, b, next) ==
  /\ a <= b /\ b <= Len(T)
  /\ \/ /\ segment.type = "prose"
        /\ first = 0 /\ next = 0
     \/ /\ segment.type = "artifact-start"
        /\ first = 0 /\ next = b + 1 /\ OpensFile(T, segment.file, next)
        /\ FileFits(segment.file, b)
     \/ /\ segment.type = "artifact-chunk"
        /\ first # 0 /\ next = first
        /\ segment.text = Slice(T, a + 1, b) /\ (ok => Sound(T, first, b))
     \/ /\ segment.type = "artifact-end"
        /\ first # 0 /\ next = 0

Path(T, ok, segments, at, top) ==
  /\ at \in [0 .. Len(segments) -> Nat] /\ top \in [0 .. Len(segments) -> Nat]
  /\ \A k \in 1 .. Len(segments) :
       Moves(T, ok, segments[k], at[k - 1], top[k - 1], at[k], top[k])
  /\ \A k \in 0 .. Len(segments) : at[k] <= at[Len(segments)]

(* A row of segments takes one place to another.                           *)
Covers(T, ok, segments, a, first, b, next) ==
  /\ OwnSeq(segments)
  /\ \E at, top : /\ Path(T, ok, segments, at, top)
                  /\ at[0] = a /\ top[0] = first
                  /\ at[Len(segments)] = b /\ top[Len(segments)] = next

(* What holds while nothing is torn need not hold once something is.       *)
LEMMA CoversWeaker ==
  ASSUME NEW T, NEW ok \in BOOLEAN, NEW less \in BOOLEAN, less => ok,
         NEW s, NEW a, NEW f, NEW b, NEW g, Covers(T, ok, s, a, f, b, g)
  PROVE  Covers(T, less, s, a, f, b, g)
<1>1. \A x, c, h, d, k : Moves(T, ok, x, c, h, d, k) => Moves(T, less, x, c, h, d, k)
  BY DEF Moves
<1>2. \A at, top : Path(T, ok, s, at, top) => Path(T, less, s, at, top)
  BY <1>1 DEF Path
<1> QED BY <1>2 DEF Covers

LEMMA CoversNothing ==
  ASSUME NEW T, NEW ok, NEW a \in Nat, NEW first \in Nat
  PROVE  Covers(T, ok, <<>>, a, first, a, first)
<1>1. PICK at, top : /\ at = [k \in 0 .. 0 |-> a] /\ top = [k \in 0 .. 0 |-> first]
  OBVIOUS
<1>2. OwnSeq(<<>>)
  BY DEF OwnSeq
<1>3. PICK none : none = <<>> /\ Len(none) = 0
  OBVIOUS
<1>4. Path(T, ok, none, at, top) /\ at[0] = a /\ top[0] = first
  BY <1>1, <1>3 DEF Path
<1> QED BY <1>2, <1>3, <1>4 DEF Covers

LEMMA CoversMore ==
  ASSUME NEW T, NEW ok, NEW s, NEW x, NEW a, NEW f, NEW b, NEW g, NEW c \in Nat, NEW h \in Nat,
         Covers(T, ok, s, a, f, b, g), Moves(T, ok, x, b, g, c, h)
  PROVE  Covers(T, ok, Append(s, x), a, f, c, h)
<1>1. PICK at, top : /\ Path(T, ok, s, at, top)
                     /\ at[0] = a /\ top[0] = f
                     /\ at[Len(s)] = b /\ top[Len(s)] = g
  BY DEF Covers
<1>2. OwnSeq(s)
  BY DEF Covers
<1>3. PICK n \in Nat : n = Len(s) /\ DOMAIN s = 1 .. n
  BY <1>2 DEF OwnSeq
<1>4. PICK t : t = Append(s, x)
  OBVIOUS
<1>5. /\ OwnSeq(t)
      /\ t[n + 1] = x /\ \A k \in 1 .. n : t[k] = s[k]
  <2>1. OwnSeq(t) /\ LongerBy(s, x, t)
    BY <1>2, <1>4, Appended
  <2>2. t[Len(s) + 1] = x /\ \A k \in DOMAIN s : t[k] = s[k]
    BY <2>1 DEF LongerBy
  <2> QED BY <1>3, <2>1, <2>2
<1>6. Len(t) = n + 1
  BY <1>2, <1>3, <1>4 DEF OwnSeq
<1>7. PICK at2, top2 : /\ at2 = [k \in 0 .. n + 1 |-> IF k = n + 1 THEN c ELSE at[k]]
                       /\ top2 = [k \in 0 .. n + 1 |-> IF k = n + 1 THEN h ELSE top[k]]
  OBVIOUS
<1>8. /\ at \in [0 .. n -> Nat] /\ top \in [0 .. n -> Nat]
      /\ \A k \in 1 .. n : Moves(T, ok, s[k], at[k - 1], top[k - 1], at[k], top[k])
      /\ \A k \in 0 .. n : at[k] <= b
  BY <1>1, <1>3 DEF Path
<1>9. at2 \in [0 .. n + 1 -> Nat] /\ top2 \in [0 .. n + 1 -> Nat]
  BY <1>7, <1>8
<1>10. ASSUME NEW k \in 1 .. n + 1
       PROVE  Moves(T, ok, t[k], at2[k - 1], top2[k - 1], at2[k], top2[k])
  <2>1. /\ k - 1 \in 0 .. n
        /\ at2[k - 1] = at[k - 1] /\ top2[k - 1] = top[k - 1]
    BY <1>7
  <2>2. CASE k = n + 1
    <3>1. at2[k] = c /\ top2[k] = h /\ at2[k - 1] = b /\ top2[k - 1] = g /\ t[k] = x
      BY <1>1, <1>3, <1>5, <1>7, <2>1, <2>2
    <3> QED BY <3>1, Zenon
  <2>3. CASE k # n + 1
    <3>1. at2[k] = at[k] /\ top2[k] = top[k] /\ t[k] = s[k] /\ k \in 1 .. n
      BY <1>5, <1>7, <2>3
    <3> QED BY <1>8, <2>1, <3>1, Zenon
  <2> QED BY <2>2, <2>3
<1>11. \A k \in 0 .. n + 1 : at2[k] <= c
  <2>1. b <= c /\ b \in Nat
    BY <1>1, <1>3, <1>8 DEF Moves
  <2> QED BY <1>7, <1>8, <2>1
<1>12. /\ at2[0] = a /\ top2[0] = f
       /\ at2[n + 1] = c /\ top2[n + 1] = h
  BY <1>1, <1>7
<1>13. Path(T, ok, t, at2, top2)
  BY <1>6, <1>9, <1>10, <1>11, <1>12 DEF Path
<1> QED BY <1>4, <1>5, <1>6, <1>12, <1>13 DEF Covers

LEMMA CoversMaybe ==
  ASSUME NEW T, NEW ok, NEW s, NEW x, NEW a, NEW f, NEW b, NEW g, NEW c \in Nat, NEW h \in Nat,
         Covers(T, ok, s, a, f, b, g), Moves(T, ok, x, b, g, c, h),
         x.text = <<>> => b = c /\ g = h
  PROVE  Covers(T, ok, s \o NonEmpty(x), a, f, c, h)
<1>1. OwnSeq(s)
  BY DEF Covers
<1>2. CASE x.text = <<>>
  <2>1. s \o NonEmpty(x) = s
    BY <1>1, <1>2, ConcatEmptySeq DEF NonEmpty, OwnSeq
  <2> QED BY <1>2, <2>1
<1>3. CASE x.text # <<>>
  <2> DEFINE S == {s[n] : n \in DOMAIN s} \cup {x}
  <2>1. s \in Seq(S) /\ x \in S
    BY <1>1 DEF OwnSeq
  <2> HIDE DEF S
  <2>2. s \o NonEmpty(x) = Append(s, x)
    BY <1>3, <2>1, AppendIsConcat DEF NonEmpty
  <2> QED BY <2>2, CoversMore
<1> QED BY <1>2, <1>3

LEMMA CoversFirst ==
  ASSUME NEW T, NEW ok, NEW s, NEW a, NEW f, NEW b, NEW g,
         Covers(T, ok, s, a, f, b, g), s # <<>>
  PROVE  \E c, h \in Nat : /\ Moves(T, ok, Head(s), a, f, c, h)
                           /\ Covers(T, ok, Tail(s), c, h, b, g)
<1>1. PICK at, top : /\ Path(T, ok, s, at, top)
                     /\ at[0] = a /\ top[0] = f
                     /\ at[Len(s)] = b /\ top[Len(s)] = g
  BY DEF Covers
<1>2. OwnSeq(s)
  BY DEF Covers
<1>3. PICK t : t = Tail(s)
  OBVIOUS
<1>4. PICK n \in Nat : Len(s) = n + 1 /\ DOMAIN s = 1 .. n + 1 /\ Len(t) = n
  <2>1. Len(s) \in Nat \ {0} /\ Len(t) = Len(s) - 1 /\ DOMAIN s = 1 .. Len(s)
    BY <1>2, <1>3 DEF OwnSeq
  <2> QED BY <2>1
<1>5. OwnSeq(t) /\ Head(s) = s[1] /\ \A k \in 1 .. n : t[k] = s[k + 1]
  <2>1. OwnSeq(t) /\ Head(s) = s[1] /\ \A k \in DOMAIN t : t[k] = s[k + 1]
    BY <1>2, <1>3, Shortened
  <2>2. DOMAIN t = 1 .. n
    BY <1>4, <2>1 DEF OwnSeq
  <2> QED BY <2>1, <2>2
<1>6. PICK at2, top2 : /\ at2 = [k \in 0 .. n |-> at[k + 1]]
                       /\ top2 = [k \in 0 .. n |-> top[k + 1]]
  OBVIOUS
<1>7. /\ at \in [0 .. n + 1 -> Nat] /\ top \in [0 .. n + 1 -> Nat]
      /\ \A k \in 1 .. n + 1 : Moves(T, ok, s[k], at[k - 1], top[k - 1], at[k], top[k])
      /\ \A k \in 0 .. n + 1 : at[k] <= b
  BY <1>1, <1>4 DEF Path
<1>8. Moves(T, ok, Head(s), a, f, at[1], top[1])
  <2>1. PICK k \in 1 .. n + 1 : k = 1 /\ k - 1 = 0
    OBVIOUS
  <2> QED BY <1>1, <1>5, <1>7, <2>1
<1>9. ASSUME NEW k \in 1 .. n
      PROVE  Moves(T, ok, t[k], at2[k - 1], top2[k - 1], at2[k], top2[k])
  <2>1. /\ k + 1 \in 1 .. n + 1 /\ k - 1 \in 0 .. n /\ (k + 1) - 1 = k
        /\ at2[k - 1] = at[k] /\ top2[k - 1] = top[k]
        /\ at2[k] = at[k + 1] /\ top2[k] = top[k + 1] /\ t[k] = s[k + 1]
    BY <1>5, <1>6
  <2>2. Moves(T, ok, s[k + 1], at[(k + 1) - 1], top[(k + 1) - 1], at[k + 1], top[k + 1])
    BY <1>7, <2>1
  <2> QED BY <2>1, <2>2
<1>10. /\ at2 \in [0 .. n -> Nat] /\ top2 \in [0 .. n -> Nat]
       /\ \A k \in 0 .. n : at2[k] <= b
       /\ at2[0] = at[1] /\ top2[0] = top[1] /\ at2[n] = b /\ top2[n] = g
  BY <1>1, <1>4, <1>6, <1>7
<1>11. Path(T, ok, t, at2, top2)
  BY <1>4, <1>9, <1>10 DEF Path
<1>12. at[1] \in Nat /\ top[1] \in Nat
  BY <1>7
<1> QED BY <1>3, <1>4, <1>5, <1>8, <1>10, <1>11, <1>12 DEF Covers

(* The place that a row of segments starts from.                           *)
LEMMA CoversForward ==
  ASSUME NEW T, NEW ok, NEW s, NEW a, NEW f, NEW b, NEW g, Covers(T, ok, s, a, f, b, g)
  PROVE  a \in Nat /\ f \in Nat /\ b \in Nat /\ g \in Nat /\ a <= b
<1>1. PICK at, top : /\ Path(T, ok, s, at, top)
                     /\ at[0] = a /\ top[0] = f
                     /\ at[Len(s)] = b /\ top[Len(s)] = g
  BY DEF Covers
<1>2. Len(s) \in Nat
  BY DEF Covers, OwnSeq
<1> QED BY <1>1, <1>2 DEF Path
-----------------------------------------------------------------------------
(* Stretches of a text.                                                    *)
Stretch(T, c, r) == /\ T \in Seq(Units) /\ c \in Nat /\ r \in Nat
                    /\ c <= r /\ r <= Len(T)
IsSlice(u, T, c, r) == /\ u \in Seq(Units) /\ Len(u) = r - c
                       /\ \A j \in 1 .. r - c : u[j] = T[c + j]

LEMMA SliceIs ==
  ASSUME NEW T, NEW c, NEW r, Stretch(T, c, r)
  PROVE  IsSlice(Slice(T, c + 1, r), T, c, r)
<1>1. \A i \in c + 1 .. r : T[i] \in Units
  BY DEF Stretch
<1>2. c \in Nat /\ r \in Nat /\ c <= r
  BY DEF Stretch
<1>3. /\ Slice(T, c + 1, r) \in Seq(Units)
      /\ Len(Slice(T, c + 1, r)) = IF c + 1 <= r THEN r - (c + 1) + 1 ELSE 0
      /\ \A j \in 1 .. r - (c + 1) + 1 : Slice(T, c + 1, r)[j] = T[c + 1 + j - 1]
  BY <1>1, <1>2, SubSeqProperties DEF Slice
<1>4. /\ c + 1 <= r \/ r - c = 0
      /\ r - (c + 1) + 1 = r - c
      /\ \A j \in 1 .. r - c : c + 1 + j - 1 = c + j
  BY <1>2
<1>5. Len(Slice(T, c + 1, r)) = r - c
  BY <1>2, <1>3, <1>4
<1>6. \A j \in 1 .. r - c : Slice(T, c + 1, r)[j] = T[c + j]
  BY <1>3, <1>4
<1> QED BY <1>3, <1>5, <1>6 DEF IsSlice

LEMMA SliceOfSlice ==
  ASSUME NEW T \in Seq(Units), NEW c \in Nat, NEW r \in Nat, c <= r, r <= Len(T),
         NEW m \in Nat, NEW n \in Nat, m <= n, n <= r - c
  PROVE  Slice(Slice(T, c + 1, r), m + 1, n) = Slice(T, c + m + 1, c + n)
<1>1. PICK u : /\ u = Slice(T, c + 1, r) /\ u \in Seq(Units) /\ Len(u) = r - c
               /\ \A j \in 1 .. r - c : u[j] = T[c + j]
  <2>1. Stretch(T, c, r)
    BY DEF Stretch
  <2>2. IsSlice(Slice(T, c + 1, r), T, c, r)
    BY <2>1, SliceIs
  <2> QED BY <2>2 DEF IsSlice
<1>2. PICK v : /\ v = Slice(u, m + 1, n) /\ v \in Seq(Units) /\ Len(v) = n - m
               /\ \A j \in 1 .. n - m : v[j] = u[m + j]
  <2>1. n <= Len(u)
    BY <1>1
  <2>2. /\ Slice(u, m + 1, n) \in Seq(Units) /\ Len(Slice(u, m + 1, n)) = n - m
        /\ \A j \in 1 .. n - m : Slice(u, m + 1, n)[j] = u[m + j]
    <3>1. Stretch(u, m, n)
      BY <1>1, <2>1 DEF Stretch
    <3>2. IsSlice(Slice(u, m + 1, n), u, m, n)
      BY <3>1, SliceIs
    <3> QED BY <2>1, <3>2 DEF IsSlice
  <2> QED BY <2>2
<1>3. PICK d \in Nat, e \in Nat : d = c + m /\ e = c + n
  OBVIOUS
<1>4. PICK w : /\ w = Slice(T, d + 1, e) /\ w \in Seq(Units) /\ Len(w) = e - d
               /\ \A j \in 1 .. e - d : w[j] = T[d + j]
  <2>1. d <= e /\ e <= Len(T)
    BY <1>3
  <2>2. /\ Slice(T, d + 1, e) \in Seq(Units) /\ Len(Slice(T, d + 1, e)) = e - d
        /\ \A j \in 1 .. e - d : Slice(T, d + 1, e)[j] = T[d + j]
    <3>1. Stretch(T, d, e)
      BY <2>1 DEF Stretch
    <3>2. IsSlice(Slice(T, d + 1, e), T, d, e)
      BY <3>1, SliceIs
    <3> QED BY <2>1, <3>2 DEF IsSlice
  <2> QED BY <2>2
<1>5. v = w
  <2>1. Len(v) = Len(w)
    BY <1>2, <1>3, <1>4
  <2>2. ASSUME NEW j \in 1 .. n - m
        PROVE  v[j] = w[j]
    <3>1. m + j \in 1 .. r - c /\ c + (m + j) = d + j /\ j \in 1 .. e - d
      BY <1>3
    <3> QED BY <1>1, <1>2, <1>4, <3>1
  <2>3. \A j \in 1 .. Len(v) : v[j] = w[j]
    BY <1>2, <2>2
  <2> QED BY <1>2, <1>4, <2>1, <2>3, SeqEqual
<1> QED BY <1>1, <1>2, <1>3, <1>4, <1>5

LEMMA SliceNone ==
  ASSUME NEW T \in Seq(Units), NEW c \in Nat, NEW b \in Nat, c <= b, b <= Len(T),
         Slice(T, c + 1, b) = <<>>
  PROVE  b = c
<1>1. Len(Slice(T, c + 1, b)) = b - c
  <2>1. Stretch(T, c, b)
    BY DEF Stretch
  <2>2. IsSlice(Slice(T, c + 1, b), T, c, b)
    BY <2>1, SliceIs
  <2> QED BY <2>2 DEF IsSlice
<1> QED BY <1>1

(* A stretch cut in two.                                                   *)
LEMMA SliceCut ==
  ASSUME NEW T \in Seq(Units), NEW c \in Nat, NEW r \in Nat, c <= r, r <= Len(T),
         NEW u, u = Slice(T, c + 1, r), NEW n \in Nat, n <= r - c
  PROVE  /\ Slice(u, 1, n) = Slice(T, c + 1, c + n)
         /\ Slice(u, n + 1, Len(u)) = Slice(T, c + n + 1, r)
<1>1. PICK m \in Nat, k \in Nat : m = 0 /\ k = r - c /\ c + k = r
  OBVIOUS
<1>2. Len(u) = k
  <2>1. Stretch(T, c, r)
    BY <1>1 DEF Stretch
  <2>2. IsSlice(Slice(T, c + 1, r), T, c, r)
    BY <2>1, SliceIs
  <2> QED BY <1>1, <2>2 DEF IsSlice
<1>3. Slice(Slice(T, c + 1, r), m + 1, n) = Slice(T, c + m + 1, c + n)
  <2>1. m <= n
    BY <1>1
  <2> QED BY <2>1, SliceOfSlice
<1>4. Slice(Slice(T, c + 1, r), n + 1, k) = Slice(T, c + n + 1, c + k)
  <2>1. n <= k /\ k <= r - c
    BY <1>1
  <2> QED BY <2>1, SliceOfSlice
<1>5. m + 1 = 1 /\ c + m + 1 = c + 1
  BY <1>1
<1> QED BY <1>1, <1>2, <1>3, <1>4, <1>5

LEMMA SlicesJoin ==
  ASSUME NEW T \in Seq(Units), NEW f \in Nat \ {0}, NEW a \in Nat, NEW b \in Nat,
         f <= a + 1, a <= b, b <= Len(T)
  PROVE  Slice(T, f, a) \o Slice(T, a + 1, b) = Slice(T, f, b)
<1>1. f \in 1 .. Len(T) + 1 /\ a \in f - 1 .. Len(T) /\ b \in a .. Len(T)
  OBVIOUS
<1> QED BY <1>1, ConcatAdjacentSubSeq DEF Slice

LEMMA LeastNumber ==
  ASSUME NEW S, S \subseteq Nat, S # {}
  PROVE  \E least \in S : \A n \in S : least <= n
<1> DEFINE R == {p \in Nat \X Nat : p[1] < p[2]}
<1>1. IsWellFoundedOn(R, Nat)
  BY NatLessThanWellFounded DEF R, OpToRel
<1>2. PICK least \in S : \A n \in S : ~(<<n, least>> \in R)
  <2> HIDE DEF R
  <2> QED BY <1>1, WFMin
<1>3. \A n \in S : n \in Nat /\ least \in Nat /\ ~(n < least)
  BY <1>2
<1> QED BY <1>3

(* The fence lines, word by word.                                          *)
LEMMA ClosingWords ==
  ASSUME NEW w \in Closings
  PROVE  /\ w \in Seq(Units) /\ (Len(w) = 4 \/ Len(w) = 5)
         /\ w[1] = "tick" /\ w[2] = "tick" /\ w[3] = "tick"
         /\ Len(w) = 4 => w[4] = "nl"
         /\ Len(w) = 5 => w[4] = "cr" /\ w[5] = "nl"
<1>1. CASE w = <<"tick", "tick", "tick", "nl">>
  BY <1>1 DEF Units
<1>2. CASE w = <<"tick", "tick", "tick", "cr", "nl">>
  BY <1>2 DEF Units
<1> QED BY <1>1, <1>2 DEF Closings

LEMMA WordsAre ==
  ASSUME NEW w \in Openings
  PROVE  w \in Seq(Units) /\ Len(w) \in Nat /\ Len(w) >= 4 /\ w[Len(w)] = "nl"
<1>1. CASE w \in Closings
  BY <1>1, ClosingWords
<1>2. CASE w = <<"tick", "tick", "tick", "name", "nl">>
  BY <1>2 DEF Units
<1>3. CASE w = <<"tick", "tick", "tick", "name", "cr", "nl">>
  BY <1>3 DEF Units
<1> QED BY <1>1, <1>2, <1>3 DEF Openings

LEMMA IsAtInSlice ==
  ASSUME NEW T \in Seq(Units), NEW c \in Nat, NEW r \in Nat, c <= r, r <= Len(T),
         NEW w \in Seq(Units), NEW j \in Nat \ {0}
  PROVE  IsAt(w, Slice(T, c + 1, r), j) <=> IsAt(w, T, c + j) /\ c + j + Len(w) - 1 <= r
<1>1. PICK u : /\ u = Slice(T, c + 1, r) /\ u \in Seq(Units) /\ Len(u) = r - c
               /\ \A k \in 1 .. r - c : u[k] = T[c + k]
  <2>1. Stretch(T, c, r)
    BY DEF Stretch
  <2>2. IsSlice(Slice(T, c + 1, r), T, c, r)
    BY <2>1, SliceIs
  <2> QED BY <2>2 DEF IsSlice
<1>2. PICK n \in Nat : n = Len(w)
  OBVIOUS
<1>3. Len(T) \in Nat
  OBVIOUS
<1>4. ASSUME j + n - 1 <= r - c
      PROVE  \A k \in 1 .. n : u[j + k - 1] = T[c + j + k - 1]
  <2> SUFFICES ASSUME NEW k \in 1 .. n
               PROVE  u[j + k - 1] = T[c + j + k - 1]
    OBVIOUS
  <2>1. PICK l \in 1 .. r - c : l = j + k - 1
    BY <1>4
  <2>2. c + l = c + j + k - 1
    BY <2>1
  <2> QED BY <1>1, <2>1, <2>2
<1>5. IsAt(w, u, j) <=> /\ j + n - 1 <= r - c
                        /\ \A k \in 1 .. n : u[j + k - 1] = w[k]
  BY <1>1, <1>2 DEF IsAt
<1>6. IsAt(w, T, c + j) <=> /\ c + j + n - 1 <= Len(T)
                            /\ \A k \in 1 .. n : T[c + j + k - 1] = w[k]
  BY <1>2, <1>3 DEF IsAt
<1> QED BY <1>1, <1>2, <1>3, <1>4, <1>5, <1>6

(* The first fence, among any words of a fence's length.                   *)
LEMMA FirstFence ==
  ASSUME NEW u \in Seq(Units), NEW words, Fences(u, words) # {}
  PROVE  /\ Min(Fences(u, words)) \in 1 .. Len(u)
         /\ \E w \in words : IsAt(w, u, Min(Fences(u, words)))
         /\ \A j \in 1 .. Min(Fences(u, words)) - 1 : j \notin Fences(u, words)
<1> DEFINE F == Fences(u, words)
<1>1. F \subseteq 1 .. Len(u)
  BY DEF Fences
<1>2. \E x \in F : \A y \in F : x =< y
  <2>1. F \subseteq Nat /\ F # {}
    BY <1>1
  <2> HIDE DEF F
  <2> QED BY <2>1, LeastNumber
<1>3. PICK x : x = Min(F)
  OBVIOUS
<1>4. x \in F /\ \A y \in F : x =< y
  <2> HIDE DEF F
  <2> QED BY <1>2, <1>3 DEF Min
<1>5. \A j \in 1 .. x - 1 : j \notin F
  BY <1>1, <1>4
<1>6. x \in 1 .. Len(u) /\ \E w \in words : IsAt(w, u, x)
  BY <1>4 DEF Fences
<1> QED BY <1>3, <1>5, <1>6

(* A text shorter than any word has no fence.                              *)
LEMMA NoRoom ==
  ASSUME NEW u \in Seq(Units), Len(u) <= 3, NEW words, words \subseteq Openings
  PROVE  Fences(u, words) = {}
<1> SUFFICES ASSUME NEW i \in 1 .. Len(u), NEW w \in words, IsAt(w, u, i)
             PROVE  FALSE
  BY DEF Fences
<1>1. Len(w) \in Nat /\ Len(w) >= 4
  BY WordsAre
<1>2. i <= Len(u) + 1 - Len(w) /\ Len(u) \in Nat
  BY DEF IsAt
<1> QED BY <1>1, <1>2

(* The closing lines, unit by unit.                                        *)
LEMMA ClosingIs ==
  ASSUME NEW T \in Seq(Units), NEW i \in Nat, NEW e, ClosingAt(T, i, e)
  PROVE  /\ i >= 1 /\ e \in Nat /\ e <= Len(T) /\ e >= i /\ (e = i + 3 \/ e = i + 4)
         /\ T[i] = "tick" /\ T[i + 1] = "tick" /\ T[i + 2] = "tick"
         /\ T[e] = "nl" /\ (e = i + 4 => T[i + 3] = "cr")
<1>1. PICK w \in Closings : IsAt(w, T, i) /\ e = i + Len(w) - 1
  BY DEF ClosingAt
<1>2. PICK n \in Nat : n = Len(w) /\ (n = 4 \/ n = 5)
  BY ClosingWords
<1>3. /\ i >= 1 /\ i <= Len(T) + 1 - n /\ Len(T) \in Nat
      /\ \A k \in 1 .. n : T[i + k - 1] = w[k]
  BY <1>1, <1>2 DEF IsAt
<1>4. /\ i + 1 - 1 = i /\ i + 2 - 1 = i + 1 /\ i + 3 - 1 = i + 2
      /\ i + 4 - 1 = i + 3 /\ i + 5 - 1 = i + 4
  OBVIOUS
<1>5. /\ T[i] = w[1] /\ T[i + 1] = w[2] /\ T[i + 2] = w[3] /\ T[i + 3] = w[4]
      /\ n = 5 => T[i + 4] = w[5]
  <2>1. 1 \in 1 .. n /\ 2 \in 1 .. n /\ 3 \in 1 .. n /\ 4 \in 1 .. n /\ (n = 5 => 5 \in 1 .. n)
    BY <1>2
  <2> QED BY <1>3, <1>4, <2>1
<1>6. /\ w[1] = "tick" /\ w[2] = "tick" /\ w[3] = "tick"
      /\ n = 4 => w[4] = "nl"
      /\ n = 5 => w[4] = "cr" /\ w[5] = "nl"
  BY <1>2, ClosingWords
<1>7. /\ e = i + n - 1 /\ e \in Nat /\ e <= Len(T) /\ e >= i
      /\ n = 4 => e = i + 3
      /\ n = 5 => e = i + 4
  <2>1. e = i + n - 1
    BY <1>1, <1>2
  <2>2. e <= Len(T)
    BY <1>3, <2>1
  <2>3. n = 4 \/ n = 5
    BY <1>2
  <2>4. e \in Nat /\ e >= i
    BY <2>1, <2>3
  <2>5. n = 4 => e = i + 3
    BY <2>1
  <2>6. n = 5 => e = i + 4
    BY <2>1
  <2> QED BY <2>1, <2>2, <2>4, <2>5, <2>6
<1> QED
  <2>1. CASE n = 4
    BY <1>3, <1>5, <1>6, <1>7, <2>1
  <2>2. CASE n = 5
    BY <1>3, <1>5, <1>6, <1>7, <2>2
  <2> QED BY <1>2, <2>1, <2>2

(* What lies before the first fence, or within a short rest, has no        *)
(* closing line, if none began before.                                     *)
LEMMA PassedIsSound ==
  ASSUME NEW T \in Seq(Units), NEW c \in Nat, NEW r \in Nat, c <= r, r <= Len(T),
         NEW f \in Nat, f <= c + 1, f # 0, Clean(T, f, c), NEW n \in Nat, n <= r - c,
         \A j \in 1 .. n : j \notin Fences(Slice(T, c + 1, r), Closings)
  PROVE  Sound(T, f, c + n)
<1> SUFFICES ASSUME NEW i \in f .. c + n, NEW e \in i .. c + n,
                    LineStart(T, f, i), ClosingAt(T, i, e)
             PROVE  FALSE
  BY DEF Sound
<1>1. i \in Nat /\ e \in Nat
  OBVIOUS
<1>2. CASE i <= c
  BY <1>1, <1>2 DEF Clean
<1>3. CASE i > c
  <2>1. PICK j \in 1 .. n : i = c + j
    <3>1. i - c \in 1 .. n /\ i = c + (i - c)
      BY <1>3
    <3> QED BY <3>1
  <2>2. PICK w \in Closings : IsAt(w, T, i) /\ e = i + Len(w) - 1
    BY DEF ClosingAt
  <2>3. w \in Seq(Units)
    BY WordsAre DEF Openings
  <2>4. IsAt(w, Slice(T, c + 1, r), j)
    <3>1. c + j + Len(w) - 1 <= r
      BY <2>1, <2>2
    <3>2. j \in Nat \ {0}
      OBVIOUS
    <3> QED BY <2>1, <2>2, <2>3, <3>1, <3>2, IsAtInSlice
  <2>5. AtLineStart(Slice(T, c + 1, r), j)
    <3>1. CASE j = 1
      BY <3>1 DEF AtLineStart
    <3>2. CASE j # 1
      <4>1. PICK k \in 1 .. r - c : k = j - 1 /\ c + k = i - 1 /\ i # f
        BY <2>1, <3>2
      <4>2. Slice(T, c + 1, r)[k] = T[c + k]
        <5>1. Stretch(T, c, r)
          BY DEF Stretch
        <5> QED BY <5>1, SliceIs DEF IsSlice
      <4> QED BY <4>1, <4>2 DEF AtLineStart, LineStart
    <3> QED BY <3>1, <3>2
  <2>6. j \in 1 .. Len(Slice(T, c + 1, r))
    <3>1. Stretch(T, c, r)
      BY DEF Stretch
    <3>2. Len(Slice(T, c + 1, r)) = r - c
      BY <3>1, SliceIs DEF IsSlice
    <3> QED BY <3>2
  <2> QED BY <2>2, <2>4, <2>5, <2>6 DEF Fences
<1> QED BY <1>1, <1>2, <1>3

(* How much a buffer that holds T from d + 1 to r holds back of it.        *)
HoldsEnough(T, d, r, held) ==
  /\ d + 1 <= r /\ T[r] = "nl" => held >= 1
  /\ d + 2 <= r /\ T[r - 1] = "nl" /\ T[r] = "tick" => held >= 2
  /\ d + 3 <= r /\ T[r - 2] = "nl" /\ T[r - 1] = "tick" /\ T[r] = "tick" => held >= 3
  /\ d + 3 <= r /\ T[r - 2] = "tick" /\ T[r - 1] = "tick" /\ T[r] = "tick" => held >= 3

(* Then no closing line begins in what is passed on, except one that the   *)
(* end of the buffer cuts where it is missed.                              *)
LEMMA PassedIsClean ==
  ASSUME NEW T \in Seq(Units), NEW d \in Nat, NEW r \in Nat, d <= r, r <= Len(T),
         NEW g \in Nat, g # 0, g <= d + 1, Clean(T, g, d), Awaits(T, g, d, r),
         Opening(T, g), NEW c \in Nat, d <= c, c <= r, HoldsEnough(T, d, r, r - c),
         Sound(T, g, r), ~BadCut(T, r)
  PROVE  Clean(T, g, c)
<1> SUFFICES ASSUME NEW i \in g .. c, NEW e \in Nat,
                    LineStart(T, g, i), ClosingAt(T, i, e)
             PROVE  FALSE
  BY DEF Clean
<1>1. i \in Nat /\ i >= 1 /\ Len(T) \in Nat
  OBVIOUS
<1>2. CASE i <= d
  BY <1>1, <1>2 DEF Clean
<1>3. CASE e <= r
  <2>1. e \in i .. r
    <3>1. e \in Nat /\ e >= i
      BY <1>1, ClosingIs
    <3> QED BY <1>1, <1>3, <3>1
  <2> QED BY <2>1 DEF Sound
<1>4. CASE i > d /\ e > r
  <2>1. /\ e = i + 3 \/ e = i + 4
        /\ T[i] = "tick" /\ T[i + 1] = "tick" /\ T[i + 2] = "tick"
        /\ (e = i + 4 => T[i + 3] = "cr")
    BY <1>1, ClosingIs
  <2>2. PICK w \in Closings : IsAt(w, T, i) /\ e = i + Len(w) - 1
    BY DEF ClosingAt
  <2>3. AtLineStart(T, i)
    <3>1. CASE i = g
      <4>1. PICK o \in Openings : IsAt(o, T, g - Len(o))
        BY DEF Opening, Opens
      <4>2. PICK n \in Nat : n = Len(o) /\ n >= 4 /\ o[n] = "nl"
        BY WordsAre
      <4>3. T[g - n + n - 1] = o[n]
        BY <4>1, <4>2 DEF IsAt
      <4>4. g - n + n - 1 = g - 1
        BY <4>2
      <4> QED BY <3>1, <4>2, <4>3, <4>4 DEF AtLineStart
    <3> QED BY <3>1 DEF LineStart, AtLineStart
  <2>4. r < i + Len(w) - 1 /\ i \in 1 .. r
    BY <1>1, <1>4, <2>2
  <2>5. /\ T[r] # "cr"
        /\ r < i + 2 => ~ \E o \in Openings : IsAt(o, T, i - Len(o))
    BY <2>2, <2>3, <2>4 DEF BadCut
  <2>6. r = i \/ r = i + 1 \/ r = i + 2
    <3>1. r # i + 3 \/ e = i + 3
      BY <2>1, <2>5
    <3> QED BY <1>1, <1>4, <2>1, <2>4, <3>1
  <2>7. CASE r = i + 2
    <3>1. d + 3 <= r /\ r - 2 = i /\ r - 1 = i + 1
      BY <1>1, <1>4, <2>7
    <3>2. r - c >= 3
      BY <2>1, <2>7, <3>1 DEF HoldsEnough
    <3> QED BY <1>1, <2>7, <3>2
  <2>8. CASE r < i + 2
    <3>1. i # g
      BY <2>5, <2>8 DEF Opening, Opens
    <3>2. T[i - 1] = "nl" /\ i - 1 >= g
      BY <1>1, <3>1 DEF LineStart
    <3>3. CASE i = d + 1
      <4>1. T[d] = "nl" /\ g <= d /\ ClosingAt(T, d + 1, e)
        BY <1>1, <3>2, <3>3
      <4>2. r >= d + 3
        BY <4>1 DEF Awaits
      <4> QED BY <2>8, <3>3, <4>2
    <3>4. CASE i > d + 1 /\ r = i
      <4>1. d + 2 <= r /\ T[r - 1] = "nl" /\ T[r] = "tick"
        BY <1>1, <2>1, <3>2, <3>4
      <4>2. r - c >= 2
        BY <4>1 DEF HoldsEnough
      <4> QED BY <1>1, <3>4, <4>2
    <3>5. CASE i > d + 1 /\ r = i + 1
      <4>1. /\ d + 3 <= r /\ r - 2 = i - 1 /\ r - 1 = i
        BY <1>1, <3>5
      <4>2. r - c >= 3
        BY <2>1, <3>2, <3>5, <4>1 DEF HoldsEnough
      <4> QED BY <1>1, <3>5, <4>2
    <3> QED BY <1>1, <1>4, <2>6, <2>8, <3>3, <3>4, <3>5
  <2> QED BY <2>6, <2>7, <2>8
<1> QED BY <1>1, <1>2, <1>3, <1>4

LEMMA PassedAwaits ==
  ASSUME NEW T \in Seq(Units), NEW d \in Nat, NEW r \in Nat, d <= r, r <= Len(T),
         NEW g \in Nat, Awaits(T, g, d, r),
         NEW c \in Nat, d <= c, c <= r, HoldsEnough(T, d, r, r - c)
  PROVE  Awaits(T, g, c, r)
<1> SUFFICES ASSUME g <= c, T[c] = "nl", NEW e \in Nat, ClosingAt(T, c + 1, e),
                    r < c + 3
             PROVE  FALSE
  BY DEF Awaits
<1>1. CASE c = d
  BY <1>1 DEF Awaits
<1>2. CASE c # d
  <2>1. /\ T[c + 1] = "tick" /\ T[c + 2] = "tick"
    <3>1. c + 1 \in Nat /\ (c + 1) + 1 = c + 2
      OBVIOUS
    <3> QED BY <3>1, ClosingIs
  <2>2. CASE r = c
    <3>1. d + 1 <= r
      BY <1>2, <2>2
    <3>2. r - c >= 1
      BY <2>2, <3>1 DEF HoldsEnough
    <3> QED BY <2>2, <3>2
  <2>3. CASE r = c + 1
    <3>1. d + 2 <= r /\ r - 1 = c
      BY <1>2, <2>3
    <3>2. r - c >= 2
      BY <2>1, <2>3, <3>1 DEF HoldsEnough
    <3> QED BY <2>3, <3>2
  <2>4. CASE r = c + 2
    <3>1. d + 3 <= r /\ r - 2 = c /\ r - 1 = c + 1
      BY <1>2, <2>4
    <3>2. r - c >= 3
      BY <2>1, <2>4, <3>1 DEF HoldsEnough
    <3> QED BY <2>4, <3>2
  <2> QED BY <2>2, <2>3, <2>4
<1> QED BY <1>1, <1>2

-----------------------------------------------------------------------------
(* What push has made of a text T up to unit r, from place (a, start) on:  *)
(* its segments lead to place (c, f), its buffer holds the rest.  The open *)
(* block is `Ready` for more when nothing that it was passed is part of    *)
(* its closing line.                                                       *)
Inside(T, ok, c, f) ==
  f # 0 => f <= c + 1 /\ Opening(T, f) /\ (ok => Sound(T, f, c))

Ready(T, ok, c, f, r) ==
  f # 0 => /\ f <= c + 1 /\ Opening(T, f)
           /\ (ok => Clean(T, f, c)) /\ Awaits(T, f, c, r)

Led(T, ok, r, a, start, p, c, f) ==
  /\ c \in Nat /\ f \in Nat /\ c <= r
  /\ p.buffer = Slice(T, c + 1, r)
  /\ Covers(T, ok, p.segments, a, start, c, f)
  /\ p.inBlock \in BOOLEAN /\ (p.inBlock <=> f # 0)
  /\ p.snippets \in Nat /\ 4 * p.snippets <= c
  /\ p.start \in BOOLEAN

Parsed(T, ok, r, a, start, p, c, f) ==
  Led(T, ok, r, a, start, p, c, f) /\ Ready(T, ok, c, f, r)

Words(in)  == IF in THEN Closings ELSE Openings
NoFence(p) == Fences(p.buffer, Words(p.inBlock)) = {}

LEMMA ReadyInside ==
  ASSUME NEW T, NEW ok, NEW c \in Nat, NEW f \in Nat, NEW r, Ready(T, ok, c, f, r)
  PROVE  Inside(T, ok, c, f)
<1>1. Clean(T, f, c) => Sound(T, f, c)
  <2>1. \A i \in f .. c : \A e \in i .. c : e \in Nat
    OBVIOUS
  <2> QED BY <2>1 DEF Clean, Sound
<1> QED BY <1>1 DEF Ready, Inside

(* Where the first fence of a buffer is, and which words it has.           *)
FirstOf(u, in) == Min(Fences(u, Words(in)))
LineOf(u, in)  == CHOOSE w \in Words(in) : IsAt(w, u, FirstOf(u, in))

LEMMA FenceIsAt ==
  ASSUME NEW T \in Seq(Units), NEW r \in Nat, r <= Len(T), NEW c \in Nat, c <= r,
         NEW u, u = Slice(T, c + 1, r), NEW in \in BOOLEAN, Fences(u, Words(in)) # {},
         NEW fence, fence = FirstOf(u, in), NEW line, line = LineOf(u, in)
  PROVE  /\ fence \in Nat /\ fence >= 1 /\ line \in Words(in) /\ line \in Openings
         /\ Len(line) \in Nat /\ Len(line) >= 4
         /\ c + fence + Len(line) - 1 <= r
         /\ IsAt(line, T, c + fence)
         /\ \A j \in 1 .. fence - 1 : j \notin Fences(u, Words(in))
<1>1. u \in Seq(Units) /\ Len(u) = r - c
  <2>1. Stretch(T, c, r)
    BY DEF Stretch
  <2> QED BY <2>1, SliceIs DEF IsSlice
<1>2. /\ fence \in 1 .. Len(u)
      /\ \E w \in Words(in) : IsAt(w, u, fence)
      /\ \A j \in 1 .. fence - 1 : j \notin Fences(u, Words(in))
  BY <1>1, FirstFence DEF FirstOf
<1>3. line \in Words(in) /\ IsAt(line, u, fence)
  BY <1>2 DEF LineOf
<1>4. line \in Openings
  BY <1>3 DEF Words, Openings
<1>5. line \in Seq(Units) /\ Len(line) \in Nat /\ Len(line) >= 4
  BY <1>4, WordsAre
<1>6. fence \in Nat \ {0}
  BY <1>1, <1>2
<1>7. IsAt(line, T, c + fence) /\ c + fence + Len(line) - 1 <= r
  BY <1>3, <1>5, <1>6, IsAtInSlice
<1> QED BY <1>2, <1>3, <1>4, <1>5, <1>6, <1>7

LEMMA TurnMoves ==
  ASSUME NEW T \in Seq(Units), NEW ok \in BOOLEAN, NEW r \in Nat, r <= Len(T), NEW a, NEW start,
         NEW p, NEW c, NEW f, Parsed(T, ok, r, a, start, p, c, f), ~NoFence(p)
  PROVE  \E d, g \in Nat : d >= c + 4 /\ Parsed(T, ok, r, a, start, Turn(p), d, g)
<1>1. /\ c \in Nat /\ f \in Nat /\ c <= r /\ Len(T) \in Nat
      /\ p.inBlock \in BOOLEAN /\ (p.inBlock <=> f # 0)
      /\ p.snippets \in Nat /\ 4 * p.snippets <= c
  BY DEF Parsed, Led
<1>2. PICK u : u = Slice(T, c + 1, r) /\ u \in Seq(Units) /\ Len(u) = r - c
  <2>1. Stretch(T, c, r)
    BY <1>1 DEF Stretch
  <2> QED BY <1>1, <2>1, SliceIs DEF IsSlice
<1>3. p.buffer = u
  BY <1>2 DEF Parsed, Led
<1>4. PICK in \in BOOLEAN : in = p.inBlock
  BY <1>1
<1>5. PICK fence : fence = FirstOf(u, in)
  OBVIOUS
<1>6. PICK line : line = LineOf(u, in)
  OBVIOUS
<1>7. Fences(u, Words(in)) # {}
  BY <1>3, <1>4 DEF NoFence
<1>8. /\ fence \in Nat /\ fence >= 1 /\ line \in Words(in) /\ line \in Openings
      /\ Len(line) \in Nat /\ Len(line) >= 4
      /\ c + fence + Len(line) - 1 <= r
      /\ IsAt(line, T, c + fence)
      /\ \A j \in 1 .. fence - 1 : j \notin Fences(u, Words(in))
  <2>1. c \in Nat /\ c <= r /\ u = Slice(T, c + 1, r) /\ in \in BOOLEAN
    BY <1>1, <1>2
  <2> QED BY <1>5, <1>6, <1>7, <2>1, FenceIsAt
<1>9. PICK len \in Nat : len = Len(line) /\ len >= 4
  BY <1>8
<1>10. PICK b \in Nat, d \in Nat : b = c + fence - 1 /\ d = c + fence + len - 1
  <2>1. c + fence - 1 \in Nat /\ c + fence + len - 1 \in Nat
    BY <1>1, <1>8
  <2> QED BY <2>1
<1>11. b >= c /\ b <= d /\ d >= c + 4 /\ d <= r /\ d <= Len(T)
  BY <1>1, <1>8, <1>9, <1>10
<1>12. PICK before : before = Slice(u, 1, fence - 1)
  OBVIOUS
<1>13. before = Slice(T, c + 1, b) /\ (before = <<>> => b = c)
  <2>1. PICK n \in Nat : n = fence - 1 /\ n <= r - c /\ c + n = b
    <3>1. fence - 1 \in Nat /\ fence - 1 <= r - c /\ c + (fence - 1) = b
      BY <1>1, <1>8, <1>10, <1>11
    <3> QED BY <3>1
  <2>2. Slice(u, 1, n) = Slice(T, c + 1, c + n)
    BY <1>1, <1>2, <2>1, SliceCut
  <2>3. before = Slice(T, c + 1, b)
    BY <1>12, <2>1, <2>2
  <2>4. before = <<>> => b = c
    BY <1>1, <1>11, <2>3, SliceNone
  <2> QED BY <2>3, <2>4
<1>14. Slice(u, fence + len, Len(u)) = Slice(T, d + 1, r)
  <2>1. PICK n \in Nat : n = fence + len - 1 /\ n <= r - c /\ c + n = d /\ n + 1 = fence + len
    <3>1. /\ fence + len - 1 \in Nat /\ fence + len - 1 <= r - c
          /\ c + (fence + len - 1) = d /\ (fence + len - 1) + 1 = fence + len
      BY <1>1, <1>8, <1>9, <1>10, <1>11
    <3> QED BY <3>1
  <2>2. Slice(u, n + 1, Len(u)) = Slice(T, c + n + 1, r)
    BY <1>1, <1>2, <2>1, SliceCut
  <2> QED BY <2>1, <2>2
<1>15. Covers(T, ok, p.segments, a, start, c, f)
  BY DEF Parsed, Led
<1>16. CASE in
  <2>1. PICK q : q = Turn(p)
    OBVIOUS
  <2>2. PICK some : some = p.segments \o NonEmpty(Chunk(before))
    OBVIOUS
  <2>3. /\ q.segments = Append(some, EndMark)
        /\ q.buffer = Slice(u, fence + len, Len(u))
        /\ q.inBlock = FALSE /\ q.snippets = p.snippets /\ q.start = FALSE
    <3>1. Words(in) = Closings /\ p.inBlock
      BY <1>4, <1>16 DEF Words
    <3> QED BY <1>3, <1>5, <1>6, <1>7, <1>9, <1>12, <2>1, <2>2, <3>1 DEF Turn, FirstOf, LineOf
  <2>4. f # 0 /\ f <= c + 1 /\ (ok => Clean(T, f, c))
    BY <1>1, <1>4, <1>16 DEF Parsed, Ready
  <2>5. ASSUME ok
        PROVE  Sound(T, f, b)
    <3>1. PICK n \in Nat : n = fence - 1 /\ n <= r - c /\ c + n = b
      <4>1. fence - 1 \in Nat /\ fence - 1 <= r - c /\ c + (fence - 1) = b
        BY <1>1, <1>8, <1>10, <1>11
      <4> QED BY <4>1
    <3>2. \A j \in 1 .. n : j \notin Fences(Slice(T, c + 1, r), Closings)
      BY <1>2, <1>8, <1>16, <3>1 DEF Words
    <3>3. Clean(T, f, c)
      BY <2>4, <2>5
    <3>4. Sound(T, f, c + n)
      BY <1>1, <2>4, <3>1, <3>2, <3>3, PassedIsSound
    <3> QED BY <3>1, <3>4
  <2>6. Covers(T, ok, some, a, start, b, f)
    <3>1. PICK x : x = Chunk(before)
      OBVIOUS
    <3>2. x.type = "artifact-chunk" /\ x.text = before
      BY <3>1 DEF Chunk
    <3>3. Moves(T, ok, x, c, f, b, f)
      <4>1. c <= b /\ b <= Len(T)
        BY <1>1, <1>11
      <4> QED BY <1>13, <2>4, <2>5, <3>2, <4>1 DEF Moves
    <3> QED BY <1>1, <1>13, <1>15, <2>2, <3>1, <3>2, <3>3, CoversMaybe
  <2>7. Covers(T, ok, q.segments, a, start, d, 0)
    <3>1. PICK x : x = EndMark
      OBVIOUS
    <3>2. x.type = "artifact-end"
      BY <3>1 DEF EndMark
    <3>3. Moves(T, ok, x, b, f, d, 0)
      BY <1>11, <2>4, <3>2 DEF Moves
    <3> QED BY <2>3, <2>6, <3>1, <3>3, CoversMore
  <2>8. Parsed(T, ok, r, a, start, q, d, 0)
    <3>1. q.buffer = Slice(T, d + 1, r) /\ Ready(T, ok, d, 0, r)
      BY <1>14, <2>3 DEF Ready
    <3>2. q.inBlock \in BOOLEAN /\ (q.inBlock <=> 0 # 0) /\ q.start \in BOOLEAN
      BY <2>3
    <3>3. q.snippets \in Nat /\ 4 * q.snippets <= d
      BY <1>1, <1>11, <2>3
    <3> QED BY <1>11, <2>7, <3>1, <3>2, <3>3 DEF Parsed, Led
  <2> QED BY <1>11, <2>1, <2>8
<1>17. CASE ~in
  <2>1. PICK q : q = Turn(p)
    OBVIOUS
  <2>2. PICK some : some = p.segments \o NonEmpty(Prose(before))
    OBVIOUS
  <2>3. PICK file, number :
          /\ file = IF line \in Closings THEN number ELSE Named
          /\ number = IF line \in Closings THEN p.snippets + 1 ELSE p.snippets
    OBVIOUS
  <2>4. /\ q.segments = Append(some, Start(file))
        /\ q.buffer = Slice(u, fence + len, Len(u))
        /\ q.inBlock = TRUE /\ q.snippets = number /\ q.start = FALSE
    <3>1. Words(in) = Openings /\ ~p.inBlock
      BY <1>4, <1>17 DEF Words
    <3> QED BY <1>3, <1>5, <1>6, <1>7, <1>9, <1>12, <2>1, <2>2, <2>3, <3>1 DEF Turn, FirstOf, LineOf
  <2>5. f = 0
    BY <1>1, <1>4, <1>17
  <2>6. Covers(T, ok, some, a, start, b, 0)
    <3>1. PICK x : x = Prose(before)
      OBVIOUS
    <3>2. x.type = "prose" /\ x.text = before
      BY <3>1 DEF Prose
    <3>3. Moves(T, ok, x, c, f, b, 0)
      BY <1>1, <1>11, <2>5, <3>2 DEF Moves
    <3> QED BY <1>1, <1>13, <1>15, <2>2, <2>5, <3>1, <3>2, <3>3, CoversMaybe
  <2>7. PICK g \in Nat : g = d + 1 /\ g # 0
    OBVIOUS
  <2>8. Opens(T, g, line)
    <3>1. g - len = c + fence
      BY <1>1, <1>8, <1>10, <2>7
    <3> QED BY <1>8, <1>9, <3>1 DEF Opens
  <2>9. number \in Nat /\ 4 * number <= d
    <3>1. number = p.snippets + 1 \/ number = p.snippets
      BY <2>3
    <3> QED BY <1>1, <1>11, <3>1
  <2>10. OpensFile(T, file, g)
    <3>1. file = Named <=> line \notin Closings
      BY <2>3, <2>9, ArtifactStreamAssumption
    <3> QED BY <1>8, <2>8, <3>1 DEF OpensFile
  <2>11. FileFits(file, d)
    <3>1. file = Named \/ (file = number /\ number = p.snippets + 1)
      BY <2>3
    <3>2. CASE number = p.snippets + 1
      <4>1. number # 0
        BY <1>1, <3>2
      <4> QED BY <2>9, <3>1, <4>1 DEF FileFits
    <3> QED BY <3>1, <3>2 DEF FileFits
  <2>12. Covers(T, ok, q.segments, a, start, d, g)
    <3>1. PICK x : x = Start(file)
      OBVIOUS
    <3>2. x.type = "artifact-start" /\ x.file = file
      BY <3>1 DEF Start
    <3>3. Moves(T, ok, x, b, 0, d, g)
      BY <1>11, <2>7, <2>10, <2>11, <3>2 DEF Moves
    <3> QED BY <2>4, <2>6, <3>1, <3>3, CoversMore
  <2>13. Ready(T, ok, d, g, r)
    <3>1. g .. d = {} /\ ~(g <= d)
      BY <2>7
    <3>2. Clean(T, g, d) /\ Awaits(T, g, d, r)
      BY <3>1 DEF Clean, Awaits
    <3>3. Opening(T, g)
      BY <1>8, <2>8 DEF Opening
    <3> QED BY <2>7, <3>2, <3>3 DEF Ready
  <2>14. Parsed(T, ok, r, a, start, q, d, g)
    <3>1. q.buffer = Slice(T, d + 1, r)
      BY <1>14, <2>4
    <3>2. q.inBlock \in BOOLEAN /\ (q.inBlock <=> g # 0) /\ q.start \in BOOLEAN
      BY <2>4, <2>7
    <3>3. q.snippets \in Nat /\ 4 * q.snippets <= d
      BY <2>4, <2>9
    <3> QED BY <1>11, <2>12, <2>13, <3>1, <3>2, <3>3 DEF Parsed, Led
  <2> QED BY <1>11, <2>1, <2>7, <2>14
<1> QED BY <1>16, <1>17
-----------------------------------------------------------------------------
(* The turns of a push, as a function of what it starts with.              *)
IsTurns(turn, p, N) ==
  turn = [n \in 0 .. N |-> IF n = 0 THEN p ELSE Turn(turn[n - 1])]
TheTurns(p, N) == CHOOSE turn : IsTurns(turn, p, N)

LEMMA TurnsExist ==
  ASSUME NEW p, NEW N \in Nat
  PROVE  IsTurns(TheTurns(p, N), p, N)
<1> DEFINE Bad == {k \in Nat : ~ \E turn : IsTurns(turn, p, k)}
<1>1. Bad = {}
  <2> SUFFICES ASSUME Bad # {} PROVE FALSE
    OBVIOUS
  <2>1. PICK k \in Bad : \A i \in Bad : k <= i
    <3>1. Bad \subseteq Nat
      OBVIOUS
    <3> HIDE DEF Bad
    <3> QED BY <3>1, LeastNumber
  <2>2. k # 0
    <3>1. PICK f : f = [n \in 0 .. 0 |-> p]
      OBVIOUS
    <3>2. IsTurns(f, p, 0)
      <4>1. [n \in 0 .. 0 |-> p] = [n \in 0 .. 0 |-> IF n = 0 THEN p ELSE Turn(f[n - 1])]
        OBVIOUS
      <4> QED BY <3>1, <4>1 DEF IsTurns
    <3> QED BY <3>2
  <2>3. PICK j \in Nat : k = j + 1 /\ j \notin Bad
    <3>1. k - 1 \in Nat /\ k = (k - 1) + 1
      BY <2>2
    <3>2. ~(k <= k - 1)
      OBVIOUS
    <3>3. k - 1 \notin Bad
      <4> HIDE DEF Bad
      <4> QED BY <2>1, <3>2
    <3> QED BY <3>1, <3>3
  <2>4. PICK f : IsTurns(f, p, j)
    BY <2>3
  <2>5. PICK g : g = [n \in 0 .. k |-> IF n = k THEN Turn(f[j]) ELSE f[n]]
    OBVIOUS
  <2>6. ASSUME NEW n \in 0 .. k
        PROVE  g[n] = IF n = 0 THEN p ELSE Turn(g[n - 1])
    <3>1. CASE n = 0
      <4>1. 0 \in 0 .. j /\ f[0] = p
        BY <2>4 DEF IsTurns
      <4> QED BY <2>3, <2>5, <3>1, <4>1
    <3>2. CASE n # 0
      <4>1. n - 1 \in 0 .. j /\ g[n - 1] = f[n - 1]
        BY <2>3, <2>5, <3>2
      <4>2. CASE n = k
        <5>1. n - 1 = j
          BY <2>3, <4>2
        <5> QED BY <2>5, <3>2, <4>1, <4>2, <5>1
      <4>3. CASE n # k
        <5>1. n \in 0 .. j /\ g[n] = f[n]
          BY <2>3, <2>5, <4>3
        <5>2. f[n] = IF n = 0 THEN p ELSE Turn(f[n - 1])
          BY <2>4, <5>1 DEF IsTurns
        <5> QED BY <3>2, <4>1, <5>1, <5>2
      <4> QED BY <4>2, <4>3
    <3> QED BY <3>1, <3>2
  <2>7. IsTurns(g, p, k)
    BY <2>5, <2>6 DEF IsTurns
  <2> QED BY <2>1, <2>7
<1>2. PICK turn : IsTurns(turn, p, N)
  BY <1>1
<1> QED BY <1>2 DEF TheTurns

LEMMA TurnsUnfold ==
  ASSUME NEW p, NEW N \in Nat, NEW turn, IsTurns(turn, p, N)
  PROVE  /\ turn[0] = p
         /\ \A n \in 1 .. N : turn[n] = Turn(turn[n - 1])
BY DEF IsTurns

(* After enough turns, of four units at least, no fence is left.           *)
LEMMA TurnsLead ==
  ASSUME NEW T \in Seq(Units), NEW ok \in BOOLEAN, NEW r \in Nat, r <= Len(T),
         NEW a \in Nat, NEW start, NEW p, Parsed(T, ok, r, a, start, p, a, start),
         NEW N \in Nat, r - a <= 4 * N + 3
  PROVE  \E d, g \in Nat : /\ Parsed(T, ok, r, a, start, TheTurns(p, N)[N], d, g)
                           /\ NoFence(TheTurns(p, N)[N])
<1>1. PICK turn : turn = TheTurns(p, N) /\ IsTurns(turn, p, N)
  BY TurnsExist
<1>2. /\ turn[0] = p
      /\ \A n \in 1 .. N : turn[n] = Turn(turn[n - 1])
  <2>1. IsTurns(turn, p, N)
    BY <1>1
  <2> QED BY <2>1, TurnsUnfold
<1> DEFINE Leads(n) == \E d, g \in Nat : /\ Parsed(T, ok, r, a, start, turn[n], d, g)
                                         /\ NoFence(turn[n]) \/ d >= a + 4 * n
           Bad == {n \in 0 .. N : ~Leads(n)}
<1>3. Leads(0)
  <2>1. Parsed(T, ok, r, a, start, turn[0], a, start) /\ a >= a + 4 * 0
    BY <1>2
  <2>2. start \in Nat
    BY DEF Parsed, Led
  <2> QED BY <2>1, <2>2
<1>4. ASSUME NEW n \in 1 .. N, Leads(n - 1)
      PROVE  Leads(n)
  <2>1. PICK d \in Nat, g \in Nat :
               /\ Parsed(T, ok, r, a, start, turn[n - 1], d, g)
               /\ NoFence(turn[n - 1]) \/ d >= a + 4 * (n - 1)
    BY <1>4
  <2>2. turn[n] = Turn(turn[n - 1])
    BY <1>2
  <2>3. CASE NoFence(turn[n - 1])
    <3>1. turn[n] = turn[n - 1]
      BY <2>2, <2>3 DEF Turn, NoFence, Words
    <3> QED BY <2>1, <2>3, <3>1
  <2>4. CASE ~NoFence(turn[n - 1])
    <3>1. PICK e \in Nat, h \in Nat :
             e >= d + 4 /\ Parsed(T, ok, r, a, start, Turn(turn[n - 1]), e, h)
      BY <2>1, <2>4, TurnMoves
    <3>2. e >= a + 4 * n
      BY <2>1, <2>4, <3>1
    <3> QED BY <2>2, <3>1, <3>2
  <2> QED BY <2>3, <2>4
<1>5. Leads(N)
  <2> HIDE DEF Leads
  <2> SUFFICES ASSUME Bad # {} PROVE FALSE
    OBVIOUS
  <2>1. PICK n \in Bad : \A i \in Bad : n <= i
    <3>1. Bad \subseteq Nat
      OBVIOUS
    <3> HIDE DEF Bad
    <3> QED BY <3>1, LeastNumber
  <2>2. n # 0
    BY <1>3
  <2>3. n \in 1 .. N /\ n - 1 \in 0 .. N /\ ~(n <= n - 1)
    BY <2>2
  <2>4. n - 1 \notin Bad
    <3> HIDE DEF Bad
    <3> QED BY <2>1, <2>3
  <2> QED BY <1>4, <2>3, <2>4
<1>6. PICK d \in Nat, g \in Nat : /\ Parsed(T, ok, r, a, start, turn[N], d, g)
                                  /\ NoFence(turn[N]) \/ d >= a + 4 * N
  BY <1>5
<1>7. CASE d >= a + 4 * N
  <2>1. d <= r /\ r - d <= 3
    BY <1>6, <1>7 DEF Parsed, Led
  <2>2. PICK u : u = Slice(T, d + 1, r) /\ u \in Seq(Units) /\ Len(u) <= 3
    <3>1. Stretch(T, d, r)
      BY <2>1 DEF Stretch
    <3> QED BY <2>1, <3>1, SliceIs DEF IsSlice
  <2>3. turn[N].buffer = u
    BY <1>6, <2>2 DEF Parsed, Led
  <2>4. Words(turn[N].inBlock) \subseteq Openings
    BY DEF Words, Openings
  <2>5. NoFence(turn[N])
    BY <2>2, <2>3, <2>4, NoRoom DEF NoFence
  <2> QED BY <1>1, <1>6, <2>5
<1> QED BY <1>1, <1>6, <1>7

(* What is held back: an end of the text, and in a block three units at    *)
(* most.                                                                   *)
LEMMA EndIs ==
  ASSUME NEW u \in Seq(Units), NEW w \in Seq(Units)
  PROVE  EndsWith(u, w) <=> /\ Len(w) <= Len(u)
                            /\ \A k \in 1 .. Len(w) : u[Len(u) - Len(w) + k] = w[k]
<1>1. PICK l \in Nat, n \in Nat : l = Len(u) /\ n = Len(w)
  OBVIOUS
<1>2. \A k \in 1 .. n : l + 1 - n + k - 1 = l - n + k
  OBVIOUS
<1>3. l + 1 - n \in 1 .. l + 1 - n <=> n <= l
  OBVIOUS
<1> QED BY <1>1, <1>2, <1>3 DEF EndsWith, IsAt

LEMMA TailIs ==
  ASSUME NEW u \in Seq(Units), NEW m \in Seq(Units), m # <<>>
  PROVE  /\ SuspiciousTail(u, m) \in 0 .. Len(m) - 1
         /\ SuspiciousTail(u, m) <= Len(u)
         /\ \A n \in 0 .. Len(m) - 1 :
              /\ n <= Len(u)
              /\ \A k \in 1 .. n : u[Len(u) - n + k] = m[k]
              => SuspiciousTail(u, m) >= n
<1>1. PICK S : S = {n \in 0 .. Len(m) - 1 : EndsWith(u, Slice(m, 1, n))}
  OBVIOUS
<1>2. PICK last \in Nat : last = Len(m) - 1
  OBVIOUS
<1>3. ASSUME NEW n \in 0 .. last
      PROVE  n \in S <=> n <= Len(u) /\ \A k \in 1 .. n : u[Len(u) - n + k] = m[k]
  <2>1. PICK none \in Nat : none = 0
    OBVIOUS
  <2>2. Stretch(m, none, n)
    BY <1>2, <2>1 DEF Stretch
  <2>3. IsSlice(Slice(m, none + 1, n), m, none, n)
    BY <2>1, <2>2, SliceIs
  <2>4. PICK w : w = Slice(m, 1, n) /\ w \in Seq(Units) /\ Len(w) = n
                 /\ \A k \in 1 .. n : w[k] = m[k]
    BY <2>1, <2>3 DEF IsSlice
  <2>5. EndsWith(u, w) <=> n <= Len(u) /\ \A k \in 1 .. n : u[Len(u) - n + k] = w[k]
    <3>1. w \in Seq(Units) /\ Len(w) = n
      BY <2>4
    <3>2. EndsWith(u, w) <=> /\ Len(w) <= Len(u)
                             /\ \A k \in 1 .. Len(w) : u[Len(u) - Len(w) + k] = w[k]
      BY <3>1, EndIs
    <3> QED BY <3>1, <3>2, Zenon
  <2> QED BY <1>1, <1>2, <2>4, <2>5
<1>4. S \subseteq 0 .. last
  BY <1>1, <1>2
<1>5. 0 \in S
  <2>1. PICK n \in 0 .. last : n = 0
    BY <1>2
  <2>2. n <= Len(u) /\ 1 .. n = {}
    BY <2>1
  <2> QED BY <1>3, <2>1, <2>2
<1>6. Max(S) \in S /\ \A y \in S : Max(S) >= y
  BY <1>4, <1>5, MaxIs
<1>7. SuspiciousTail(u, m) = Max(S)
  BY <1>1 DEF SuspiciousTail
<1> QED BY <1>2, <1>3, <1>4, <1>6, <1>7

LEMMA PendingIs ==
  ASSUME NEW u \in Seq(Units)
  PROVE  PendingHeader(u) \in 0 .. Len(u)
<1>1. PICK l \in Nat : l = Len(u)
  OBVIOUS
<1>2. PICK S : S = {0} \cup {Len(h) : h \in {w \in {Ticks, Append(Ticks, "name")} :
                                /\ EndsWith(u, w)
                                /\ AtLineStart(u, Len(u) + 1 - Len(w))}}
  OBVIOUS
<1>3. ASSUME NEW w \in {Ticks, Append(Ticks, "name")}, EndsWith(u, w)
      PROVE  Len(w) \in 0 .. l
  <2>1. w \in Seq(Units)
    <3>1. <<"tick", "tick", "tick">> \in Seq(Units) /\ "name" \in Units
      BY DEF Units
    <3>2. Append(Ticks, "name") \in Seq(Units)
      BY <3>1, AppendProperties DEF Ticks
    <3> QED BY <3>1, <3>2 DEF Ticks
  <2>2. Len(w) \in Nat /\ Len(w) <= l
    BY <1>1, <1>3, <2>1, EndIs
  <2> QED BY <2>2
<1>4. S \subseteq 0 .. l /\ S # {}
  <2>1. 0 \in 0 .. l
    OBVIOUS
  <2> QED BY <1>2, <1>3, <2>1, Zenon
<1>5. PendingHeader(u) = Max(S)
  BY <1>2 DEF PendingHeader
<1> QED BY <1>1, <1>4, <1>5, MaxIs

LEMMA HeldBackHolds ==
  ASSUME NEW T \in Seq(Units), NEW d \in Nat, NEW r \in Nat, d <= r, r <= Len(T),
         NEW u, u = Slice(T, d + 1, r), NEW in \in BOOLEAN, NEW start \in BOOLEAN,
         NEW held, held = HeldBack(u, in, start)
  PROVE  /\ held \in 0 .. Len(u)
         /\ in => held <= 3 /\ HoldsEnough(T, d, r, held)
<1>1. u \in Seq(Units) /\ Len(u) = r - d /\ \A j \in 1 .. r - d : u[j] = T[d + j]
  <2>1. Stretch(T, d, r)
    BY DEF Stretch
  <2> QED BY <2>1, SliceIs DEF IsSlice
<1>2. PICK l \in Nat : l = Len(u) /\ l = r - d
  BY <1>1
<1>3. PICK m : m = <<"nl">> \o Ticks
  OBVIOUS
<1>4. /\ <<"nl">> \in Seq(Units) /\ <<"tick", "tick", "tick">> \in Seq(Units)
      /\ Len(<<"nl">>) = 1 /\ Len(<<"tick", "tick", "tick">>) = 3
  BY DEF Units
<1>5. /\ m \in Seq(Units) /\ Len(m) = 4 /\ m # <<>>
      /\ m[1] = "nl" /\ m[2] = "tick" /\ m[3] = "tick"
  <2>1. /\ m \in Seq(Units) /\ Len(m) = 1 + 3
        /\ \A i \in 1 .. 1 + 3 : m[i] = IF i <= 1 THEN <<"nl">>[i]
                                         ELSE <<"tick", "tick", "tick">>[i - 1]
    BY <1>3, <1>4, ConcatProperties DEF Ticks
  <2>2. 1 \in 1 .. 1 + 3 /\ 2 \in 1 .. 1 + 3 /\ 3 \in 1 .. 1 + 3 /\ 1 + 3 = 4
    OBVIOUS
  <2>3. m[1] = <<"nl">>[1]
    BY <2>1, <2>2
  <2>4. m[2] = <<"tick", "tick", "tick">>[1]
    BY <2>1, <2>2
  <2>5. m[3] = <<"tick", "tick", "tick">>[2]
    BY <2>1, <2>2
  <2>6. m \in Seq(Units) /\ Len(m) = 4
    BY <2>1, <2>2
  <2>7. m # <<>>
    <3>1. Len(<<>>) = 0
      OBVIOUS
    <3>2. Len(m) # 0
      BY <2>6
    <3> QED BY <3>1, <3>2
  <2> QED BY <2>3, <2>4, <2>5, <2>6, <2>7
<1>6. /\ Ticks \in Seq(Units) /\ Len(Ticks) = 3 /\ Ticks # <<>>
      /\ Ticks[1] = "tick" /\ Ticks[2] = "tick" /\ Ticks[3] = "tick"
  BY DEF Ticks, Units
<1>7. PICK x : x = SuspiciousTail(u, m)
  OBVIOUS
<1>8. /\ x \in 0 .. 3 /\ x <= l
      /\ \A n \in 0 .. 3 : n <= l /\ (\A k \in 1 .. n : u[l - n + k] = m[k]) => x >= n
  <2>1. Len(m) - 1 = 3
    BY <1>5
  <2>2. /\ x \in 0 .. Len(m) - 1 /\ x <= Len(u)
        /\ \A n \in 0 .. Len(m) - 1 :
             /\ n <= Len(u)
             /\ \A k \in 1 .. n : u[Len(u) - n + k] = m[k]
             => x >= n
    BY <1>1, <1>5, <1>7, TailIs
  <2> QED BY <1>2, <2>1, <2>2, Zenon
<1>9. PICK y : y = IF in THEN IF EndsWith(u, Ticks) THEN 3 ELSE 0 ELSE PendingHeader(u)
  OBVIOUS
<1>10. EndsWith(u, Ticks) <=> 3 <= l /\ \A k \in 1 .. 3 : u[l - 3 + k] = Ticks[k]
  <2>1. EndsWith(u, Ticks) <=> /\ Len(Ticks) <= Len(u)
                               /\ \A k \in 1 .. Len(Ticks) : u[Len(u) - Len(Ticks) + k] = Ticks[k]
    BY <1>1, <1>6, EndIs
  <2> QED BY <1>2, <1>6, <2>1, Zenon
<1>11. y \in 0 .. l /\ (in => y <= 3)
  <2>1. CASE in
    BY <1>9, <1>10, <2>1
  <2>2. CASE ~in
    BY <1>1, <1>2, <1>9, <2>2, PendingIs
  <2> QED BY <2>1, <2>2
<1>12. PICK z : z = IF ~in /\ start THEN SuspiciousTail(u, Ticks) ELSE 0
  OBVIOUS
<1>13. z \in 0 .. l /\ (in => z = 0)
  <2>1. SuspiciousTail(u, Ticks) \in 0 .. l
    BY <1>1, <1>2, <1>6, TailIs
  <2> QED BY <1>12, <2>1
<1>14. held = Max({x, y, z})
  BY <1>3, <1>7, <1>9, <1>12 DEF HeldBack
<1>15. held \in {x, y, z} /\ held >= x /\ held >= y
  <2>1. {x, y, z} \subseteq 0 .. l /\ {x, y, z} # {}
    BY <1>8, <1>11, <1>13
  <2> QED BY <1>14, <2>1, MaxIs
<1>16. ASSUME in
       PROVE  HoldsEnough(T, d, r, held)
  <2>1. \A j \in 1 .. l : u[j] = T[d + j]
    BY <1>1, <1>2
  <2>2. d + l = r /\ (l >= 1 => u[l] = T[r])
    BY <1>2, <2>1
  <2>3. l >= 2 => u[l - 1] = T[r - 1]
    <3>1. l >= 2 => l - 1 \in 1 .. l
      OBVIOUS
    <3>2. d + (l - 1) = r - 1
      BY <1>2
    <3> QED BY <2>1, <3>1, <3>2
  <2>4. l >= 3 => u[l - 2] = T[r - 2]
    <3>1. l >= 3 => l - 2 \in 1 .. l
      OBVIOUS
    <3>2. d + (l - 2) = r - 2
      BY <1>2
    <3> QED BY <2>1, <3>1, <3>2
  <2>5. l >= 1 /\ T[r] = "nl" => x >= 1
    <3> SUFFICES ASSUME l >= 1, T[r] = "nl" PROVE x >= 1
      OBVIOUS
    <3>1. \A k \in 1 .. 1 : k = 1 /\ l - 1 + k = l
      OBVIOUS
    <3>2. \A k \in 1 .. 1 : u[l - 1 + k] = m[k]
      BY <1>5, <2>2, <3>1
    <3> QED BY <1>8, <3>2
  <2>6. l >= 2 /\ T[r - 1] = "nl" /\ T[r] = "tick" => x >= 2
    <3> SUFFICES ASSUME l >= 2, T[r - 1] = "nl", T[r] = "tick" PROVE x >= 2
      OBVIOUS
    <3>1. \A k \in 1 .. 2 : \/ k = 1 /\ l - 2 + k = l - 1
                            \/ k = 2 /\ l - 2 + k = l
      OBVIOUS
    <3>2. \A k \in 1 .. 2 : u[l - 2 + k] = m[k]
      BY <1>5, <2>2, <2>3, <3>1
    <3> QED BY <1>8, <3>2
  <2>7. l >= 3 /\ T[r - 2] = "nl" /\ T[r - 1] = "tick" /\ T[r] = "tick" => x >= 3
    <3> SUFFICES ASSUME l >= 3, T[r - 2] = "nl", T[r - 1] = "tick", T[r] = "tick"
                 PROVE  x >= 3
      OBVIOUS
    <3>1. \A k \in 1 .. 3 : \/ k = 1 /\ l - 3 + k = l - 2
                            \/ k = 2 /\ l - 3 + k = l - 1
                            \/ k = 3 /\ l - 3 + k = l
      OBVIOUS
    <3>2. \A k \in 1 .. 3 : u[l - 3 + k] = m[k]
      BY <1>5, <2>2, <2>3, <2>4, <3>1
    <3> QED BY <1>8, <3>2
  <2>8. l >= 3 /\ T[r - 2] = "tick" /\ T[r - 1] = "tick" /\ T[r] = "tick" => y >= 3
    <3> SUFFICES ASSUME l >= 3, T[r - 2] = "tick", T[r - 1] = "tick", T[r] = "tick"
                 PROVE  y >= 3
      OBVIOUS
    <3>1. \A k \in 1 .. 3 : \/ k = 1 /\ l - 3 + k = l - 2
                            \/ k = 2 /\ l - 3 + k = l - 1
                            \/ k = 3 /\ l - 3 + k = l
      OBVIOUS
    <3>2. \A k \in 1 .. 3 : u[l - 3 + k] = Ticks[k]
      BY <1>6, <2>2, <2>3, <2>4, <3>1
    <3>3. EndsWith(u, Ticks)
      BY <1>10, <3>2
    <3> QED BY <1>9, <1>16, <3>3
  <2>9. /\ d + 1 <= r => l >= 1
        /\ d + 2 <= r => l >= 2
        /\ d + 3 <= r => l >= 3
    BY <1>2
  <2>10. held \in Nat /\ x \in Nat /\ y \in Nat
    BY <1>8, <1>11, <1>13, <1>15
  <2> QED BY <1>15, <2>5, <2>6, <2>7, <2>8, <2>9, <2>10 DEF HoldsEnough
<1>17. held \in 0 .. l /\ (in => held <= 3)
  BY <1>8, <1>11, <1>13, <1>15
<1> QED BY <1>2, <1>16, <1>17
-----------------------------------------------------------------------------
(* What is held back can still belong to a fence; what is passed on cannot *)
(* unless the cut is a bad one.                                            *)
LEMMA LastTurnLeads ==
  ASSUME NEW T \in Seq(Units), NEW ok \in BOOLEAN, NEW r \in Nat, r <= Len(T), NEW a, NEW start,
         NEW p, NEW d, NEW g, Parsed(T, ok, r, a, start, p, d, g), NoFence(p),
         NEW q, q = LastTurn(p)
  PROVE  \E c \in Nat : /\ Led(T, ok, r, a, start, q, c, g)
                        /\ Ready(T, ok /\ ~(q.inBlock /\ BadCut(T, r)), c, g, r)
                        /\ q.inBlock => r - c <= 3
<1>1. /\ d \in Nat /\ g \in Nat /\ d <= r /\ Len(T) \in Nat
      /\ p.inBlock \in BOOLEAN /\ (p.inBlock <=> g # 0)
      /\ Covers(T, ok, p.segments, a, start, d, g)
      /\ p.snippets \in Nat /\ 4 * p.snippets <= d /\ p.start \in BOOLEAN
  BY DEF Parsed, Led
<1>2. PICK u : u = Slice(T, d + 1, r) /\ u \in Seq(Units) /\ Len(u) = r - d
  <2>1. Stretch(T, d, r)
    BY <1>1 DEF Stretch
  <2> QED BY <1>1, <2>1, SliceIs DEF IsSlice
<1>3. p.buffer = u
  BY <1>2 DEF Parsed, Led
<1>4. PICK held : held = HeldBack(u, p.inBlock, p.start)
  OBVIOUS
<1>5. /\ held \in 0 .. Len(u)
      /\ p.inBlock => held <= 3 /\ HoldsEnough(T, d, r, held)
  BY <1>1, <1>2, <1>4, HeldBackHolds
<1>6. PICK n \in Nat : n = Len(u) - held /\ n <= r - d /\ held = (r - d) - n
  <2>1. PICK len \in Nat : len = Len(u) /\ len = r - d /\ held \in 0 .. len
    BY <1>1, <1>2, <1>5
  <2>2. len - held \in Nat /\ len - held <= len /\ held = len - (len - held)
    BY <2>1
  <2> QED BY <2>1, <2>2
<1>7. PICK c \in Nat : c = d + n /\ c <= r /\ d <= c /\ c <= Len(T) /\ held = r - c
  <2>1. d + n \in Nat /\ d + n <= r /\ d <= d + n /\ d + n <= Len(T) /\ held = r - (d + n)
    BY <1>1, <1>6
  <2> QED BY <2>1
<1>8. PICK passed : passed = Slice(u, 1, n) /\ passed = Slice(T, d + 1, c)
                    /\ Slice(u, n + 1, Len(u)) = Slice(T, c + 1, r)
  <2>1. d <= r /\ u = Slice(T, d + 1, r) /\ n <= r - d
    BY <1>1, <1>2, <1>6
  <2>2. Slice(u, 1, n) = Slice(T, d + 1, d + n)
    BY <1>1, <2>1, SliceCut
  <2>3. Slice(u, n + 1, Len(u)) = Slice(T, d + n + 1, r)
    BY <1>1, <2>1, SliceCut
  <2> QED BY <1>7, <2>2, <2>3
<1>9. passed = <<>> => c = d
  BY <1>1, <1>7, <1>8, SliceNone
<1>10. PICK x : x = IF p.inBlock THEN Chunk(passed) ELSE Prose(passed)
  OBVIOUS
<1>11. /\ q.segments = p.segments \o NonEmpty(x)
       /\ q.buffer = Slice(T, c + 1, r)
       /\ q.inBlock = p.inBlock /\ q.snippets = p.snippets
       /\ q.start = (p.start /\ (p.inBlock \/ passed = <<>>))
  BY <1>3, <1>4, <1>6, <1>8, <1>10 DEF LastTurn
<1>12. x.text = passed
  BY <1>10 DEF Chunk, Prose
<1>13. ASSUME Moves(T, ok, x, d, g, c, g)
       PROVE  Led(T, ok, r, a, start, q, c, g)
  <2>1. Covers(T, ok, q.segments, a, start, c, g)
    BY <1>1, <1>9, <1>11, <1>12, <1>13, CoversMaybe
  <2>2. q.snippets \in Nat /\ 4 * q.snippets <= c
    BY <1>1, <1>7, <1>11
  <2>3. q.inBlock \in BOOLEAN /\ (q.inBlock <=> g # 0) /\ q.start \in BOOLEAN
    BY <1>1, <1>11
  <2> QED BY <1>1, <1>7, <1>11, <2>1, <2>2, <2>3 DEF Led
<1>14. CASE p.inBlock
  <2>1. /\ g # 0 /\ g <= d + 1 /\ Opening(T, g)
        /\ (ok => Clean(T, g, d)) /\ Awaits(T, g, d, r)
    BY <1>1, <1>14 DEF Parsed, Ready
  <2>2. Fences(Slice(T, d + 1, r), Closings) = {}
    BY <1>2, <1>3, <1>14 DEF NoFence, Words
  <2>3. ASSUME ok, NEW k \in Nat, k <= r - d
        PROVE  Sound(T, g, d + k)
    <3>1. \A j \in 1 .. k : j \notin Fences(Slice(T, d + 1, r), Closings)
      BY <2>2
    <3>2. Clean(T, g, d)
      BY <2>1, <2>3
    <3> QED BY <1>1, <2>1, <2>3, <3>1, <3>2, PassedIsSound
  <2>4. ok => Sound(T, g, c)
    BY <1>6, <1>7, <2>3
  <2>5. ok => Sound(T, g, r)
    <3>1. r - d \in Nat /\ r - d <= r - d /\ d + (r - d) = r
      BY <1>1
    <3> QED BY <2>3, <3>1
  <2>6. HoldsEnough(T, d, r, r - c)
    BY <1>5, <1>7, <1>14
  <2>7. Moves(T, ok, x, d, g, c, g)
    <3>1. x.type = "artifact-chunk"
      BY <1>10, <1>14 DEF Chunk
    <3> QED BY <1>7, <1>8, <1>12, <2>1, <2>4, <3>1 DEF Moves
  <2>8. Awaits(T, g, c, r)
    BY <1>1, <1>7, <2>1, <2>6, PassedAwaits
  <2>9. ASSUME ok, ~BadCut(T, r)
        PROVE  Clean(T, g, c)
    BY <1>1, <1>7, <2>1, <2>5, <2>6, <2>9, PassedIsClean
  <2>10. Ready(T, ok /\ ~(q.inBlock /\ BadCut(T, r)), c, g, r)
    <3>1. g <= c + 1
      BY <1>1, <1>7, <2>1
    <3> QED BY <1>11, <1>14, <2>1, <2>8, <2>9, <3>1 DEF Ready
  <2>11. r - c <= 3
    BY <1>5, <1>7, <1>14
  <2> QED BY <1>13, <2>7, <2>10, <2>11
<1>15. CASE ~p.inBlock
  <2>1. g = 0
    BY <1>1, <1>15
  <2>2. x.type = "prose"
    BY <1>10, <1>15 DEF Prose
  <2>3. Moves(T, ok, x, d, g, c, g)
    BY <1>7, <2>1, <2>2 DEF Moves
  <2>4. Ready(T, ok /\ ~(q.inBlock /\ BadCut(T, r)), c, g, r)
    BY <2>1 DEF Ready
  <2> QED BY <1>11, <1>13, <1>15, <2>3, <2>4
<1> QED BY <1>1, <1>14, <1>15

(* A push, from any place.                                                 *)
LEMMA ParseLeads ==
  ASSUME NEW T \in Seq(Units), NEW ok \in BOOLEAN, NEW r \in Nat, r <= Len(T),
         NEW c \in Nat, NEW f \in Nat, c <= r, Ready(T, ok, c, f, r),
         inBlock \in BOOLEAN, inBlock <=> f # 0, atMessageStart \in BOOLEAN,
         snippets \in Nat, 4 * snippets <= c,
         NEW q, q = Parse(Slice(T, c + 1, r))
  PROVE  \E d, g \in Nat : /\ Led(T, ok, r, c, f, q, d, g)
                           /\ Ready(T, ok /\ ~(q.inBlock /\ BadCut(T, r)), d, g, r)
                           /\ q.inBlock => r - d <= 3
<1>1. PICK u : u = Slice(T, c + 1, r) /\ Len(u) = r - c
  <2>1. Stretch(T, c, r)
    BY DEF Stretch
  <2> QED BY <2>1, SliceIs DEF IsSlice
<1>2. PICK p : p = [segments |-> <<>>, buffer |-> u, inBlock |-> inBlock,
                    snippets |-> snippets, start |-> atMessageStart]
  OBVIOUS
<1>3. Parsed(T, ok, r, c, f, p, c, f)
  <2>1. Covers(T, ok, p.segments, c, f, c, f)
    BY <1>2, CoversNothing
  <2>2. p.buffer = Slice(T, c + 1, r) /\ p.snippets = snippets
    BY <1>1, <1>2
  <2>3. p.inBlock \in BOOLEAN /\ (p.inBlock <=> f # 0) /\ p.start \in BOOLEAN
    BY <1>2
  <2> QED BY <2>1, <2>2, <2>3 DEF Parsed, Led
<1>4. PICK N \in Nat : N = Len(u) \div 4 /\ r - c <= 4 * N + 3
  <2>1. PICK len \in Nat : len = Len(u) /\ len = r - c
    BY <1>1
  <2>2. len \div 4 \in Nat /\ len <= 4 * (len \div 4) + 3
    BY <2>1
  <2> QED BY <2>1, <2>2
<1>5. PICK d \in Nat, g \in Nat : /\ Parsed(T, ok, r, c, f, TheTurns(p, N)[N], d, g)
                                  /\ NoFence(TheTurns(p, N)[N])
  BY <1>3, <1>4, TurnsLead
<1>6. q = LastTurn(TheTurns(p, N)[N])
  BY <1>1, <1>2, <1>4 DEF Parse, TheTurns, IsTurns
<1> QED BY <1>5, <1>6, LastTurnLeads

(* A flush, from any place.                                                *)
LEMMA FlushLeads ==
  ASSUME NEW T \in Seq(Units), NEW ok \in BOOLEAN, NEW r \in Nat, r <= Len(T),
         NEW c \in Nat, NEW f \in Nat, c <= r, Ready(T, ok, c, f, r),
         NEW in \in BOOLEAN, in <=> f # 0, in => r - c <= 3
  PROVE  \E d \in Nat : d <= r /\ Covers(T, ok, Flush(Slice(T, c + 1, r), in), c, f, d, 0)
<1>1. PICK u : u = Slice(T, c + 1, r) /\ u \in Seq(Units) /\ Len(u) = r - c
  <2>1. Stretch(T, c, r)
    BY DEF Stretch
  <2> QED BY <2>1, SliceIs DEF IsSlice
<1>2. Covers(T, ok, <<>>, c, f, c, f)
  BY CoversNothing
<1>3. \A x : <<>> \o NonEmpty(x) = NonEmpty(x)
  <2> TAKE x
  <2>1. NonEmpty(x) = <<>> \/ NonEmpty(x) = <<x>>
    BY DEF NonEmpty
  <2>2. <<>> \in Seq({x}) /\ <<x>> \in Seq({x})
    OBVIOUS
  <2> QED BY <2>1, <2>2, ConcatEmptySeq
<1>4. CASE ~in
  <2>1. PICK x : x = Prose(u) /\ x.type = "prose" /\ x.text = u
    <3>1. PICK x : x = Prose(u)
      OBVIOUS
    <3> QED BY <3>1 DEF Prose
  <2>2. Moves(T, ok, x, c, f, r, 0) /\ f = 0
    BY <1>4, <2>1 DEF Moves
  <2>3. u = <<>> => c = r
    BY <1>1, SliceNone
  <2>4. Covers(T, ok, <<>> \o NonEmpty(x), c, f, r, 0)
    BY <1>2, <2>1, <2>2, <2>3, CoversMaybe
  <2>5. Flush(u, in) = NonEmpty(x)
    BY <1>4, <2>1 DEF Flush
  <2>6. Covers(T, ok, Flush(u, in), c, f, r, 0)
    BY <1>3, <2>4, <2>5
  <2> QED BY <1>1, <2>6
<1>5. CASE in
  <2>1. PICK content : content = IF EndsWith(u, Ticks)
                                 THEN Slice(u, 1, Len(u) - 3) ELSE u
    OBVIOUS
  <2>2. PICK n \in Nat : n <= r - c /\ content = Slice(T, c + 1, c + n)
    <3>1. CASE EndsWith(u, Ticks)
      <4>1. Ticks \in Seq(Units) /\ Len(Ticks) = 3
        BY DEF Ticks, Units
      <4>2. 3 <= Len(u)
        BY <1>1, <3>1, <4>1, EndIs
      <4>3. PICK n \in Nat : n = Len(u) - 3 /\ n <= r - c
        <5>1. Len(u) - 3 \in Nat /\ Len(u) - 3 <= r - c
          BY <1>1, <4>2
        <5> QED BY <5>1
      <4>4. Slice(u, 1, n) = Slice(T, c + 1, c + n)
        BY <1>1, <4>3, SliceCut
      <4> QED BY <2>1, <3>1, <4>3, <4>4
    <3>2. CASE ~EndsWith(u, Ticks)
      <4>1. r - c \in Nat /\ c + (r - c) = r /\ r - c <= r - c
        OBVIOUS
      <4> QED BY <1>1, <2>1, <3>2, <4>1
    <3> QED BY <3>1, <3>2
  <2>3. f # 0 /\ f <= c + 1 /\ (ok => Clean(T, f, c))
    BY <1>5 DEF Ready
  <2>4. PICK d \in Nat : d = c + n /\ d <= r /\ c <= d /\ d <= Len(T)
    <3>1. c + n \in Nat /\ c + n <= r /\ c <= c + n /\ c + n <= Len(T)
      BY <2>2
    <3> QED BY <3>1
  <2>5. ASSUME ok
        PROVE  Sound(T, f, d)
    <3>1. Fences(u, Closings) = {}
      <4>1. Len(u) <= 3 /\ Closings \subseteq Openings
        BY <1>1, <1>5 DEF Openings
      <4> QED BY <1>1, <4>1, NoRoom
    <3>2. \A j \in 1 .. n : j \notin Fences(Slice(T, c + 1, r), Closings)
      BY <1>1, <3>1
    <3>3. Clean(T, f, c)
      BY <2>3, <2>5
    <3>4. Sound(T, f, c + n)
      BY <2>2, <2>3, <3>2, <3>3, PassedIsSound
    <3> QED BY <2>4, <3>4
  <2>6. PICK x : x = Chunk(content) /\ x.type = "artifact-chunk" /\ x.text = content
    <3>1. PICK x : x = Chunk(content)
      OBVIOUS
    <3> QED BY <3>1 DEF Chunk
  <2>7. Moves(T, ok, x, c, f, d, f)
    BY <2>2, <2>3, <2>4, <2>5, <2>6 DEF Moves
  <2>8. content = <<>> => c = d
    BY <2>2, <2>4, SliceNone
  <2>9. Covers(T, ok, <<>> \o NonEmpty(x), c, f, d, f)
    BY <1>2, <2>6, <2>7, <2>8, CoversMaybe
  <2>10. Covers(T, ok, NonEmpty(x), c, f, d, f)
    BY <1>3, <2>9
  <2>11. PICK e : e = EndMark /\ e.type = "artifact-end"
    <3>1. PICK e : e = EndMark
      OBVIOUS
    <3> QED BY <3>1 DEF EndMark
  <2>12. Moves(T, ok, e, d, f, d, 0)
    BY <2>3, <2>4, <2>11 DEF Moves
  <2>13. Covers(T, ok, Append(NonEmpty(x), e), c, f, d, 0)
    BY <2>10, <2>12, CoversMore
  <2>14. Flush(u, in) = Append(NonEmpty(x), e)
    BY <1>5, <2>6, <2>11, <2>1 DEF Flush
  <2> QED BY <1>1, <2>4, <2>13, <2>14
<1> QED BY <1>4, <1>5
-----------------------------------------------------------------------------
(* The reply's own state.  What is to be handled leads from the place that *)
(* was handled so far to where the parser is; unless something failed, the *)
(* current artifact is what the text has from its block's first unit on.   *)
Artifacts == [temp : Nat, file : Nat \cup {Named}, content : Seq(Units)]

ArtifactOK(c) == c = NoArtifact \/ (/\ c \in Artifacts /\ c.file \in Files
                                    /\ Len(c.content) <= MaxContent)

Current(T, c, a, f) ==
  /\ f = 0 => c = NoArtifact
  /\ f # 0 => c # NoArtifact /\ c.content = Slice(T, f, a) /\ OpensFile(T, c.file, f)

ParserAt(T, ok, b, g) ==
  /\ buffer = Slice(T, b + 1, received) /\ (inBlock => received - b <= 3)
  /\ inBlock <=> g # 0
  /\ Ready(T, ok, b, g, received)
  /\ 4 * snippets <= b

Following(a, f, b, g) ==
  /\ Inside(scene.text, ~torn, a, f)
  /\ Covers(scene.text, ~torn, todo, a, f, b, g)
  /\ b <= received
  /\ ~failed => Current(scene.text, artifact, a, f)
  /\ phase = "streaming" => ParserAt(scene.text, ~torn, b, g)

StreamTypeOK ==
  /\ scene \in Scenes /\ received \in 0 .. Len(scene.text)
  /\ buffer \in Seq(Units) /\ inBlock \in BOOLEAN /\ atMessageStart \in BOOLEAN
  /\ snippets \in Nat /\ 4 * snippets <= received
  /\ phase \in {"streaming", "flushing", "ended"}
  /\ failed \in BOOLEAN /\ torn \in BOOLEAN
  /\ phase = "streaming" => ~failed
  /\ temps \in Nat /\ ArtifactOK(artifact)

StreamOK == StreamTypeOK /\ \E a, f, b, g : Following(a, f, b, g)

LEMMA SceneText ==
  ASSUME scene \in Scenes
  PROVE  scene.text \in Seq(Units) /\ Len(scene.text) \in Nat
<1>1. scene \in [text : Seq(Units), actions : Nat]
  BY ArtifactStreamAssumption
<1> QED BY <1>1

LEMMA CoversEnd ==
  ASSUME NEW T, NEW ok, NEW a, NEW f, NEW b, NEW g, Covers(T, ok, <<>>, a, f, b, g)
  PROVE  a = b /\ f = g
<1>1. Len(<<>>) = 0
  OBVIOUS
<1> QED BY <1>1 DEF Covers

LEMMA MoveInside ==
  ASSUME NEW T, NEW ok \in BOOLEAN, NEW x,
         NEW a \in Nat, NEW f \in Nat, NEW c \in Nat, NEW h \in Nat,
         Inside(T, ok, a, f), Moves(T, ok, x, a, f, c, h)
  PROVE  Inside(T, ok, c, h)
<1>1. CASE x.type = "artifact-start"
  <2>1. h = c + 1 /\ OpensFile(T, x.file, h)
    BY <1>1 DEF Moves
  <2>2. h .. c = {}
    BY <2>1
  <2>3. Sound(T, h, c)
    BY <2>2 DEF Sound
  <2>4. Opening(T, h)
    BY <2>1 DEF OpensFile, Opening
  <2>5. h <= c + 1
    BY <2>1
  <2> QED BY <2>3, <2>4, <2>5 DEF Inside
<1>2. CASE x.type = "artifact-chunk"
  <2>1. f # 0 /\ h = f /\ a <= c /\ (ok => Sound(T, f, c))
    BY <1>2 DEF Moves
  <2>2. f <= a + 1 /\ Opening(T, f)
    BY <2>1 DEF Inside
  <2>3. h <= c + 1
    BY <2>1, <2>2
  <2> QED BY <2>1, <2>2, <2>3 DEF Inside
<1>3. CASE x.type \in {"prose", "artifact-end"}
  BY <1>3 DEF Moves, Inside
<1> QED BY <1>1, <1>2, <1>3 DEF Moves

LEMMA StreamStarts == StreamInit => StreamOK
<1> SUFFICES ASSUME StreamInit PROVE StreamOK
  OBVIOUS
<1> USE DEF StreamInit
<1>1. scene.text \in Seq(Units) /\ Len(scene.text) \in Nat
  BY SceneText
<1>2. StreamTypeOK
  <2>1. received \in 0 .. Len(scene.text) /\ snippets \in Nat /\ 4 * snippets <= received
    BY <1>1
  <2>2. buffer \in Seq(Units)
    OBVIOUS
  <2>3. /\ inBlock \in BOOLEAN /\ failed \in BOOLEAN /\ torn \in BOOLEAN
        /\ atMessageStart \in BOOLEAN
        /\ phase = "streaming" => ~failed
    OBVIOUS
  <2> QED BY <2>1, <2>2, <2>3 DEF StreamTypeOK, ArtifactOK
<1>3. /\ Inside(scene.text, ~torn, 0, 0) /\ Current(scene.text, artifact, 0, 0)
      /\ Ready(scene.text, ~torn, 0, 0, received)
  BY DEF Inside, Current, Ready
<1>4. Covers(scene.text, ~torn, <<>>, 0, 0, 0, 0)
  BY CoversNothing
<1>5. buffer = Slice(scene.text, 1, 0)
  BY <1>1, SubSeqEmpty DEF Slice
<1>6. ParserAt(scene.text, ~torn, 0, 0)
  BY <1>3, <1>5 DEF ParserAt
<1>7. Following(0, 0, 0, 0)
  BY <1>3, <1>4, <1>6 DEF Following
<1> QED BY <1>2, <1>7 DEF StreamOK

(* More text has arrived.                                                  *)
LEMMA ReadyForMore ==
  ASSUME NEW T, NEW ok, NEW c \in Nat, NEW f, NEW r \in Nat, NEW more \in Nat, r <= more,
         Ready(T, ok, c, f, r)
  PROVE  Ready(T, ok, c, f, more)
<1>1. r >= c + 3 => more >= c + 3
  OBVIOUS
<1> QED BY <1>1 DEF Ready, Awaits

LEMMA PushFollows ==
  ASSUME StreamOK, NEW upto \in received + 1 .. Len(scene.text), Push(upto)
  PROVE  StreamOK'
<1>1. PICK T : T = scene.text
  OBVIOUS
<1>2. /\ T \in Seq(Units) /\ Len(T) \in Nat /\ received \in Nat /\ received <= Len(T)
      /\ upto \in Nat /\ received <= upto /\ upto <= Len(T)
  BY <1>1, SceneText DEF StreamOK, StreamTypeOK
<1>3. PICK ok \in BOOLEAN : ok <=> ~torn
  OBVIOUS
<1>4. ok = ~torn
  BY <1>3 DEF StreamOK, StreamTypeOK
<1>5. PICK a, f, b, g : Following(a, f, b, g)
  BY DEF StreamOK
<1>6. /\ phase = "streaming" /\ phase' = "streaming" /\ todo = <<>>
      /\ UNCHANGED <<scene, failed, artifact, temps>> /\ received' = upto
  BY DEF Push
<1>7. /\ b \in Nat /\ g \in Nat /\ a = b /\ f = g /\ b <= received
      /\ ParserAt(T, ok, b, g)
      /\ ~failed => Current(T, artifact, b, g)
  BY <1>1, <1>4, <1>5, <1>6, CoversEnd, CoversForward DEF Following
<1>8. PICK text : text = buffer \o Slice(T, received + 1, upto)
  OBVIOUS
<1>9. text = Slice(T, b + 1, upto)
  <2>1. b + 1 \in Nat \ {0} /\ b + 1 <= received + 1
    BY <1>2, <1>7
  <2>2. buffer = Slice(T, b + 1, received)
    BY <1>7 DEF ParserAt
  <2> QED BY <1>2, <1>8, <2>1, <2>2, SlicesJoin
<1>10. /\ inBlock \in BOOLEAN /\ (inBlock <=> g # 0) /\ atMessageStart \in BOOLEAN
       /\ snippets \in Nat /\ 4 * snippets <= b
  BY <1>7 DEF ParserAt, StreamOK, StreamTypeOK
<1>11. Ready(T, ok, b, g, received) /\ Ready(T, ok, b, g, upto)
  BY <1>2, <1>7, ReadyForMore DEF ParserAt
<1>12. PICK q : q = Parse(text)
  OBVIOUS
<1>13. PICK d \in Nat, h \in Nat :
             /\ Led(T, ok, upto, b, g, q, d, h)
             /\ Ready(T, ok /\ ~(q.inBlock /\ BadCut(T, upto)), d, h, upto)
             /\ q.inBlock => upto - d <= 3
  <2>1. q = Parse(Slice(T, b + 1, upto)) /\ b <= upto
    BY <1>2, <1>7, <1>9, <1>12
  <2>2. /\ T \in Seq(Units) /\ ok \in BOOLEAN /\ upto \in Nat /\ upto <= Len(T)
        /\ b \in Nat /\ g \in Nat /\ b <= upto /\ Ready(T, ok, b, g, upto)
        /\ inBlock \in BOOLEAN /\ (inBlock <=> g # 0) /\ atMessageStart \in BOOLEAN
        /\ snippets \in Nat /\ 4 * snippets <= b
    BY <1>2, <1>7, <1>10, <1>11, <2>1
  <2> QED BY <2>1, <2>2, ParseLeads
<1>14. /\ todo' = q.segments /\ buffer' = q.buffer
       /\ inBlock' = q.inBlock /\ snippets' = q.snippets /\ atMessageStart' = q.start
       /\ torn' = (torn \/ (q.inBlock /\ BadCut(T, upto)))
  BY <1>1, <1>8, <1>12 DEF Push
<1>15. PICK less \in BOOLEAN : less <=> ok /\ ~(q.inBlock /\ BadCut(T, upto))
  OBVIOUS
<1>16. less = ~torn' /\ (less => ok) /\ Ready(T, less, d, h, upto)
  <2>1. less = (ok /\ ~(q.inBlock /\ BadCut(T, upto)))
    BY <1>15
  <2>2. less <=> ~torn'
    BY <1>3, <1>14, <1>15
  <2>3. Ready(T, less, d, h, upto)
    BY <1>13, <2>1
  <2> QED BY <1>15, <2>2, <2>3
<1>17. /\ d <= upto /\ buffer' = Slice(T, d + 1, upto)
       /\ Covers(T, ok, todo', b, g, d, h)
       /\ inBlock' \in BOOLEAN /\ (inBlock' <=> h # 0)
       /\ snippets' \in Nat /\ 4 * snippets' <= d /\ atMessageStart' \in BOOLEAN
  BY <1>13, <1>14 DEF Led
<1>18. Covers(T, less, todo', b, g, d, h)
  BY <1>16, <1>17, CoversWeaker
<1>19. buffer' \in Seq(Units)
  <2>1. Stretch(T, d, upto)
    BY <1>2, <1>17 DEF Stretch
  <2>2. IsSlice(Slice(T, d + 1, upto), T, d, upto)
    BY <2>1, SliceIs
  <2> QED BY <1>2, <1>17, <2>2 DEF IsSlice
<1>20. StreamTypeOK'
  <2>1. received' \in 0 .. Len(scene'.text) /\ 4 * snippets' <= received'
    <3>1. received' = upto /\ scene'.text = T
      BY <1>1, <1>6
    <3>2. PICK k : k = snippets'
      OBVIOUS
    <3>3. k \in Nat /\ 4 * k <= d /\ d <= upto
      BY <1>17, <3>2
    <3>4. 4 * k <= upto
      BY <1>2, <3>3
    <3> QED BY <1>2, <3>1, <3>2, <3>4
  <2>2. ArtifactOK(artifact')
    BY <1>6 DEF StreamOK, StreamTypeOK
  <2>3. /\ failed' \in BOOLEAN /\ (phase' = "streaming" => ~failed')
        /\ temps' \in Nat /\ scene' \in Scenes
    BY <1>6 DEF StreamOK, StreamTypeOK
  <2>4. /\ inBlock' \in BOOLEAN /\ snippets' \in Nat /\ torn' \in BOOLEAN
        /\ atMessageStart' \in BOOLEAN
    BY <1>14, <1>17
  <2>5. phase' \in {"streaming", "flushing", "ended"}
    BY <1>6
  <2> QED BY <1>19, <2>1, <2>2, <2>3, <2>4, <2>5 DEF StreamTypeOK, ArtifactOK
<1>21. ParserAt(T, less, d, h)'
  <2>1. inBlock' => upto - d <= 3
    BY <1>13, <1>14
  <2>2. received' = upto
    BY <1>6
  <2> QED BY <1>16, <1>17, <2>1, <2>2 DEF ParserAt
<1>22. Following(b, g, d, h)'
  <2>1. Inside(T, less, b, g)
    <3>1. Inside(T, ok, b, g)
      BY <1>7, <1>11, ReadyInside
    <3> QED BY <1>16, <3>1 DEF Inside
  <2>2. scene'.text = T /\ received' = upto /\ phase' = "streaming"
    BY <1>1, <1>6
  <2>3. ~failed' => Current(T, artifact', b, g)
    BY <1>6, <1>7
  <2> QED BY <1>16, <1>17, <1>18, <1>21, <2>1, <2>2, <2>3 DEF Following
<1> QED BY <1>20, <1>22 DEF StreamOK

(* The parser is flushed from where it is, the segments left go lost.      *)
LEMMA FinallyFollows ==
  ASSUME StreamOK, phase = "streaming", Finally,
         UNCHANGED <<scene, received, temps, torn>>, failed' \in BOOLEAN,
         ArtifactOK(artifact'),
         ~failed' => artifact' = artifact /\ todo = <<>>
  PROVE  StreamOK'
<1>1. PICK T : T = scene.text
  OBVIOUS
<1>2. T \in Seq(Units) /\ Len(T) \in Nat /\ received \in Nat /\ received <= Len(T)
  BY <1>1, SceneText DEF StreamOK, StreamTypeOK
<1>3. PICK ok \in BOOLEAN : ok = ~torn
  BY DEF StreamOK, StreamTypeOK
<1>4. PICK a, f, b, g : Following(a, f, b, g)
  BY DEF StreamOK
<1>5. /\ b \in Nat /\ g \in Nat /\ b <= received
      /\ ParserAt(T, ok, b, g)
      /\ todo = <<>> => a = b /\ f = g
      /\ ~failed => Current(T, artifact, a, f)
  BY <1>1, <1>3, <1>4, CoversEnd, CoversForward DEF Following
<1>6. /\ buffer = Slice(T, b + 1, received) /\ Ready(T, ok, b, g, received)
      /\ inBlock \in BOOLEAN /\ (inBlock <=> g # 0) /\ (inBlock => received - b <= 3)
  BY <1>5 DEF ParserAt, StreamOK, StreamTypeOK
<1>7. PICK d \in Nat : /\ d <= received
                       /\ Covers(T, ok, Flush(Slice(T, b + 1, received), inBlock), b, g, d, 0)
  BY <1>2, <1>5, <1>6, FlushLeads
<1>8. /\ phase' = "flushing" /\ buffer' = <<>> /\ inBlock' = FALSE
      /\ snippets' = snippets /\ atMessageStart' = atMessageStart
      /\ todo' = Flush(buffer, inBlock)
  BY DEF Finally
<1>9. StreamTypeOK'
  <2>1. phase' # "streaming" /\ phase' \in {"streaming", "flushing", "ended"}
    BY <1>8
  <2>2. inBlock' \in BOOLEAN /\ buffer' \in Seq(Units)
    <3>1. <<>> \in Seq(Units)
      OBVIOUS
    <3> QED BY <1>8, <3>1
  <2>3. /\ received' \in 0 .. Len(scene'.text) /\ scene' \in Scenes
        /\ snippets' \in Nat /\ 4 * snippets' <= received' /\ temps' \in Nat
        /\ torn' \in BOOLEAN /\ atMessageStart' \in BOOLEAN
    BY <1>8 DEF StreamOK, StreamTypeOK
  <2> QED BY <2>1, <2>2, <2>3 DEF StreamTypeOK, ArtifactOK
<1>10. ~failed' => Current(T, artifact', b, g)
  BY <1>5 DEF StreamOK, StreamTypeOK
<1>11. Following(b, g, d, 0)'
  <2>1. scene'.text = T /\ received' = received /\ phase' # "streaming" /\ ok = ~torn'
    BY <1>1, <1>3, <1>8
  <2>2. Covers(T, ok, todo', b, g, d, 0)
    BY <1>6, <1>7, <1>8
  <2>3. Inside(T, ok, b, g)
    BY <1>5, <1>6, ReadyInside
  <2> QED BY <1>7, <1>10, <2>1, <2>2, <2>3 DEF Following
<1> QED BY <1>9, <1>11 DEF StreamOK

LEMMA StreamEndsFollows ==
  ASSUME StreamOK, StreamEnds
  PROVE  StreamOK'
<1>1. /\ UNCHANGED <<scene, received, temps, failed, torn, artifact>>
      /\ failed \in BOOLEAN /\ ArtifactOK(artifact) /\ phase = "streaming" /\ todo = <<>>
      /\ Finally
  BY DEF StreamEnds, StreamOK, StreamTypeOK
<1>2. ArtifactOK(artifact')
  BY <1>1
<1> QED BY <1>1, <1>2, FinallyFollows

LEMMA ThrowFollows ==
  ASSUME StreamOK, Throw, ArtifactOK(artifact')
  PROVE  StreamOK'
<1>1. failed' = TRUE /\ UNCHANGED <<scene, received, temps, torn>>
  BY DEF Throw
<1>2. CASE phase = "streaming"
  BY <1>1, <1>2, FinallyFollows DEF Throw
<1>3. CASE phase # "streaming"
  <2>1. /\ phase' = "ended" /\ todo' = <<>>
        /\ UNCHANGED <<buffer, inBlock, snippets, atMessageStart>>
    BY <1>3 DEF Throw, parserVars
  <2>2. StreamTypeOK'
    BY <1>1, <2>1 DEF StreamOK, StreamTypeOK, ArtifactOK
  <2>3. Following(0, 0, 0, 0)'
    <3>1. Inside(scene'.text, ~torn', 0, 0) /\ 0 <= received'
      BY <1>1 DEF Inside, StreamOK, StreamTypeOK
    <3>2. Covers(scene'.text, ~torn', todo', 0, 0, 0, 0)
      BY <2>1, CoversNothing
    <3> QED BY <1>1, <2>1, <3>1, <3>2 DEF Following
  <2> QED BY <2>2, <2>3 DEF StreamOK
<1> QED BY <1>2, <1>3

LEMMA EndedFollows ==
  ASSUME StreamOK, Ended
  PROVE  StreamOK'
<1>1. /\ phase' = "ended"
      /\ UNCHANGED <<scene, received, buffer, inBlock, snippets, atMessageStart, todo,
                     failed, torn, artifact, temps>>
  BY DEF Ended, parserVars
<1>2. PICK a, f, b, g : Following(a, f, b, g)
  BY DEF StreamOK
<1>3. StreamTypeOK'
  BY <1>1 DEF StreamOK, StreamTypeOK, ArtifactOK
<1>4. Following(a, f, b, g)'
  BY <1>1, <1>2 DEF Following
<1> QED BY <1>3, <1>4 DEF StreamOK
-----------------------------------------------------------------------------
(* The first segment leads from what was handled so far to the next place. *)
AtHead(a, f, c, h) ==
  /\ Inside(scene.text, ~torn, a, f) /\ Moves(scene.text, ~torn, Head(todo), a, f, c, h)
  /\ a <= received
  /\ ~failed => Current(scene.text, artifact, a, f)

LEMMA HeadMoves ==
  ASSUME StreamOK, todo # <<>>, Handled, temps' \in Nat, ArtifactOK(artifact')
  PROVE  \E a, f, c, h \in Nat :
           /\ AtHead(a, f, c, h)
           /\ (~failed => Current(scene.text, artifact', c, h)) => StreamOK'
<1>1. PICK T : T = scene.text
  OBVIOUS
<1>2. PICK ok \in BOOLEAN : ok = ~torn
  BY DEF StreamOK, StreamTypeOK
<1>3. PICK a, f, b, g : Following(a, f, b, g)
  BY DEF StreamOK
<1>4. /\ Inside(T, ok, a, f) /\ Covers(T, ok, todo, a, f, b, g) /\ b <= received
      /\ ~failed => Current(T, artifact, a, f)
      /\ phase = "streaming" => ParserAt(T, ok, b, g)
  BY <1>1, <1>2, <1>3 DEF Following
<1>5. PICK c \in Nat, h \in Nat : /\ Moves(T, ok, Head(todo), a, f, c, h)
                                  /\ Covers(T, ok, Tail(todo), c, h, b, g)
  BY <1>4, CoversFirst
<1>6. a \in Nat /\ f \in Nat /\ b \in Nat /\ g \in Nat /\ a <= b
  BY <1>4, CoversForward
<1>7. Inside(T, ok, c, h)
  BY <1>4, <1>5, <1>6, MoveInside
<1>8. /\ todo' = Tail(todo)
      /\ UNCHANGED <<scene, received, buffer, inBlock, snippets, atMessageStart, phase,
                     failed, torn>>
  BY DEF Handled, parserVars
<1>9. StreamTypeOK'
  BY <1>8 DEF StreamOK, StreamTypeOK, ArtifactOK
<1>10. ASSUME ~failed => Current(T, artifact', c, h)
       PROVE  StreamOK'
  <2>1. scene'.text = T /\ ok = ~torn'
    BY <1>1, <1>2, <1>8
  <2>2. phase' = "streaming" => ParserAt(T, ok, b, g)'
    BY <1>4, <1>8 DEF ParserAt
  <2>3. Following(c, h, b, g)'
    BY <1>4, <1>5, <1>7, <1>8, <1>10, <2>1, <2>2 DEF Following
  <2> QED BY <1>9, <2>3 DEF StreamOK
<1>11. a <= received
  BY <1>4, <1>6 DEF StreamOK, StreamTypeOK
<1>12. AtHead(a, f, c, h)
  BY <1>1, <1>2, <1>4, <1>5, <1>11 DEF AtHead
<1> QED BY <1>1, <1>5, <1>6, <1>10, <1>12

(* What a segment is, from how it moves.                                   *)
LEMMA SegmentIs ==
  ASSUME NEW T \in Seq(Units), NEW ok, NEW x,
         NEW a \in Nat, NEW f \in Nat, NEW c \in Nat, NEW h \in Nat, Moves(T, ok, x, a, f, c, h)
  PROVE  /\ x.type = "prose" => f = 0 /\ h = 0
         /\ x.type = "artifact-start" =>
              /\ f = 0 /\ h = c + 1 /\ OpensFile(T, x.file, h)
              /\ FileFits(x.file, c) /\ c <= Len(T)
         /\ x.type = "artifact-chunk" =>
              /\ f # 0 /\ h = f /\ a <= c /\ c <= Len(T)
              /\ x.text = Slice(T, a + 1, c) /\ x.text \in Seq(Units)
         /\ x.type = "artifact-end" => f # 0 /\ h = 0
<1>1. a <= c /\ c <= Len(T)
  BY DEF Moves
<1>2. Slice(T, a + 1, c) \in Seq(Units)
  <2>1. Stretch(T, a, c)
    BY <1>1 DEF Stretch
  <2>2. IsSlice(Slice(T, a + 1, c), T, a, c)
    BY <2>1, SliceIs
  <2> QED BY <1>1, <2>2 DEF IsSlice
<1> QED BY <1>1, <1>2 DEF Moves

LEMMA ProseFollows ==
  ASSUME StreamOK, HandleProse
  PROVE  StreamOK'
<1>1. /\ todo # <<>> /\ Handled /\ artifact' = artifact /\ temps' = temps
      /\ Head(todo).type = "prose"
  BY DEF HandleProse, Handling
<1>2. temps' \in Nat /\ ArtifactOK(artifact')
  BY <1>1 DEF StreamOK, StreamTypeOK
<1>3. PICK a \in Nat, f \in Nat, c \in Nat, h \in Nat :
           /\ AtHead(a, f, c, h)
           /\ (~failed => Current(scene.text, artifact', c, h)) => StreamOK'
  BY <1>1, <1>2, HeadMoves
<1>4. f = 0 /\ h = 0
  <2>1. scene.text \in Seq(Units)
    BY SceneText DEF StreamOK, StreamTypeOK
  <2> QED BY <1>1, <1>3, <2>1, SegmentIs DEF AtHead
<1>5. ~failed => Current(scene.text, artifact', c, h)
  BY <1>1, <1>3, <1>4 DEF AtHead, Current
<1> QED BY <1>3, <1>5

LEMMA FileIsIn ==
  ASSUME scene \in Scenes, NEW c \in Nat, c <= Len(scene.text), NEW file, FileFits(file, c)
  PROVE  file \in Files /\ file \in Nat \cup {Named}
<1>1. CASE file = Named
  BY <1>1, ArtifactEditorAssumption
<1>2. CASE file # Named
  <2>1. file \in Nat \ {0} /\ 4 * file <= c /\ Len(scene.text) \in Nat
    BY <1>2, SceneText DEF FileFits
  <2>2. file \in 1 .. Len(scene.text) /\ 4 * file <= Len(scene.text)
    BY <2>1
  <2> QED BY <2>1, <2>2, ArtifactEditorAssumption
<1> QED BY <1>1, <1>2

LEMMA StartFollows ==
  ASSUME StreamOK, HandleStart
  PROVE  StreamOK' /\ Head(todo).file \in Files
<1>1. PICK c0 : c0 = artifact'
  OBVIOUS
<1>2. PICK file, temp : /\ file = Head(todo).file /\ temp = temps + 1
                        /\ c0 = [temp |-> temp, file |-> file, content |-> <<>>]
  BY <1>1 DEF HandleStart
<1>3. /\ todo # <<>> /\ Handled /\ temps' = temp
      /\ Head(todo).type = "artifact-start" /\ scene \in Scenes
  BY <1>2 DEF HandleStart, Handling, StreamOK, StreamTypeOK
<1>4. PICK T : T = scene.text /\ T \in Seq(Units)
  BY <1>3, SceneText
<1>5. temp \in Nat
  BY <1>2 DEF StreamOK, StreamTypeOK
<1>6. PICK a \in Nat, f \in Nat, c \in Nat, h \in Nat : Moves(T, ~torn, Head(todo), a, f, c, h)
  <2>1. PICK a, f, b, g : Following(a, f, b, g)
    BY DEF StreamOK
  <2>2. Covers(T, ~torn, todo, a, f, b, g)
    BY <1>4, <2>1 DEF Following
  <2>3. a \in Nat /\ f \in Nat
    BY <2>2, CoversForward
  <2> QED BY <1>3, <2>2, <2>3, CoversFirst
<1>7. file \in Files /\ file \in Nat \cup {Named}
  <2>1. FileFits(file, c) /\ c <= Len(T)
    BY <1>2, <1>3, <1>4, <1>6, SegmentIs
  <2> QED BY <1>3, <1>4, <2>1, FileIsIn
<1>8. c0 \in Artifacts /\ c0.file = file /\ c0.content = <<>>
  BY <1>2, <1>5, <1>7 DEF Artifacts
<1>9. ArtifactOK(artifact')
  BY <1>1, <1>7, <1>8, ArtifactStreamAssumption DEF ArtifactOK
<1>10. PICK a2 \in Nat, f2 \in Nat, c2 \in Nat, h2 \in Nat :
           /\ AtHead(a2, f2, c2, h2)
           /\ (~failed => Current(scene.text, artifact', c2, h2)) => StreamOK'
  BY <1>3, <1>5, <1>9, HeadMoves
<1>11. f2 = 0 /\ h2 = c2 + 1 /\ OpensFile(T, file, h2)
  BY <1>2, <1>3, <1>4, <1>10, SegmentIs DEF AtHead
<1>12. Slice(T, h2, c2) = <<>>
  BY <1>11, SubSeqEmpty DEF Slice
<1>13. c0 # NoArtifact
  BY <1>8, ArtifactStreamAssumption DEF Artifacts
<1>14. Current(T, c0, c2, h2)
  BY <1>8, <1>11, <1>12, <1>13 DEF Current
<1> QED BY <1>1, <1>2, <1>4, <1>7, <1>10, <1>14

LEMMA ChunkFollows ==
  ASSUME StreamOK, HandleChunk
  PROVE  StreamOK'
<1>1. PICK x : x = Head(todo)
  OBVIOUS
<1>2. /\ todo # <<>> /\ Handled /\ temps' = temps
      /\ x.type = "artifact-chunk" /\ scene \in Scenes /\ temps \in Nat
      /\ artifact # NoArtifact /\ ArtifactOK(artifact)
      /\ Len(artifact.content \o x.text) <= MaxContent
      /\ artifact' = [artifact EXCEPT !.content = artifact.content \o x.text]
  BY <1>1 DEF HandleChunk, Handling, StreamOK, StreamTypeOK, Fits, Grown
<1>3. PICK T : T = scene.text /\ T \in Seq(Units)
  BY <1>2, SceneText
<1>4. x.text \in Seq(Units)
  <2>1. PICK a, f, b, g : Following(a, f, b, g)
    BY DEF StreamOK
  <2>2. Covers(T, ~torn, todo, a, f, b, g)
    BY <1>3, <2>1 DEF Following
  <2>3. a \in Nat /\ f \in Nat
    BY <2>2, CoversForward
  <2>4. PICK c \in Nat, h \in Nat : Moves(T, ~torn, x, a, f, c, h)
    BY <1>1, <1>2, <2>2, CoversFirst
  <2> QED BY <1>2, <1>3, <2>3, <2>4, SegmentIs
<1>5. PICK grown : grown = artifact.content \o x.text
  OBVIOUS
<1>6. PICK c0 : c0 = artifact' /\ c0 = [artifact EXCEPT !.content = grown]
  BY <1>2, <1>5
<1>7. /\ artifact \in Artifacts /\ artifact.file \in Files
      /\ grown \in Seq(Units) /\ Len(grown) <= MaxContent
  <2>1. artifact \in Artifacts /\ artifact.file \in Files
    BY <1>2 DEF ArtifactOK
  <2>2. artifact.content \in Seq(Units)
    BY <2>1 DEF Artifacts
  <2> QED BY <1>2, <1>4, <1>5, <2>1, <2>2, ConcatProperties
<1>8. c0 \in Artifacts /\ c0.file = artifact.file /\ c0.content = grown
  BY <1>6, <1>7 DEF Artifacts
<1>9. ArtifactOK(artifact') /\ c0 # NoArtifact
  BY <1>6, <1>7, <1>8, ArtifactStreamAssumption DEF ArtifactOK, Artifacts
<1>10. PICK a \in Nat, f \in Nat, c \in Nat, h \in Nat :
           /\ AtHead(a, f, c, h)
           /\ (~failed => Current(scene.text, artifact', c, h)) => StreamOK'
  BY <1>2, <1>9, HeadMoves
<1>11. /\ f # 0 /\ h = f /\ a <= c /\ c <= Len(T) /\ x.text = Slice(T, a + 1, c)
  BY <1>1, <1>2, <1>3, <1>10, SegmentIs DEF AtHead
<1>12. ASSUME ~failed
       PROVE  Current(T, c0, c, h)
  <2>1. Current(T, artifact, a, f) /\ f <= a + 1
    BY <1>3, <1>10, <1>11, <1>12 DEF AtHead, Inside
  <2>2. /\ artifact.content = Slice(T, f, a)
        /\ OpensFile(T, artifact.file, f)
    BY <1>11, <2>1 DEF Current
  <2>3. grown = Slice(T, f, c)
    <3>1. f \in Nat \ {0} /\ T \in Seq(Units)
      BY <1>3, <1>11
    <3>2. Slice(T, f, a) \o Slice(T, a + 1, c) = Slice(T, f, c)
      BY <1>11, <2>1, <3>1, SlicesJoin
    <3> QED BY <1>5, <1>11, <2>2, <3>2
  <2> QED BY <1>8, <1>9, <1>11, <2>2, <2>3 DEF Current
<1> QED BY <1>3, <1>6, <1>10, <1>12

LEMMA OrphanFollows ==
  ASSUME StreamOK, SkipOrphan
  PROVE  StreamOK'
<1>1. /\ todo # <<>> /\ Handled /\ artifact' = artifact /\ temps' = temps
      /\ artifact = NoArtifact /\ scene \in Scenes
      /\ Head(todo).type \in {"artifact-chunk", "artifact-end"}
  BY DEF SkipOrphan, Handling, StreamOK, StreamTypeOK
<1>2. temps' \in Nat /\ ArtifactOK(artifact')
  BY <1>1 DEF StreamOK, StreamTypeOK
<1>3. PICK a \in Nat, f \in Nat, c \in Nat, h \in Nat :
           /\ AtHead(a, f, c, h)
           /\ (~failed => Current(scene.text, artifact', c, h)) => StreamOK'
  BY <1>1, <1>2, HeadMoves
<1>4. f # 0
  BY <1>1, <1>3, SceneText, SegmentIs DEF AtHead
<1>5. failed
  BY <1>1, <1>3, <1>4 DEF AtHead, Current
<1> QED BY <1>3, <1>5

(* The revision is one stretch of the block that is being handled.         *)
LEMMA SoundHasNoFence ==
  ASSUME NEW T \in Seq(Units), NEW f \in Nat \ {0}, NEW a \in Nat, f <= a + 1, a <= Len(T),
         Sound(T, f, a)
  PROVE  Fences(Slice(T, f, a), Closings) = {}
<1>1. PICK k \in Nat : f = k + 1
  <2>1. f - 1 \in Nat /\ f = (f - 1) + 1
    OBVIOUS
  <2> QED BY <2>1
<1>2. k <= a
  BY <1>1
<1>3. PICK u : /\ u = Slice(T, f, a) /\ u \in Seq(Units) /\ Len(u) = a - k
               /\ \A j \in 1 .. a - k : u[j] = T[k + j]
  <2>1. Stretch(T, k, a)
    BY <1>2 DEF Stretch
  <2>2. IsSlice(Slice(T, k + 1, a), T, k, a)
    BY <2>1, SliceIs
  <2> QED BY <1>1, <2>2 DEF IsSlice
<1> SUFFICES ASSUME NEW j \in Fences(u, Closings) PROVE FALSE
  BY <1>3
<1>4. j \in Nat \ {0} /\ j \in 1 .. a - k /\ AtLineStart(u, j)
  BY <1>2, <1>3 DEF Fences
<1>5. PICK w \in Closings : IsAt(w, u, j)
  BY DEF Fences
<1>6. w \in Seq(Units) /\ Len(w) \in Nat /\ Len(w) >= 4
  BY ClosingWords
<1>7. IsAt(w, T, k + j) /\ k + j + Len(w) - 1 <= a
  BY <1>1, <1>2, <1>3, <1>4, <1>5, <1>6, IsAtInSlice
<1>8. PICK i \in f .. a, e \in f .. a : i = k + j /\ e = i + Len(w) - 1 /\ i <= e
  <2>1. PICK n \in Nat : n = Len(w) /\ n >= 4
    BY <1>6
  <2>2. k + j \in f .. a /\ k + j + n - 1 \in f .. a /\ k + j <= k + j + n - 1
    BY <1>1, <1>4, <1>7, <2>1
  <2> QED BY <2>1, <2>2
<1>9. ClosingAt(T, i, e)
  BY <1>7, <1>8 DEF ClosingAt
<1>10. LineStart(T, f, i)
  <2>1. CASE j = 1
    BY <1>1, <1>8, <2>1 DEF LineStart
  <2>2. CASE j # 1
    <3>1. j - 1 \in 1 .. a - k /\ k + (j - 1) = i - 1
      BY <1>4, <1>8, <2>2
    <3>2. u[j - 1] = "nl"
      BY <1>4, <2>2 DEF AtLineStart
    <3> QED BY <1>3, <3>1, <3>2 DEF LineStart
  <2> QED BY <2>1, <2>2
<1>11. e \in i .. a
  BY <1>8
<1> QED BY <1>9, <1>10, <1>11 DEF Sound

LEMMA SaveIsOneBlock ==
  ASSUME StreamOK, todo # <<>>, ~failed, ~torn,
         NEW a \in Nat, NEW f \in Nat, NEW c \in Nat, NEW h \in Nat,
         AtHead(a, f, c, h), f # 0,
         NEW saved, saved.content = artifact.content, saved.file = artifact.file
  PROVE  OneBlock(saved)
<1>1. PICK T : T = scene.text /\ T \in Seq(Units) /\ Len(T) \in Nat
  BY SceneText DEF StreamOK, StreamTypeOK
<1>2. /\ Inside(T, ~torn, a, f) /\ Current(T, artifact, a, f) /\ a <= received
      /\ received \in 0 .. Len(T)
  BY <1>1 DEF AtHead, StreamOK, StreamTypeOK
<1>3. /\ f <= a + 1 /\ Sound(T, f, a)
      /\ saved.content = Slice(T, f, a) /\ OpensFile(T, saved.file, f)
  BY <1>2 DEF Inside, Current
<1>4. a <= Len(T) /\ a \in 0 .. received /\ f \in 1 .. a + 1
  BY <1>2, <1>3
<1>5. Fences(Slice(T, f, a), Closings) = {}
  BY <1>1, <1>3, <1>4, SoundHasNoFence
<1>6. \E w \in Openings : /\ Opens(T, f, w)
                          /\ saved.file = Named <=> w \notin Closings
  BY <1>3 DEF OpensFile
<1> QED BY <1>1, <1>3, <1>4, <1>5, <1>6 DEF OneBlock

LEMMA EndFollows ==
  ASSUME StreamOK, HandleEnd
  PROVE  /\ StreamOK'
         /\ ~failed /\ ~torn =>
              OneBlock(Revision(Home, artifact.file, artifact.content, "ai", failed \/ torn))
<1>1. /\ todo # <<>> /\ Handled /\ temps' = temps /\ artifact' = NoArtifact
      /\ artifact # NoArtifact /\ scene \in Scenes
      /\ Head(todo).type = "artifact-end"
  BY DEF HandleEnd, Handling, StreamOK, StreamTypeOK
<1>2. temps' \in Nat /\ ArtifactOK(artifact')
  BY <1>1 DEF StreamOK, StreamTypeOK, ArtifactOK
<1>3. PICK a \in Nat, f \in Nat, c \in Nat, h \in Nat :
           /\ AtHead(a, f, c, h)
           /\ (~failed => Current(scene.text, artifact', c, h)) => StreamOK'
  BY <1>1, <1>2, HeadMoves
<1>4. f # 0 /\ h = 0
  BY <1>1, <1>3, SceneText, SegmentIs DEF AtHead
<1>5. Current(scene.text, artifact', c, h)
  BY <1>1, <1>4 DEF Current
<1>6. PICK saved :
        saved = Revision(Home, artifact.file, artifact.content, "ai", failed \/ torn)
  OBVIOUS
<1>7. saved.content = artifact.content /\ saved.file = artifact.file
  BY <1>6 DEF Revision
<1> QED BY <1>1, <1>3, <1>4, <1>5, <1>6, <1>7, SaveIsOneBlock

LEMMA StreamStepFollows ==
  ASSUME StreamOK, StreamStep
  PROVE  StreamOK'
<1>1. CASE \E upto \in received + 1 .. Len(scene.text) : Push(upto)
  BY <1>1, PushFollows
<1>2. CASE StreamEnds \/ Ended
  BY <1>2, StreamEndsFollows, EndedFollows
<1>3. CASE HandleProse \/ HandleStart \/ HandleChunk \/ SkipOrphan \/ HandleEnd
  BY <1>3, ProseFollows, StartFollows, ChunkFollows, OrphanFollows, EndFollows
<1>4. CASE RefuseName \/ Overrun \/ SaveFails
  <2>1. Throw /\ (artifact' = artifact \/ artifact' = NoArtifact)
    BY <1>4 DEF RefuseName, Overrun, SaveFails
  <2>2. ArtifactOK(artifact')
    BY <2>1 DEF StreamOK, StreamTypeOK, ArtifactOK
  <2> QED BY <2>1, <2>2, ThrowFollows
<1> QED BY <1>1, <1>2, <1>3, <1>4 DEF StreamStep, Finishing, Handle

(* The steps of the user, the network and the events.                      *)
LEMMA StreamRely ==
  ASSUME StreamOK, UNCHANGED <<scene, received, parserVars, todo, phase, failed,
                               torn, artifact, temps>>
  PROVE  StreamOK'
<1>1. PICK a, f, b, g : Following(a, f, b, g)
  BY DEF StreamOK
<1>2. UNCHANGED <<scene, received, buffer, inBlock, snippets, atMessageStart, todo, phase,
                  failed, torn, artifact, temps>>
  BY DEF parserVars
<1>3. StreamTypeOK'
  BY <1>2 DEF StreamOK, StreamTypeOK, ArtifactOK
<1>4. Following(a, f, b, g)'
  BY <1>1, <1>2 DEF Following, ParserAt
<1> QED BY <1>3, <1>4 DEF StreamOK

LEMMA OtherStepsRely ==
  ASSUME UserStep \/ NetworkStep \/ ReceiveEvent
           \/ UNCHANGED <<streamVars, editorVars>>
  PROVE  UNCHANGED <<scene, received, parserVars, todo, phase, failed, torn,
                     artifact, temps>>
<1>1. CASE UserStep
  BY <1>1 DEF UserStep, LoadSession, SelectTab, EmitSave, EditContent, CloseTab,
              ToggleRevisionHistory, streamVars
<1>2. CASE NetworkStep
  BY <1>2 DEF NetworkStep, AnswerList, ReceiveList, AnswerFetch, ReceiveFetch,
              ApplyEdit, Disconnect, streamVars
<1>3. CASE ReceiveEvent
  BY <1>3 DEF ReceiveEvent
<1>4. CASE UNCHANGED <<streamVars, editorVars>>
  BY <1>4 DEF streamVars
<1> QED BY <1>1, <1>2, <1>3, <1>4

LEMMA LogStep ==
  ASSUME EditorInvariant, [EditorNext]_<<streamVars, editorVars>>
  PROVE  \/ log' = log
         \/ HandleEnd /\ log' = Append(log, Revision(Home, artifact.file,
                                            artifact.content, "ai", failed \/ torn))
         \/ \E base, content : log' = Append(log, Revision(base.session, base.file,
                                                           content, "user", FALSE))
<1>1. CASE StreamStep
  BY <1>1 DEF StreamStep, Push, Finishing, StreamEnds, Handle, Ended, HandleProse, HandleStart,
              HandleChunk, RefuseName, Overrun, SkipOrphan, SaveFails, Throw, HandleEnd
<1>2. CASE UserStep
  BY <1>2 DEF UserStep, LoadSession, SelectTab, EmitSave, EditContent, CloseTab,
              ToggleRevisionHistory, streamVars
<1>3. CASE NetworkStep /\ ~ApplyEdit
  BY <1>3 DEF NetworkStep, AnswerList, ReceiveList, AnswerFetch, ReceiveFetch, Disconnect,
              streamVars
<1>4. CASE ApplyEdit
  BY <1>4 DEF ApplyEdit
<1>5. CASE ReceiveEvent
  BY <1>5 DEF ReceiveEvent
<1>6. CASE UNCHANGED <<streamVars, editorVars>>
  BY <1>6 DEF streamVars
<1> QED BY <1>1, <1>2, <1>3, <1>4, <1>5, <1>6 DEF EditorNext

LEMMA TextGrows ==
  ASSUME StreamOK, [EditorNext]_<<streamVars, editorVars>>
  PROVE  scene' = scene /\ received <= received'
<1>1. received \in Nat
  BY SceneText DEF StreamOK, StreamTypeOK
<1>2. CASE StreamStep
  <2>1. CASE \E upto \in received + 1 .. Len(scene.text) : Push(upto)
    BY <1>1, <2>1 DEF Push
  <2>2. CASE ~\E upto \in received + 1 .. Len(scene.text) : Push(upto)
    <3>1. UNCHANGED <<scene, received>>
      BY <1>2, <2>2 DEF StreamStep, Finishing, StreamEnds, Handle, Ended, HandleProse,
              HandleStart, HandleChunk, RefuseName, Overrun, SkipOrphan, SaveFails, Throw,
              HandleEnd, Handled
    <3> QED BY <1>1, <3>1
  <2> QED BY <2>1, <2>2
<1>3. CASE ~StreamStep
  BY <1>1, <1>3, OtherStepsRely DEF EditorNext
<1> QED BY <1>2, <1>3

(* What the property says of one revision, with the reply's text and how   *)
(* much of it has arrived as arguments.                                    *)
BlockOf(text, upto, revision) ==
  \E last \in 0 .. upto : \E first \in 1 .. last + 1 :
    /\ \E w \in Openings : /\ Opens(text, first, w)
                           /\ revision.file = Named <=> w \notin Closings
    /\ Fences(Slice(text, first, last), Closings) = {}
    /\ revision.content = Slice(text, first, last)

RevisionOK(text, upto, revision) ==
  revision.origin = "ai" => revision.spoiled \/ BlockOf(text, upto, revision)

AllOneBlock(text, upto, list) ==
  \A id \in DOMAIN list : RevisionOK(text, upto, list[id])

LEMMA MoreArrives ==
  ASSUME NEW text, NEW upto \in Nat, NEW more \in Nat, upto <= more, NEW list,
         AllOneBlock(text, upto, list)
  PROVE  AllOneBlock(text, more, list)
<1>1. \A last \in 0 .. upto : last \in 0 .. more
  OBVIOUS
<1>2. \A id \in DOMAIN list : BlockOf(text, upto, list[id]) => BlockOf(text, more, list[id])
  BY <1>1 DEF BlockOf
<1> QED BY <1>2 DEF AllOneBlock, RevisionOK

LEMMA OneMoreBlock ==
  ASSUME NEW text, NEW upto, NEW list, OwnSeq(list), AllOneBlock(text, upto, list),
         NEW revision, RevisionOK(text, upto, revision),
         NEW longer, longer = Append(list, revision)
  PROVE  AllOneBlock(text, upto, longer)
<1>1. LongerBy(list, revision, longer)
  BY Appended
<1> QED BY <1>1 DEF LongerBy, AllOneBlock

LEMMA SavedUnfolds ==
  SavedIsOneBlock <=> AllOneBlock(scene.text, received, log)
BY DEF SavedIsOneBlock, OneBlock, AllOneBlock, RevisionOK, BlockOf

LEMMA SavedStep ==
  ASSUME EditorInvariant, StreamOK, SavedIsOneBlock,
         [EditorNext]_<<streamVars, editorVars>>
  PROVE  StreamOK' /\ SavedIsOneBlock'
<1> DEFINE text == scene.text
           more == received'
<1>1. StreamOK'
  BY StreamStepFollows, StreamRely, OtherStepsRely DEF EditorNext
<1>2. scene' = scene /\ received <= more
  BY TextGrows
<1>3. received \in Nat /\ more \in Nat
  BY <1>1, SceneText DEF StreamOK, StreamTypeOK
<1>4. AllOneBlock(text, more, log)
  BY <1>2, <1>3, MoreArrives, SavedUnfolds
<1>5. OwnSeq(log)
  BY DEF EditorInvariant, LogOK
<1>6. AllOneBlock(text, more, log')
  <2>1. CASE log' = log
    BY <1>4, <2>1
  <2>2. CASE HandleEnd /\ log' = Append(log, Revision(Home, artifact.file,
                                            artifact.content, "ai", failed \/ torn))
    <3>1. PICK revision :
            revision = Revision(Home, artifact.file, artifact.content, "ai",
                                failed \/ torn)
      OBVIOUS
    <3>2. ~failed /\ ~torn => BlockOf(text, received, revision)
      BY <2>2, <3>1, EndFollows DEF OneBlock, BlockOf
    <3>3. received = more
      BY <2>2 DEF HandleEnd, Handled
    <3>4. revision.spoiled = (failed \/ torn)
      BY <3>1 DEF Revision
    <3>5. RevisionOK(text, more, revision)
      BY <3>2, <3>3, <3>4 DEF RevisionOK
    <3> QED BY <1>4, <1>5, <2>2, <3>1, <3>5, OneMoreBlock
  <2>3. CASE \E base, content :
               log' = Append(log, Revision(base.session, base.file, content,
                                           "user", FALSE))
    <3>1. PICK base, content :
            log' = Append(log, Revision(base.session, base.file, content,
                                        "user", FALSE))
      BY <2>3
    <3>2. PICK revision : revision = Revision(base.session, base.file, content,
                                              "user", FALSE)
      OBVIOUS
    <3>3. RevisionOK(text, more, revision)
      BY <3>2 DEF RevisionOK, Revision
    <3> QED BY <1>4, <1>5, <3>1, <3>2, <3>3, OneMoreBlock
  <2> QED BY <2>1, <2>2, <2>3, LogStep
<1>7. AllOneBlock(scene.text, received, log)'
  BY <1>2, <1>6 DEF AllOneBlock, RevisionOK, BlockOf
<1>8. SavedIsOneBlock'
  BY <1>7 DEF SavedIsOneBlock, OneBlock, AllOneBlock, RevisionOK, BlockOf
<1> QED BY <1>1, <1>8

LEMMA SavedInit ==
  EditorInit => StreamOK /\ SavedIsOneBlock
<1> SUFFICES ASSUME EditorInit PROVE StreamOK /\ SavedIsOneBlock
  OBVIOUS
<1>1. StreamOK
  BY StreamStarts DEF EditorInit
<1>2. log = <<>>
  BY DEF EditorInit, StreamInit
<1> QED BY <1>1, <1>2 DEF SavedIsOneBlock

(* For a text of any length, cut between any two of its characters, what   *)
(* handleSegments saves is one stretch of one block with the name of its   *)
(* fence, which does not reach past the block's closing line.  Excepted    *)
(* are replies that failed or were cut at one of the places where the      *)
(* parser passes the beginning of a closing line on as content (BadCut).   *)
THEOREM SavedIsOneBlockHolds == EditorSpec => []SavedIsOneBlock
<1>1. EditorInit => EditorInvariant /\ StreamOK /\ SavedIsOneBlock
  BY InitEstablishes, SavedInit
<1>2. EditorInvariant /\ StreamOK /\ SavedIsOneBlock
        /\ [EditorNext]_<<streamVars, editorVars>>
      => (EditorInvariant /\ StreamOK /\ SavedIsOneBlock)'
  BY StepKeeps, SavedStep
<1> QED BY <1>1, <1>2, PTL DEF EditorSpec
-----------------------------------------------------------------------------
(* What each part of the editor's state holds.                             *)
RevisionTyped(revision) ==
  /\ revision.session \in Sessions /\ revision.file \in Files
  /\ revision.content \in Content
  /\ revision.origin = "ai" => Len(revision.content) <= MaxContent

LogTyped == \A id \in Ids : RevisionTyped(log[id])

EventTyped(event) == /\ event.type = "start" => event.file \in Files
                     /\ event.type = "end" => event.temp \in Nat
WireTyped == \A n \in DOMAIN wire : EventTyped(wire[n])
NetTyped  == rooms \subseteq Sessions /\ missed \subseteq Nat

EditsTyped == /\ OwnSeq(edits)
              /\ \A n \in DOMAIN edits : /\ edits[n].id \in Ids
                                         /\ edits[n].content \in Content

LoadsTyped == /\ current \in Sessions \cup {NoSession}
              /\ loads \in Nat
              /\ \A get \in lists : get.generation \in 1 .. loads

ShowsTyped == /\ shown \in [Files -> Shown] /\ pending \in [Files -> Shown]
              /\ active \in Files \cup {NoFile}
              /\ \A s \in live : s.file \in Files

FetchTyped(get) == get.generation \in Nat /\ get.generation >= 1
PanelTyped(c) == /\ c.file \in Files \cup {NoFile}
                 /\ c.open \in BOOLEAN /\ c.loading \in BOOLEAN
PanelsTyped == /\ PanelTyped(panel)
               /\ \A get \in fetches : FetchTyped(get)

Kept == EditorInvariant /\ StreamOK

EditorTyped == /\ LogTyped /\ WireTyped /\ NetTyped /\ EditsTyped
               /\ LoadsTyped /\ ShowsTyped /\ PanelsTyped

LEMMA TypedSuffices ==
  ASSUME Kept, EditorTyped
  PROVE  EditorTypeOK
<1> USE DEF Kept, EditorTyped
<1>1. /\ scene \in Scenes /\ received \in 0 .. Len(scene.text)
      /\ buffer \in Seq(Units) /\ inBlock \in BOOLEAN /\ snippets \in Nat
      /\ atMessageStart \in BOOLEAN
      /\ phase \in {"streaming", "flushing", "ended"}
      /\ failed \in BOOLEAN /\ torn \in BOOLEAN
      /\ artifact = NoArtifact \/ (/\ artifact.file \in Files
                                   /\ Len(artifact.content) <= MaxContent)
  BY DEF StreamOK, StreamTypeOK, ArtifactOK
<1>2. \A id \in Ids : /\ log[id].session \in Sessions
                      /\ log[id].file \in Files
                      /\ log[id].origin = "ai" => Len(log[id].content) <= MaxContent
  BY DEF LogTyped, RevisionTyped
<1>3. /\ current \in Sessions \cup {NoSession} /\ loads \in Nat
      /\ \A get \in lists : get.generation \in 1 .. loads
  BY DEF LoadsTyped
<1>4. /\ shown \in [Files -> Shown] /\ pending \in [Files -> Shown]
      /\ active \in Files \cup {NoFile}
  BY DEF ShowsTyped
<1>5. /\ panel.file \in Files \cup {NoFile}
      /\ panel.open \in BOOLEAN /\ panel.loading \in BOOLEAN
  BY DEF PanelsTyped, PanelTyped
<1>6. panel.revisions \subseteq Ids
  BY DEF EditorInvariant, OneSessionShown, RevisionsOf
<1>7. \A get \in fetches : get.generation \in 1 .. panel.generation
  <2> TAKE get \in fetches
  <2>1. /\ get.generation \in Nat /\ get.generation <= panel.generation
        /\ get.generation >= 1 /\ panel.generation \in Nat
    BY DEF EditorInvariant, FetchOK, PanelsTyped, FetchTyped, RecordsOK, PanelOK
  <2> QED BY <2>1
<1>8. \A n \in DOMAIN edits : edits[n].id \in Ids
  BY DEF EditsTyped
<1>9. rooms \subseteq Sessions /\ missed \subseteq Nat
  BY DEF NetTyped
<1> HIDE DEF Kept, EditorTyped
<1> QED BY <1>1, <1>2, <1>3, <1>4, <1>5, <1>6, <1>7, <1>8, <1>9 DEF EditorTypeOK

(* Sequences: what is added is typed, and what was is.                     *)
LEMMA LogTypedAdded ==
  ASSUME LogOK, LogTyped, NEW revision, log' = Append(log, revision),
         RevisionTyped(revision)
  PROVE  LogTyped'
<1>1. PICK t : t = log'
  OBVIOUS
<1>2. LongerBy(log, revision, t)
  BY <1>1, Appended DEF LogOK
<1>3. \A id \in DOMAIN t : RevisionTyped(t[id])
  BY <1>2 DEF LongerBy, LogTyped, Ids
<1> QED BY <1>1, <1>3 DEF LogTyped, Ids, RevisionTyped

LEMMA WireTypedAdded ==
  ASSUME WireOK, WireTyped, NEW event, wire' = Append(wire, event), EventTyped(event)
  PROVE  WireTyped'
<1>1. PICK t : t = wire'
  OBVIOUS
<1>2. LongerBy(wire, event, t)
  BY <1>1, Appended DEF WireOK
<1>3. \A n \in DOMAIN t : EventTyped(t[n])
  BY <1>2 DEF LongerBy, WireTyped
<1> QED BY <1>1, <1>3 DEF WireTyped, EventTyped

LEMMA WireTypedTaken ==
  ASSUME WireOK, WireTyped, wire # <<>>, wire' = Tail(wire)
  PROVE  WireTyped' /\ EventTyped(Head(wire))
<1>1. PICK t : t = wire'
  OBVIOUS
<1>2. /\ Head(wire) = wire[1] /\ 1 \in DOMAIN wire
      /\ \A n \in DOMAIN t : n + 1 \in DOMAIN wire /\ t[n] = wire[n + 1]
  BY <1>1, Shortened DEF WireOK
<1>3. \A n \in DOMAIN t : EventTyped(t[n])
  BY <1>2 DEF WireTyped
<1> QED BY <1>1, <1>2, <1>3 DEF WireTyped, EventTyped

LEMMA LogOnlyGrows ==
  ASSUME EditorInvariant, [EditorNext]_<<streamVars, editorVars>>
  PROVE  LogGrows
<1>1. CASE log' = log
  BY <1>1, LogStays
<1>2. CASE \E revision : log' = Append(log, revision)
  BY <1>2, RevisionIsAdded DEF EditorInvariant
<1> QED BY <1>1, <1>2, LogStep

LEMMA ShownGrows ==
  ASSUME LogGrows
  PROVE  Shown \subseteq Shown'
<1>1. PICK ids : ids = Ids'
  OBVIOUS
<1>2. Ids \subseteq ids
  BY <1>1 DEF LogGrows
<1>3. [id : Ids \cup {0}, content : Content] \subseteq [id : ids \cup {0}, content : Content]
  BY <1>2
<1> QED BY <1>1, <1>3 DEF Shown, Content

LEMMA NothingShown == NotShown \in Shown /\ NotPending \in Shown
<1>1. <<>> \in Content
  BY DEF Content
<1> QED BY <1>1 DEF NotShown, NotPending, Shown

(* The steps of a reply: what is saved is the artifact that was typed.     *)
LEMMA SavedTyped ==
  ASSUME StreamOK, HandleEnd
  PROVE  RevisionTyped(Revision(Home, artifact.file, artifact.content, "ai",
                                 failed \/ torn))
<1>1. artifact \in Artifacts /\ artifact.file \in Files /\ Len(artifact.content) <= MaxContent
  BY DEF HandleEnd, StreamOK, StreamTypeOK, ArtifactOK
<1>2. PICK content : content = artifact.content /\ content \in Seq(Units)
  BY <1>1 DEF Artifacts
<1>3. content \in Content
  <2>1. Units \subseteq Units \cup Typed
    OBVIOUS
  <2>2. \A n \in DOMAIN content : content[n] \in Units \cup Typed
    BY <1>2
  <2> QED BY <1>2, <2>2, ElementsOf DEF Content
<1>4. Home \in Sessions
  BY ArtifactStreamAssumption
<1> QED BY <1>1, <1>2, <1>3, <1>4 DEF RevisionTyped, Revision

LEMMA EditIsTyped ==
  ASSUME EditsTyped, edits # <<>>
  PROVE  Head(edits).id \in Ids /\ Head(edits).content \in Content
<1>1. PICK t : t = Tail(edits)
  OBVIOUS
<1> QED BY <1>1, Shortened DEF EditsTyped

LEMMA LogTypedStep ==
  ASSUME Kept, EditorTyped, [EditorNext]_<<streamVars, editorVars>>
  PROVE  LogTyped'
<1> USE DEF Kept, EditorTyped, EditorInvariant
<1>1. CASE log' = log
  BY <1>1 DEF LogTyped, Ids, RevisionTyped, Content
<1>2. CASE log' # log /\ StreamStep
  <2>1. HandleEnd
    BY <1>2 DEF StreamStep, Push, Finishing, StreamEnds, Handle, Ended, HandleProse, HandleStart,
              HandleChunk, RefuseName, Overrun, SkipOrphan, SaveFails, Throw
  <2>2. PICK revision :
          revision = Revision(Home, artifact.file, artifact.content, "ai",
                              failed \/ torn)
    OBVIOUS
  <2>3. log' = Append(log, revision) /\ RevisionTyped(revision)
    BY <2>1, <2>2, SavedTyped DEF HandleEnd
  <2> QED BY <2>3, LogTypedAdded
<1>3. CASE log' # log /\ ApplyEdit
  <2>1. PICK edit : edit = Head(edits) /\ edits # <<>>
    BY <1>3 DEF ApplyEdit
  <2>2. edit.id \in Ids /\ edit.content \in Content
    BY <2>1, EditIsTyped
  <2>3. PICK base : base = log[edit.id] /\ base.session \in Sessions /\ base.file \in Files
    BY <2>2 DEF LogTyped, RevisionTyped
  <2>4. PICK revision : revision = Revision(base.session, base.file, edit.content,
                                            "user", FALSE)
    OBVIOUS
  <2>5. log' = Append(log, revision)
    BY <1>3, <2>1, <2>3, <2>4 DEF ApplyEdit
  <2>6. RevisionTyped(revision)
    BY <2>2, <2>3, <2>4 DEF RevisionTyped, Revision
  <2> QED BY <2>5, <2>6, LogTypedAdded
<1>4. log' = log \/ StreamStep \/ ApplyEdit
  <2>1. CASE UserStep
    BY <2>1 DEF UserStep, LoadSession, SelectTab, EmitSave, EditContent, CloseTab,
              ToggleRevisionHistory, streamVars
  <2>2. CASE NetworkStep
    BY <2>2 DEF NetworkStep, AnswerList, ReceiveList, AnswerFetch, ReceiveFetch,
              Disconnect, streamVars
  <2>3. CASE ReceiveEvent
    BY <2>3 DEF ReceiveEvent
  <2>4. CASE UNCHANGED <<streamVars, editorVars>>
    BY <2>4 DEF streamVars
  <2> QED BY <2>1, <2>2, <2>3, <2>4 DEF EditorNext
<1> QED BY <1>1, <1>2, <1>3, <1>4

LEMMA CurrentTemp ==
  ASSUME StreamOK, HandleEnd
  PROVE  artifact.temp \in Nat
BY DEF HandleEnd, StreamOK, StreamTypeOK, ArtifactOK, Artifacts

LEMMA WireTypedStep ==
  ASSUME Kept, EditorTyped, [EditorNext]_<<streamVars, editorVars>>
  PROVE  WireTyped'
<1> USE DEF Kept, EditorTyped, EditorInvariant
<1>1. CASE wire' = wire
  BY <1>1 DEF WireTyped, EventTyped
<1>2. CASE HandleStart /\ wire' # wire
  <2>1. PICK event : event = [type |-> "start", temp |-> temps + 1, session |-> Home,
                              file |-> Head(todo).file]
    OBVIOUS
  <2>2. wire' = Append(wire, event)
    BY <1>2, <2>1 DEF HandleStart, Tell
  <2>3. EventTyped(event)
    BY <1>2, <2>1, StartFollows DEF EventTyped
  <2> QED BY <2>2, <2>3, WireTypedAdded
<1>3. CASE wire' # wire /\ ((StreamStep /\ ~HandleStart) \/ ApplyEdit)
  <2>1. PICK event : wire' = Append(wire, event) /\ EventTyped(event)
    <3>1. CASE HandleChunk
      <4>1. PICK event : event = [type |-> "chunk", temp |-> artifact.temp,
                                  delta |-> Head(todo).text]
        OBVIOUS
      <4>2. wire' = Append(wire, event) \/ wire' = wire
        BY <3>1, <4>1 DEF HandleChunk, Tell
      <4>3. EventTyped(event)
        BY <4>1 DEF EventTyped
      <4> QED BY <1>3, <4>2, <4>3
    <3>2. CASE HandleEnd
      <4>1. PICK event : event = [type |-> "end", temp |-> artifact.temp,
                                  id |-> Len(log) + 1]
        OBVIOUS
      <4>2. wire' = Append(wire, event) \/ wire' = wire
        BY <3>2, <4>1 DEF HandleEnd, Tell
      <4>3. EventTyped(event)
        BY <3>2, <4>1, CurrentTemp DEF EventTyped
      <4> QED BY <1>3, <4>2, <4>3
    <3>3. CASE ApplyEdit
      <4>1. PICK event : event = [type |-> "created", id |-> Len(log) + 1]
        OBVIOUS
      <4>2. wire' = Append(wire, event) \/ wire' = wire
        BY <3>3, <4>1 DEF ApplyEdit, Tell, netVars
      <4>3. EventTyped(event)
        BY <4>1 DEF EventTyped
      <4> QED BY <1>3, <4>2, <4>3
    <3>4. CASE ~(HandleChunk \/ HandleEnd \/ ApplyEdit)
      BY <1>3, <3>4 DEF StreamStep, Push, Finishing, StreamEnds, Handle, Ended, HandleProse,
              RefuseName, Overrun, SkipOrphan, SaveFails, Throw, netVars
    <3> QED BY <3>1, <3>2, <3>3, <3>4
  <2> QED BY <2>1, WireTypedAdded
<1>4. CASE ReceiveEvent
  BY <1>4, WireTypedTaken DEF ReceiveEvent
<1>5. CASE Disconnect
  BY <1>5 DEF Disconnect, WireTyped
<1>6. CASE UserStep
  BY <1>1, <1>6 DEF UserStep, LoadSession, SelectTab, EmitSave, EditContent, CloseTab,
            ToggleRevisionHistory, streamVars, netVars
<1>7. CASE NetworkStep /\ ~ApplyEdit /\ ~Disconnect
  BY <1>1, <1>7 DEF NetworkStep, AnswerList, ReceiveList, AnswerFetch, ReceiveFetch,
            streamVars, netVars
<1>8. CASE UNCHANGED <<streamVars, editorVars>>
  BY <1>1, <1>8 DEF streamVars, netVars
<1>9. NetworkStep => ApplyEdit \/ Disconnect \/ (NetworkStep /\ ~ApplyEdit /\ ~Disconnect)
  OBVIOUS
<1>10. StreamStep => HandleStart \/ (StreamStep /\ ~HandleStart)
  OBVIOUS
<1> QED BY <1>1, <1>2, <1>3, <1>4, <1>5, <1>6, <1>7, <1>8, <1>9, <1>10 DEF EditorNext

LEMMA ToldTyped ==
  ASSUME NetTyped, NEW room, NEW event, EventTyped(event), Tell(room, event)
  PROVE  NetTyped'
<1>1. EndsIn({event}) \subseteq Nat
  BY DEF EndsIn, EventTyped
<1> QED BY <1>1 DEF NetTyped, Tell

(* The rooms of the tab and the artifacts whose end it does not hear of.   *)
LEMMA NetTypedStep ==
  ASSUME Kept, EditorTyped, [EditorNext]_<<streamVars, editorVars>>
  PROVE  NetTyped'
<1> USE DEF Kept, EditorTyped, EditorInvariant
<1>1. CASE UNCHANGED <<rooms, missed>>
  BY <1>1 DEF NetTyped
<1>2. CASE \E session \in Sessions : LoadSession(session)
  BY <1>2 DEF LoadSession, NetTyped
<1>3. CASE Disconnect
  <2>1. \A e \in Range(wire) : EventTyped(e)
    BY DEF Range, WireTyped
  <2>2. EndsIn(Range(wire)) \subseteq Nat
    BY <2>1 DEF EndsIn, EventTyped
  <2> QED BY <1>3, <2>2 DEF Disconnect, NetTyped
<1>4. CASE HandleStart
  <2>1. PICK event : event = [type |-> "start", temp |-> temps + 1, session |-> Home,
                              file |-> Head(todo).file]
    OBVIOUS
  <2>2. Tell(Home, event)
    BY <1>4, <2>1 DEF HandleStart
  <2>3. EventTyped(event)
    BY <1>4, <2>1, StartFollows DEF EventTyped
  <2> QED BY <2>2, <2>3, ToldTyped
<1>5. CASE HandleChunk
  <2>1. PICK event : event = [type |-> "chunk", temp |-> artifact.temp,
                              delta |-> Head(todo).text]
    OBVIOUS
  <2>2. Tell(Home, event)
    BY <1>5, <2>1 DEF HandleChunk
  <2>3. EventTyped(event)
    BY <2>1 DEF EventTyped
  <2> QED BY <2>2, <2>3, ToldTyped
<1>6. CASE HandleEnd
  <2>1. PICK event : event = [type |-> "end", temp |-> artifact.temp,
                              id |-> Len(log) + 1]
    OBVIOUS
  <2>2. Tell(Home, event)
    BY <1>6, <2>1 DEF HandleEnd
  <2>3. EventTyped(event)
    BY <1>6, <2>1, CurrentTemp DEF EventTyped
  <2> QED BY <2>2, <2>3, ToldTyped
<1>7. CASE ApplyEdit
  <2>1. PICK event : event = [type |-> "created", id |-> Len(log) + 1]
    OBVIOUS
  <2>2. PICK room : room = log[Head(edits).id].session
    OBVIOUS
  <2>3. Tell(room, event) \/ UNCHANGED <<rooms, missed>>
    BY <1>7, <2>1, <2>2 DEF ApplyEdit, netVars
  <2>4. EventTyped(event)
    BY <2>1 DEF EventTyped
  <2> QED BY <1>1, <2>3, <2>4, ToldTyped
<1>8. CASE StreamStep /\ ~(HandleStart \/ HandleChunk \/ HandleEnd)
  BY <1>1, <1>8 DEF StreamStep, Push, Finishing, StreamEnds, Handle, Ended, HandleProse,
              RefuseName, Overrun, SkipOrphan, SaveFails, Throw, netVars
<1>9. CASE UserStep /\ ~ \E session \in Sessions : LoadSession(session)
  BY <1>1, <1>9 DEF UserStep, SelectTab, EmitSave, EditContent, CloseTab,
              ToggleRevisionHistory, streamVars, netVars
<1>10. CASE NetworkStep /\ ~(ApplyEdit \/ Disconnect)
  BY <1>1, <1>10 DEF NetworkStep, AnswerList, ReceiveList, AnswerFetch, ReceiveFetch,
              streamVars, netVars
<1>11. CASE ReceiveEvent \/ UNCHANGED <<streamVars, editorVars>>
  BY <1>1, <1>11 DEF ReceiveEvent, streamVars, netVars
<1> QED BY <1>2, <1>3, <1>4, <1>5, <1>6, <1>7, <1>8, <1>9, <1>10, <1>11 DEF EditorNext

LEMMA EditsTypedStep ==
  ASSUME Kept, EditorTyped, [EditorNext]_<<streamVars, editorVars>>
  PROVE  EditsTyped'
<1> USE DEF Kept, EditorTyped, EditorInvariant
<1>1. LogGrows
  BY LogOnlyGrows
<1>2. CASE edits' = edits
  BY <1>1, <1>2 DEF EditsTyped, LogGrows, Content
<1>3. CASE ApplyEdit
  <2>1. PICK t : t = edits'
    OBVIOUS
  <2>2. /\ OwnSeq(t)
        /\ \A n \in DOMAIN t : n + 1 \in DOMAIN edits /\ t[n] = edits[n + 1]
    BY <1>3, <2>1, Shortened DEF ApplyEdit, EditsTyped
  <2>3. \A n \in DOMAIN t : t[n].id \in Ids' /\ t[n].content \in Content
    BY <1>1, <2>2 DEF EditsTyped, LogGrows
  <2> QED BY <2>1, <2>2, <2>3 DEF EditsTyped, Content
<1>4. CASE edits' # edits /\ \E file \in Files : EmitSave(file)
  <2>1. PICK file \in Files : EmitSave(file)
    BY <1>4
  <2>2. PICK edit : edit = pending[file]
    OBVIOUS
  <2>3. edits' = Append(edits, edit) /\ edit # NotPending
    BY <1>4, <2>1, <2>2 DEF EmitSave
  <2>4. edit.id \in Ids /\ edit.content \in Content
    BY <2>2, <2>3 DEF OneSessionShown, RevisionsOf, ShowsTyped, Shown
  <2>5. PICK t : t = edits'
    OBVIOUS
  <2>6. OwnSeq(t) /\ LongerBy(edits, edit, t)
    BY <2>3, <2>5, Appended DEF EditsTyped
  <2>7. \A n \in DOMAIN t : t[n].id \in Ids' /\ t[n].content \in Content
    BY <1>1, <2>4, <2>6 DEF EditsTyped, LogGrows, LongerBy
  <2> QED BY <2>5, <2>6, <2>7 DEF EditsTyped, Content
<1>5. edits' = edits \/ ApplyEdit \/ \E file \in Files : EmitSave(file)
  <2>1. CASE UserStep
    BY <2>1 DEF UserStep, LoadSession, SelectTab, EditContent, CloseTab,
              ToggleRevisionHistory
  <2>2. CASE NetworkStep
    BY <2>2 DEF NetworkStep, AnswerList, ReceiveList, AnswerFetch, ReceiveFetch, Disconnect,
              editorVars
  <2>3. CASE ReceiveEvent
    BY <2>3 DEF ReceiveEvent
  <2>4. CASE UNCHANGED editorVars
    BY <2>4 DEF editorVars
  <2> QED BY <2>1, <2>2, <2>3, <2>4 DEF EditorNext
<1> QED BY <1>2, <1>3, <1>4, <1>5

LEMMA LoadsTypedStep ==
  ASSUME Kept, EditorTyped, [EditorNext]_<<streamVars, editorVars>>
  PROVE  LoadsTyped'
<1> USE DEF Kept, EditorTyped, EditorInvariant
<1>1. CASE UNCHANGED <<current, loads, lists>>
  BY <1>1 DEF LoadsTyped
<1>2. CASE \E session \in Sessions : LoadSession(session)
  <2>1. PICK session \in Sessions : LoadSession(session)
    BY <1>2
  <2>2. PICK new : lists' = lists \cup {new} /\ new.generation = loads + 1
    <3>1. PICK new : new = [generation |-> loads + 1, session |-> session,
                            answered |-> FALSE, answer |-> {}]
      OBVIOUS
    <3>2. new.generation = loads + 1
      BY <3>1
    <3>3. lists' = lists \cup {new}
      BY <2>1, <3>1 DEF LoadSession
    <3> QED BY <3>2, <3>3
  <2>3. current' = session /\ loads' = loads + 1
    BY <2>1 DEF LoadSession
  <2> QED BY <2>2, <2>3 DEF LoadsTyped
<1>3. CASE \E get \in lists : AnswerList(get)
  <2>1. PICK get \in lists : AnswerList(get)
    BY <1>3
  <2>2. PICK new : /\ lists' = (lists \ {get}) \cup {new}
                   /\ new = [get EXCEPT !.answered = TRUE,
                                        !.answer = LatestOf(get.session)]
    BY <2>1 DEF AnswerList
  <2>3. new.generation = get.generation
    BY <2>2 DEF RecordsOK, IsList, GetFields
  <2>4. current' = current /\ loads' = loads
    BY <2>1 DEF AnswerList
  <2> QED BY <2>2, <2>3, <2>4 DEF LoadsTyped
<1>4. CASE \E get \in lists : ReceiveList(get)
  BY <1>4 DEF ReceiveList, LoadsTyped
<1>5. \/ UNCHANGED <<current, loads, lists>>
      \/ \E session \in Sessions : LoadSession(session)
      \/ \E get \in lists : AnswerList(get) \/ ReceiveList(get)
  <2>1. CASE UserStep
    BY <2>1 DEF UserStep, SelectTab, EmitSave, EditContent, CloseTab,
              ToggleRevisionHistory
  <2>2. CASE NetworkStep
    BY <2>2 DEF NetworkStep, AnswerFetch, ReceiveFetch, ApplyEdit, Disconnect, editorVars,
              storeVars
  <2>3. CASE ReceiveEvent
    BY <2>3 DEF ReceiveEvent
  <2>4. CASE UNCHANGED editorVars
    BY <2>4 DEF editorVars, storeVars
  <2> QED BY <2>1, <2>2, <2>3, <2>4 DEF EditorNext
<1> QED BY <1>1, <1>2, <1>3, <1>4, <1>5

(* The files that are shown or being written.                              *)
LEMMA VisibleFiles ==
  ASSUME ShowsTyped
  PROVE  Visible \subseteq Files
BY DEF ShowsTyped, Visible

(* The newest of some revisions of a session.                              *)
LEMMA NewestTyped ==
  ASSUME LogOK, LogTyped, NEW newest, newest \subseteq Ids, newest # {}
  PROVE  [id |-> Max(newest), content |-> log[Max(newest)].content] \in Shown
<1>1. Len(log) \in Nat /\ Ids = 1 .. Len(log)
  BY DEF LogOK, Ids
<1>2. Max(newest) \in newest
  BY <1>1, MaxIsIn
<1>3. PICK id \in Ids, content \in Content : /\ id = Max(newest)
                                             /\ content = log[Max(newest)].content
  BY <1>2 DEF LogTyped, RevisionTyped
<1> QED BY <1>3 DEF Shown

LEMMA EventShowsTyped ==
  ASSUME Kept, EditorTyped, ReceiveEvent
  PROVE  ShowsTyped'
<1> USE DEF Kept, EditorTyped, EditorInvariant
<1>1. Shown' = Shown /\ pending' = pending
  BY DEF ReceiveEvent, Shown, Ids, Content
<1>2. PICK event : event = Head(wire)
  OBVIOUS
<1>3. EventOK(event) /\ EventTyped(event)
  <2>1. wire # <<>> /\ wire' = Tail(wire) /\ log' = log
    BY DEF ReceiveEvent
  <2> QED BY <1>2, <2>1, EventIsTaken, WireTypedTaken
<1>4. CASE Started(event)
  <2>1. shown' = shown /\ event.file \in Files
    BY <1>3, <1>4 DEF Started, EventTyped
  <2>2. PICK new : new = [temp |-> event.temp, file |-> event.file,
                          session |-> event.session, content |-> <<>>]
    OBVIOUS
  <2>3. new.file \in Files
    BY <2>1, <2>2
  <2>4. \/ live' = live \cup {new} /\ active' = event.file
        \/ live' = live /\ active' = active
    BY <1>4, <2>2 DEF Started
  <2>5. /\ \A s \in live' : s.file \in Files
        /\ active' \in Files \cup {NoFile}
    BY <2>1, <2>3, <2>4 DEF ShowsTyped
  <2> QED BY <1>1, <2>1, <2>5 DEF ShowsTyped
<1>5. CASE Extended(event)
  <2>1. ASSUME NEW s \in live'
        PROVE  s.file \in Files
    <3>1. PICK r \in live : s = r \/ s = [r EXCEPT !.content = @ \o event.delta]
      BY <1>5 DEF Extended
    <3>2. LiveOK(r) /\ r.file \in Files
      BY DEF RecordsOK, ShowsTyped
    <3> QED BY <3>1, <3>2 DEF LiveOK, LiveFields
  <2>2. shown' = shown /\ active' = active
    BY <1>5 DEF Extended
  <2> QED BY <1>1, <2>1, <2>2 DEF ShowsTyped
<1>6. ASSUME NEW id \in Ids, Upsert(id)
      PROVE  shown' \in [Files -> Shown]
  <2>1. PICK now : now = [id |-> id, content |-> log[id].content]
    OBVIOUS
  <2>2. log[id].content \in Content /\ log[id].file \in Files
    BY DEF LogTyped, RevisionTyped
  <2>3. now \in Shown
    BY <2>1, <2>2 DEF Shown
  <2>4. shown' = [shown EXCEPT ![log[id].file] = now]
    BY <1>6, <2>1 DEF Upsert
  <2> QED BY <2>2, <2>3, <2>4 DEF ShowsTyped
<1>7. CASE Finished(event)
  <2>1. event.id \in Ids
    BY <1>3, <1>7 DEF Finished, EventOK
  <2>2. shown' \in [Files -> Shown]
    BY <1>6, <1>7, <2>1 DEF Finished, ShowsTyped
  <2>3. live' \subseteq live /\ active' = active
    BY <1>7 DEF Finished
  <2> QED BY <1>1, <2>2, <2>3 DEF ShowsTyped
<1>8. CASE CreatedElsewhere(event)
  <2>1. event.id \in Ids
    BY <1>3, <1>8 DEF CreatedElsewhere, EventOK
  <2>2. shown' \in [Files -> Shown]
    BY <1>6, <1>8, <2>1 DEF CreatedElsewhere, ShowsTyped
  <2>3. live' = live /\ active' = active
    BY <1>8 DEF CreatedElsewhere
  <2> QED BY <1>1, <2>2, <2>3 DEF ShowsTyped
<1> QED BY <1>2, <1>4, <1>5, <1>7, <1>8 DEF ReceiveEvent

LEMMA ShowsTypedStep ==
  ASSUME Kept, EditorTyped, [EditorNext]_<<streamVars, editorVars>>
  PROVE  ShowsTyped'
<1> USE DEF Kept, EditorTyped, EditorInvariant
<1>1. Shown \subseteq Shown' /\ NotShown \in Shown /\ NotPending \in Shown
  BY LogOnlyGrows, ShownGrows, NothingShown
<1>2. ASSUME shown' \in [Files -> Shown], pending' \in [Files -> Shown],
             active' \in Files \cup {NoFile}, \A s \in live' : s.file \in Files
      PROVE  ShowsTyped'
  <2>1. PICK S : S = Shown'
    OBVIOUS
  <2>2. shown' \in [Files -> S] /\ pending' \in [Files -> S]
    BY <1>1, <1>2, <2>1
  <2> QED BY <1>2, <2>1, <2>2 DEF ShowsTyped
<1>3. CASE UNCHANGED <<shown, pending, active, live>>
  BY <1>2, <1>3 DEF ShowsTyped
<1>4. CASE \E session \in Sessions : LoadSession(session)
  <2>1. /\ shown' = [f \in Files |-> NotShown] /\ live' = {} /\ active' = NoFile
        /\ pending' = [f \in Files |-> NotPending]
    BY <1>4 DEF LoadSession
  <2> QED BY <1>1, <1>2, <2>1
<1>5. CASE \/ \E file \in Files : SelectTab(file)
           \/ CloseTab
  <2>1. UNCHANGED <<shown, pending, live>> /\ active' \in Files \cup {NoFile}
    BY <1>5, VisibleFiles DEF SelectTab, CloseTab
  <2> QED BY <1>2, <2>1 DEF ShowsTyped
<1>6. CASE \E file \in Files : EmitSave(file)
  <2>1. PICK file \in Files : EmitSave(file)
    BY <1>6
  <2>2. UNCHANGED <<shown, active, live>>
        /\ pending' = [pending EXCEPT ![file] = NotPending]
    BY <2>1 DEF EmitSave
  <2>3. pending' \in [Files -> Shown]
    BY <1>1, <2>2 DEF ShowsTyped
  <2> QED BY <1>2, <2>2, <2>3 DEF ShowsTyped
<1>7. CASE \E file \in Files, text \in Typed : EditContent(file, <<text>>)
  <2>1. PICK file \in Files, text \in Typed : EditContent(file, <<text>>)
    BY <1>7
  <2>2. <<text>> \in Content
    BY DEF Content
  <2>3. PICK content \in Content : content = <<text>>
    BY <2>2
  <2>4. shown[file] \in Shown
    BY DEF ShowsTyped
  <2>5. PICK now, later : /\ now = [shown[file] EXCEPT !.content = content]
                          /\ later = [id |-> shown[file].id, content |-> content]
    OBVIOUS
  <2>6. now \in Shown /\ later \in Shown
    BY <2>4, <2>5 DEF Shown
  <2>7. /\ shown' = [shown EXCEPT ![file] = now]
        /\ pending' = [pending EXCEPT ![file] = later]
        /\ UNCHANGED <<active, live>>
    BY <2>1, <2>3, <2>5 DEF EditContent
  <2>8. shown' \in [Files -> Shown] /\ pending' \in [Files -> Shown]
    BY <2>6, <2>7 DEF ShowsTyped
  <2> QED BY <1>2, <2>7, <2>8 DEF ShowsTyped
<1>8. CASE \E get \in lists : ReceiveList(get)
  <2>1. PICK get \in lists : ReceiveList(get)
    BY <1>8
  <2>2. UNCHANGED <<pending, live>>
    BY <2>1 DEF ReceiveList
  <2>3. get.answer \subseteq Ids
    BY DEF ListOK
  <2>4. active' \in Files \cup {NoFile}
    <3>1. \A id \in get.answer : log[id].file \in Files
      BY <2>3 DEF LogTyped, RevisionTyped
    <3> QED BY <2>1, <3>1 DEF ReceiveList, ShowsTyped
  <2>5. shown' \in [Files -> Shown]
    <3> DEFINE newest(f) == {id \in get.answer : log[id].file = f}
    <3>1. CASE shown' = shown
      BY <3>1 DEF ShowsTyped
    <3>2. CASE shown' # shown
      <4>1. shown' = [f \in Files |->
                IF newest(f) = {} THEN NotShown
                ELSE [id |-> Max(newest(f)), content |-> log[Max(newest(f))].content]]
        BY <2>1, <3>2 DEF ReceiveList
      <4>2. ASSUME NEW f \in Files, newest(f) # {}
            PROVE  [id |-> Max(newest(f)), content |-> log[Max(newest(f))].content]
                     \in Shown
        <5>1. newest(f) \subseteq Ids
          BY <2>3
        <5> HIDE DEF newest
        <5> QED BY <4>2, <5>1, NewestTyped
      <4> HIDE DEF newest
      <4> QED BY <1>1, <4>1, <4>2
    <3> QED BY <3>1, <3>2
  <2> QED BY <1>2, <2>2, <2>4, <2>5 DEF ShowsTyped
<1>9. CASE ReceiveEvent
  BY <1>9, EventShowsTyped
<1>10. \/ UNCHANGED <<shown, pending, active, live>>
       \/ \E session \in Sessions : LoadSession(session)
       \/ \E file \in Files : SelectTab(file) \/ EmitSave(file)
       \/ \E file \in Files, text \in Typed : EditContent(file, <<text>>)
       \/ CloseTab \/ ReceiveEvent
       \/ \E get \in lists : ReceiveList(get)
  <2>1. CASE UserStep
    BY <2>1 DEF UserStep, ToggleRevisionHistory
  <2>2. CASE NetworkStep
    BY <2>2 DEF NetworkStep, AnswerList, AnswerFetch, ReceiveFetch, ApplyEdit, Disconnect,
              editorVars, storeVars
  <2>3. CASE UNCHANGED editorVars
    BY <2>3 DEF editorVars, storeVars
  <2> QED BY <2>1, <2>2, <2>3 DEF EditorNext
<1> QED BY <1>3, <1>4, <1>5, <1>6, <1>7, <1>8, <1>9, <1>10

LEMMA PanelsTypedStep ==
  ASSUME Kept, EditorTyped, [EditorNext]_<<streamVars, editorVars>>
  PROVE  PanelsTyped'
<1> USE DEF Kept, EditorTyped, EditorInvariant
<1>1. /\ IsPanel(panel) /\ PanelTyped(panel) /\ panel.generation \in Nat
      /\ \A get \in fetches : FetchTyped(get)
  BY DEF RecordsOK, PanelOK, PanelsTyped
<1>2. ASSUME NEW c, c = panel', PanelTyped(c), \A get \in fetches' : FetchTyped(get)
      PROVE  PanelsTyped'
  BY <1>2 DEF PanelsTyped, PanelTyped, FetchTyped
<1>3. CASE UNCHANGED panelVars
  BY <1>3 DEF panelVars, PanelsTyped, PanelTyped, FetchTyped
<1>4. CASE ResetPanel
  <2>1. PICK c : c = panel' /\ c = [open |-> FALSE, file |-> NoFile, revisions |-> {},
                        loading |-> FALSE, generation |-> panel.generation + 1]
    BY <1>4 DEF ResetPanel, Closed
  <2>2. c.file = NoFile /\ c.open = FALSE /\ c.loading = FALSE
    BY <2>1
  <2>3. PanelTyped(c)
    BY <2>2 DEF PanelTyped
  <2>4. fetches' = fetches
    BY <1>4 DEF ResetPanel
  <2> QED BY <1>1, <1>2, <2>1, <2>3, <2>4
<1>5. CASE \E file \in Files : LoadHistory(file)
  <2>1. PICK file \in Files : LoadHistory(file)
    BY <1>5
  <2>2. PICK c : c = panel' /\ c = [open |-> TRUE, file |-> file, revisions |-> {},
                        loading |-> TRUE, generation |-> panel.generation + 1]
    BY <2>1 DEF LoadHistory
  <2>3. PanelTyped(c)
    BY <2>2 DEF PanelTyped
  <2>4. PICK new : new = [generation |-> panel.generation + 1, session |-> current,
                          file |-> file, answered |-> FALSE, answer |-> {}]
    OBVIOUS
  <2>5. new.generation = panel.generation + 1
    BY <2>4
  <2>6. FetchTyped(new)
    BY <1>1, <2>5 DEF FetchTyped
  <2>7. fetches' = fetches \cup {new}
    BY <2>1, <2>4 DEF LoadHistory
  <2> QED BY <1>1, <1>2, <2>2, <2>3, <2>6, <2>7
<1>6. CASE panel' = [panel EXCEPT !.open = FALSE] /\ fetches' = fetches
  <2>1. PICK c : c = panel' /\ c = [panel EXCEPT !.open = FALSE]
    BY <1>6
  <2>2. PanelTyped(c)
    BY <1>1, <2>1 DEF PanelTyped, IsPanel, PanelFields
  <2> QED BY <1>1, <1>2, <1>6, <2>1, <2>2
<1>7. CASE \E get \in fetches : AnswerFetch(get)
  <2>1. PICK get \in fetches : AnswerFetch(get)
    BY <1>7
  <2>2. PICK new : /\ fetches' = (fetches \ {get}) \cup {new}
                   /\ new = [get EXCEPT !.answered = TRUE,
                                !.answer = RevisionsOf(get.session, get.file)]
    BY <2>1 DEF AnswerFetch
  <2>3. new.generation = get.generation
    BY <2>2 DEF RecordsOK, IsFetch, GetFields
  <2>4. FetchTyped(new) /\ panel' = panel
    BY <1>1, <2>1, <2>3 DEF FetchTyped, AnswerFetch
  <2> QED BY <1>1, <1>2, <2>2, <2>4
<1>8. CASE \E get \in fetches : ReceiveFetch(get)
  <2>1. PICK get \in fetches : ReceiveFetch(get)
    BY <1>8
  <2>2. PICK c, revisions, loading :
          /\ c = panel' /\ loading \in BOOLEAN
          /\ c = [panel EXCEPT !.revisions = revisions, !.loading = loading]
    <3>1. PICK loading : loading = IF get.generation = panel.generation THEN FALSE
                                   ELSE panel.loading
      OBVIOUS
    <3>2. loading \in BOOLEAN
      BY <1>1, <3>1 DEF PanelTyped
    <3>3. \E revisions :
            panel' = [panel EXCEPT !.revisions = revisions, !.loading = loading]
      BY <2>1, <3>1 DEF ReceiveFetch
    <3> QED BY <3>2, <3>3
  <2>3. PanelTyped(c)
    BY <1>1, <2>2 DEF PanelTyped, IsPanel, PanelFields
  <2>4. fetches' = fetches \ {get}
    BY <2>1 DEF ReceiveFetch
  <2> QED BY <1>1, <1>2, <2>2, <2>3, <2>4
<1>9. CASE ReceiveEvent
  <2>1. fetches' = fetches
    BY <1>9 DEF ReceiveEvent
  <2>2. PICK event : event = Head(wire)
    OBVIOUS
  <2>3. \/ panel' = panel
        \/ \E id : panel' = [panel EXCEPT !.revisions = @ \cup {id}]
    BY <1>9, <2>2 DEF ReceiveEvent, Started, Extended, Finished, CreatedElsewhere,
                      Upsert
  <2>4. PICK c : c = panel'
    OBVIOUS
  <2>5. PanelTyped(c)
    BY <1>1, <2>3, <2>4 DEF PanelTyped, IsPanel, PanelFields
  <2> QED BY <1>1, <1>2, <2>1, <2>4, <2>5
<1>10. ASSUME UserStep
       PROVE  \/ UNCHANGED panelVars \/ ResetPanel
              \/ \E file \in Files : LoadHistory(file)
              \/ panel' = [panel EXCEPT !.open = FALSE] /\ fetches' = fetches
  <2>1. CASE \E session \in Sessions : LoadSession(session)
    BY <2>1 DEF LoadSession
  <2>2. CASE \E file \in Files : SelectTab(file)
    BY <2>2 DEF SelectTab
  <2>3. CASE \E file \in Files : EmitSave(file) \/ \E text \in Typed :
                                                     EditContent(file, <<text>>)
    BY <2>3 DEF EmitSave, EditContent
  <2>4. CASE CloseTab
    BY <2>4, VisibleFiles DEF CloseTab
  <2>5. CASE ToggleRevisionHistory
    BY <2>5 DEF ToggleRevisionHistory, ShowsTyped
  <2> QED BY <1>10, <2>1, <2>2, <2>3, <2>4, <2>5 DEF UserStep
<1>11. CASE NetworkStep
  BY <1>3, <1>7, <1>8, <1>11 DEF NetworkStep, AnswerList, ReceiveList, ApplyEdit,
                                 Disconnect, editorVars, storeVars
<1>12. CASE UserStep
  BY <1>3, <1>4, <1>5, <1>6, <1>10, <1>12
<1>13. CASE UNCHANGED editorVars
  BY <1>3, <1>13 DEF editorVars, storeVars
<1> QED BY <1>9, <1>11, <1>12, <1>13 DEF EditorNext

LEMMA TypedStarts == EditorInit => EditorTyped
<1> SUFFICES ASSUME EditorInit PROVE EditorTyped
  OBVIOUS
<1>1. /\ log = <<>> /\ wire = <<>> /\ edits = <<>>
      /\ OwnSeq(<<>>) /\ DOMAIN <<>> = {}
  BY DEF EditorInit, StreamInit, OwnSeq
<1>2. LogTyped /\ WireTyped /\ EditsTyped /\ NetTyped
  BY <1>1 DEF LogTyped, WireTyped, EditsTyped, NetTyped, Ids, EditorInit, StreamInit
<1>3. LoadsTyped /\ ShowsTyped
  BY NothingShown DEF EditorInit, LoadsTyped, ShowsTyped
<1>4. PanelsTyped
  <2>1. PICK c : c = panel /\ c = [open |-> FALSE, file |-> NoFile, revisions |-> {},
                                   loading |-> FALSE, generation |-> 0]
    BY DEF EditorInit, Closed
  <2>2. c.file = NoFile /\ c.open = FALSE /\ c.loading = FALSE
    BY <2>1
  <2>3. PanelTyped(c)
    BY <2>2 DEF PanelTyped
  <2>4. fetches = {}
    BY DEF EditorInit
  <2> QED BY <2>1, <2>3, <2>4 DEF PanelsTyped
<1> QED BY <1>2, <1>3, <1>4 DEF EditorTyped

(* The types of everything the parser, the gateway and the editor keep;    *)
(* among them that no saved file is longer than the limit.                 *)
THEOREM EditorTypeCorrect == EditorSpec => []EditorTypeOK
<1>1. EditorInit => Kept /\ SavedIsOneBlock /\ EditorTyped
  BY InitEstablishes, SavedInit, TypedStarts DEF Kept
<1>2. Kept /\ SavedIsOneBlock /\ EditorTyped /\ [EditorNext]_<<streamVars, editorVars>>
      => (Kept /\ SavedIsOneBlock /\ EditorTyped)'
  <2> SUFFICES ASSUME Kept, SavedIsOneBlock, EditorTyped,
                      [EditorNext]_<<streamVars, editorVars>>
               PROVE  (Kept /\ SavedIsOneBlock /\ EditorTyped)'
    OBVIOUS
  <2>1. Kept' /\ SavedIsOneBlock'
    BY StepKeeps, SavedStep DEF Kept
  <2>2. EditorTyped'
    BY LogTypedStep, WireTypedStep, NetTypedStep, EditsTypedStep, LoadsTypedStep, ShowsTypedStep,
       PanelsTypedStep DEF EditorTyped
  <2> QED BY <2>1, <2>2
<1>3. Kept /\ EditorTyped => EditorTypeOK
  BY TypedSuffices
<1> QED BY <1>1, <1>2, <1>3, PTL DEF EditorSpec
=============================================================================
