--------------------------- MODULE ChatView_proofs ---------------------------
(***************************************************************************)
(* Proofs about what a browser tab shows, for any number of replies,       *)
(* tokens, sessions, loads and lost connections: its types, the spinner    *)
(* and the composer.  That no late event or answer of another session      *)
(* blocks the composer rests on facts about what is under way: a history   *)
(* holds replies of the session it was asked for, only a reply that began  *)
(* is announced, and `updated` carries a settled row.                      *)
(*                                                                         *)
(* What is shown of a reply that is followed from its beginning, with the  *)
(* packets on their way, is its text so far: the tab never leaves its room *)
(* or its session meanwhile, and packets arrive in order.                  *)
(***************************************************************************)
EXTENDS ChatView, SequenceTheorems, NaturalsInduction, WellFoundedInduction,
        TLAPS

MessageStates == {"none", "streaming"} \cup Outcomes

Events  == [type : {"created", "token", "updated"}, message : Messages,
            shown : ShownMessages]
Emitted == [type : {"join", "leave"}, session : Sessions]
Stages  == {"none", "requested", "reconciled", "answered", "failed", "done"}
Loads   == [session : Sessions \cup {NoSession}, stage : Stages,
            history : [Messages -> ShownMessages]]

ChannelTypes == /\ status \in [Messages -> MessageStates]
                /\ wire \in Seq(Events)
                /\ upstream \in Seq(Emitted)
                /\ loads \in [1..MaxLoads -> Loads]

(* A reply has a session from its start on; once it is settled, its row is *)
(* complete.                                                               *)
RowsOK == /\ \A m \in Messages : home[m] = NoSession <=> status[m] = "none"
          /\ settled \subseteq Messages
          /\ \A m \in settled : status[m] = "complete"

(* What streams in a list of messages belongs to this session.             *)
OwnStreaming(session, list) ==
  \A m \in Messages : list[m].status = "streaming" =>
                        home[m] = session /\ home[m] # NoSession

HistoriesOwn == \A g \in 1..MaxLoads : OwnStreaming(loads[g].session,
                                                    loads[g].history)

EventOK(homes, event) ==
  /\ homes[event.message] # NoSession
  /\ event.type = "updated" => event.shown.status = "complete"

EventsOwn == \A n \in 1..Len(wire) : EventOK(home, wire[n])

(* The newest request, while it is out, asks for the session that is open. *)
NewestIsCurrent ==
  generation > 0 => \/ loads[generation].stage = "done"
                    \/ loads[generation].session = current

ViewInvariant == /\ TypeOK /\ ChannelTypes
                 /\ RowsOK /\ HistoriesOwn /\ EventsOwn
                 /\ OwnStreaming(current, shown)
                 /\ NewestIsCurrent /\ LoadingIsNewest
-----------------------------------------------------------------------------
(* Texts and rows.                                                         *)
LEMMA TextIsSequence ==
  ASSUME NEW n \in 0..MaxTokens
  PROVE  Text(n) \in Seq(1..MaxTokens)
<1>1. n \in Nat /\ \A i \in 1..n : i \in 1..MaxTokens
  BY ChatViewAssumption
<1>2. Text(n) \in [1..n -> 1..MaxTokens]
  BY <1>1 DEF Text
<1> QED BY <1>1, <1>2, SeqDef

LEMMA ShownIsMessage ==
  ASSUME NEW s \in MessageStates, NEW text \in Seq(1..MaxTokens)
  PROVE  Shown(s, text) \in ShownMessages /\ Shown(s, text).status = s
BY DEF Shown, ShownMessages, MessageStates

LEMMA EmptyText == <<>> \in Seq(1..MaxTokens)
OBVIOUS

LEMMA RowIsMessage ==
  ASSUME TypeOK, ChannelTypes, NEW m \in Messages
  PROVE  Row(m) \in ShownMessages /\ Row(m).status = status[m]
<1>1. status[m] \in MessageStates /\ produced[m] \in 0..MaxTokens
  BY DEF TypeOK, ChannelTypes
<1>2. PICK text \in Seq(1..MaxTokens) : Row(m) = Shown(status[m], text)
  BY <1>1, TextIsSequence, EmptyText DEF Row
<1> QED BY <1>1, <1>2, ShownIsMessage

LEMMA EmptyIsList == /\ Empty \in [Messages -> ShownMessages]
                     /\ \A m \in Messages : Empty[m].status = "none"
<1>1. Absent \in ShownMessages /\ Absent.status = "none"
  BY EmptyText, ShownIsMessage DEF Absent, MessageStates
<1> QED BY <1>1 DEF Empty

LEMMA InitEstablishes ==
  ASSUME Init
  PROVE  ViewInvariant
<1>1. NoLoad \in Loads /\ NoLoad.history = Empty
  BY EmptyIsList DEF NoLoad, Loads, Stages
<1>2. TypeOK
  <2>1. /\ 0 \in 0..MaxTokens /\ 0 \in 0..MaxDrops /\ 0 \in 0..MaxLoads
    BY ChatViewAssumption
  <2>2. /\ home \in [Messages -> Sessions \cup {NoSession}]
        /\ produced \in [Messages -> 0..MaxTokens]
        /\ shown \in [Messages -> ShownMessages]
    BY <2>1, EmptyIsList DEF Init
  <2> QED BY <2>1, <2>2 DEF Init, TypeOK
<1>5. ChannelTypes
  <2>1. status \in [Messages -> MessageStates]
    BY DEF Init, LifecycleInit, MessageStates
  <2>2. loads \in [1..MaxLoads -> Loads]
    BY <1>1 DEF Init
  <2> QED BY <2>1, <2>2 DEF Init, ChannelTypes
<1>3. RowsOK /\ HistoriesOwn /\ OwnStreaming(current, shown)
  BY <1>1, EmptyIsList DEF Init, LifecycleInit, RowsOK, HistoriesOwn, OwnStreaming
<1>4. EventsOwn /\ NewestIsCurrent /\ LoadingIsNewest
  BY DEF Init, EventsOwn, NewestIsCurrent, LoadingIsNewest
<1> QED BY <1>2, <1>3, <1>4, <1>5 DEF ViewInvariant
-----------------------------------------------------------------------------
(* A reply keeps its session, once it has one.                             *)
HomesStay == \A m \in Messages : home[m] # NoSession => home'[m] = home[m]

LEMMA EventsRely ==
  ASSUME ChannelTypes, EventsOwn, HomesStay, NEW n \in 1..Len(wire)
  PROVE  EventOK(home', wire[n])
<1>1. wire[n] \in Events /\ EventOK(home, wire[n])
  BY DEF ChannelTypes, EventsOwn
<1>2. wire[n].message \in Messages
  BY <1>1 DEF Events
<1> QED BY <1>1, <1>2 DEF HomesStay, EventOK

(* The server tells the room of a reply about an event.                    *)
LEMMA EmitKeeps ==
  ASSUME ChannelTypes, EventsOwn, NEW s, NEW event \in Events, Emit(s, event),
         EventOK(home', event), HomesStay
  PROVE  wire' \in Seq(Events) /\ EventsOwn'
<1>1. wire \in Seq(Events)
  BY DEF ChannelTypes
<1>2. PICK t : t = wire'
  OBVIOUS
<1>3. t = wire \/ t = Append(wire, event)
  BY <1>2 DEF Emit
<1>4. t \in Seq(Events) /\ \A n \in 1..Len(t) : EventOK(home', t[n])
  <2>1. CASE t = wire
    BY <1>1, <2>1, EventsRely
  <2>2. CASE t = Append(wire, event)
    <3>1. /\ t \in Seq(Events) /\ Len(t) = Len(wire) + 1 /\ Len(wire) \in Nat
          /\ t[Len(wire) + 1] = event
          /\ \A n \in 1..Len(wire) : t[n] = wire[n]
      BY <1>1, <2>2
    <3>2. ASSUME NEW n \in 1..Len(t)
          PROVE  EventOK(home', t[n])
      <4>1. CASE n = Len(wire) + 1
        BY <3>1, <4>1
      <4>2. CASE n # Len(wire) + 1
        <5>1. n \in 1..Len(wire)
          BY <3>1, <4>2
        <5> QED BY <3>1, <5>1, EventsRely
      <4> QED BY <4>1, <4>2
    <3> QED BY <3>1, <3>2
  <2> QED BY <1>3, <2>1, <2>2
<1> QED BY <1>2, <1>4 DEF EventsOwn

(* A step of the server that leaves the tab alone.                         *)
LEMMA ServerStepKeeps ==
  ASSUME ViewInvariant, UNCHANGED <<socket, store, loads, shown>>,
         status' \in [Messages -> MessageStates],
         home' \in [Messages -> Sessions \cup {NoSession}],
         produced' \in [Messages -> 0..MaxTokens],
         announced' \subseteq settled', dead' \subseteq Messages,
         watched' \subseteq Messages, HomesStay, RowsOK',
         wire' \in Seq(Events), EventsOwn', ~connected => wire' = wire
  PROVE  ViewInvariant'
<1> USE DEF ViewInvariant, socket, store
<1>1. TypeOK' /\ ChannelTypes'
  BY DEF TypeOK, ChannelTypes
<1>2. HistoriesOwn' /\ OwnStreaming(current, shown)'
  BY DEF HistoriesOwn, OwnStreaming, HomesStay
<1>3. NewestIsCurrent' /\ LoadingIsNewest'
  BY DEF NewestIsCurrent, LoadingIsNewest
<1> QED BY <1>1, <1>2, <1>3

LEMMA EmitToNobody ==
  ASSUME TypeOK, ~connected, NEW s, NEW event, Emit(s, event)
  PROVE  wire' = wire
BY DEF TypeOK, Emit

LEMMA CreateKeeps ==
  ASSUME ViewInvariant, NEW m \in Messages, NEW s \in Sessions, Create(m, s)
  PROVE  ViewInvariant'
<1> USE DEF ViewInvariant
<1>1. /\ status[m] = "none" /\ status' = [status EXCEPT ![m] = "streaming"]
      /\ home' = [home EXCEPT ![m] = s]
      /\ UNCHANGED <<settled, produced, announced, dead, socket, store, loads, shown>>
      /\ watched' \subseteq Messages
  BY DEF Create, Start, TypeOK, handlers
<1>2. PICK event : /\ event = Event("created", m, Shown("streaming", <<>>))
                   /\ Emit(s, event)
  BY DEF Create
<1>3. Shown("streaming", <<>>) \in ShownMessages
  BY EmptyText, ShownIsMessage DEF MessageStates
<1>4. event \in Events /\ event.type = "created" /\ event.message = m
  BY <1>2, <1>3 DEF Event, Events
<1>5. /\ home' \in [Messages -> Sessions \cup {NoSession}]
      /\ status' \in [Messages -> MessageStates] /\ home'[m] = s /\ s # NoSession
  BY <1>1, ChatViewAssumption DEF TypeOK, ChannelTypes, MessageStates
<1>6. HomesStay /\ RowsOK'
  BY <1>1, <1>5 DEF RowsOK, HomesStay, TypeOK, ChannelTypes
<1>7. EventOK(home', event)
  BY <1>4, <1>5 DEF EventOK
<1>8. wire' \in Seq(Events) /\ EventsOwn' /\ (~connected => wire' = wire)
  BY <1>2, <1>4, <1>6, <1>7, EmitKeeps, EmitToNobody
<1>9. /\ produced' \in [Messages -> 0..MaxTokens]
      /\ announced' \subseteq settled' /\ dead' \subseteq Messages
  BY <1>1 DEF TypeOK
<1> QED BY <1>1, <1>5, <1>6, <1>8, <1>9, ServerStepKeeps

LEMMA TokenKeeps ==
  ASSUME ViewInvariant, NEW m \in Messages, Token(m)
  PROVE  ViewInvariant'
<1> USE DEF ViewInvariant
<1>1. /\ home[m] # NoSession /\ produced[m] < MaxTokens
      /\ produced' = [produced EXCEPT ![m] = @ + 1]
      /\ UNCHANGED <<status, settled, home, announced, dead, socket, store, loads,
                     shown, watched>>
  BY DEF Token
<1>2. PICK event :
        /\ event = Event("token", m, Shown("streaming", <<produced[m] + 1>>))
        /\ Emit(home[m], event)
  BY DEF Token
<1>3. /\ produced[m] + 1 \in 1..MaxTokens
      /\ produced' \in [Messages -> 0..MaxTokens]
  BY <1>1, ChatViewAssumption DEF TypeOK
<1>4. event \in Events /\ event.type = "token" /\ event.message = m
  <2>1. <<produced[m] + 1>> \in Seq(1..MaxTokens)
    BY <1>3
  <2>2. Shown("streaming", <<produced[m] + 1>>) \in ShownMessages
    BY <2>1, ShownIsMessage DEF MessageStates
  <2> QED BY <1>2, <2>2 DEF Event, Events
<1>5. HomesStay /\ RowsOK' /\ EventOK(home', event)
  BY <1>1, <1>4 DEF RowsOK, HomesStay, EventOK
<1>6. wire' \in Seq(Events) /\ EventsOwn' /\ (~connected => wire' = wire)
  BY <1>2, <1>4, <1>5, EmitKeeps, EmitToNobody
<1>7. /\ home' \in [Messages -> Sessions \cup {NoSession}]
      /\ status' \in [Messages -> MessageStates] /\ watched' \subseteq Messages
      /\ announced' \subseteq settled' /\ dead' \subseteq Messages
  BY <1>1 DEF TypeOK, ChannelTypes
<1> QED BY <1>1, <1>3, <1>5, <1>6, <1>7, ServerStepKeeps

LEMMA FinishKeeps ==
  ASSUME ViewInvariant, NEW m \in Messages, Finish(m)
  PROVE  ViewInvariant'
<1> USE DEF ViewInvariant
<1>1. /\ status[m] \in {"streaming", "error"} /\ status'[m] = "complete"
      /\ settled' = settled \cup {m}
      /\ UNCHANGED <<home, produced, announced, dead, socket, wire, store, loads,
                     shown, watched>>
  BY DEF Finish, Settle, handlers
<1>2. PICK result \in Outcomes : status' = [status EXCEPT ![m] = result]
  BY DEF Finish, Settle
<1>3. status' \in [Messages -> MessageStates]
  BY <1>2 DEF ChannelTypes, MessageStates
<1>4. HomesStay /\ RowsOK'
  BY <1>1, <1>2 DEF RowsOK, HomesStay, ChannelTypes, Outcomes
<1>5. EventsOwn' /\ wire' \in Seq(Events)
  BY <1>1 DEF EventsOwn, ChannelTypes
<1>6. /\ home' \in [Messages -> Sessions \cup {NoSession}]
      /\ produced' \in [Messages -> 0..MaxTokens] /\ watched' \subseteq Messages
      /\ announced' \subseteq settled' /\ dead' \subseteq Messages
  BY <1>1 DEF TypeOK
<1> QED BY <1>1, <1>3, <1>4, <1>5, <1>6, ServerStepKeeps

(* The event carries the settled row.                                      *)
LEMMA AnnouncedRow ==
  ASSUME TypeOK, RowsOK, NEW m \in settled, NEW event,
         event = Event("updated", m, Row(m))
  PROVE  /\ event \in Events /\ event.type = "updated" /\ event.message = m
         /\ event.shown = Row(m) /\ event.shown.status = "complete"
<1>1. /\ Text(produced[m]) \in Seq(1..MaxTokens) /\ m \in Messages
      /\ Row(m) = Shown("complete", Text(produced[m]))
  BY TextIsSequence DEF TypeOK, RowsOK, Row
<1>2. Row(m) \in ShownMessages /\ Row(m).status = "complete"
  BY <1>1, ShownIsMessage DEF MessageStates, Outcomes
<1> QED BY <1>1, <1>2 DEF Event, Events

LEMMA AnnounceKeeps ==
  ASSUME ViewInvariant, NEW m \in Messages, Announce(m)
  PROVE  ViewInvariant'
<1> USE DEF ViewInvariant
<1>1. /\ m \in settled /\ announced' = announced \cup {m}
      /\ UNCHANGED <<status, settled, home, produced, dead, socket, store, loads,
                     shown, watched>>
  BY DEF Announce
<1>2. PICK event : event = Event("updated", m, Row(m)) /\ Emit(home[m], event)
  BY DEF Announce
<1>3. event \in Events /\ event.message = m /\ event.shown.status = "complete"
  BY <1>1, <1>2, AnnouncedRow
<1>4. HomesStay /\ RowsOK' /\ EventOK(home', event)
  <2>1. status[m] = "complete" /\ home[m] # NoSession
    BY <1>1 DEF RowsOK
  <2> QED BY <1>1, <1>3, <2>1 DEF RowsOK, HomesStay, EventOK
<1>5. wire' \in Seq(Events) /\ EventsOwn' /\ (~connected => wire' = wire)
  BY <1>2, <1>3, <1>4, EmitKeeps, EmitToNobody
<1>6. /\ home' \in [Messages -> Sessions \cup {NoSession}]
      /\ status' \in [Messages -> MessageStates]
      /\ produced' \in [Messages -> 0..MaxTokens] /\ watched' \subseteq Messages
      /\ announced' \subseteq settled' /\ dead' \subseteq Messages
  BY <1>1 DEF TypeOK, ChannelTypes
<1> QED BY <1>1, <1>4, <1>5, <1>6, ServerStepKeeps

LEMMA DieKeeps ==
  ASSUME ViewInvariant, NEW m \in Messages, Die(m)
  PROVE  ViewInvariant'
<1> USE DEF ViewInvariant
<1>1. /\ dead' = dead \cup {m}
      /\ UNCHANGED <<status, settled, home, produced, announced, socket, wire,
                     store, loads, shown, watched>>
  BY DEF Die
<1>2. HomesStay /\ RowsOK' /\ EventsOwn' /\ wire' \in Seq(Events)
  BY <1>1 DEF RowsOK, HomesStay, EventsOwn, ChannelTypes
<1>3. /\ home' \in [Messages -> Sessions \cup {NoSession}]
      /\ status' \in [Messages -> MessageStates]
      /\ produced' \in [Messages -> 0..MaxTokens] /\ watched' \subseteq Messages
      /\ announced' \subseteq settled' /\ dead' \subseteq Messages
  BY <1>1 DEF TypeOK, ChannelTypes
<1> QED BY <1>1, <1>2, <1>3, ServerStepKeeps

(* A page load marks replies as interrupted.                               *)
LEMMA CoerceKeeps ==
  ASSUME ViewInvariant, NEW s, Coerce(s)
  PROVE  /\ status' \in [Messages -> MessageStates] /\ RowsOK' /\ HomesStay
         /\ UNCHANGED <<settled, home, produced, announced, dead>>
<1>1. /\ \A m \in Messages : status'[m] = IF home[m] = s /\ status[m] = "streaming"
                                         THEN "error" ELSE status[m]
      /\ status' = [m \in Messages |-> status'[m]]
      /\ UNCHANGED <<settled, home, produced, announced, dead>>
  BY DEF Coerce, handlers
<1>2. status' \in [Messages -> MessageStates]
  BY <1>1 DEF ViewInvariant, ChannelTypes, MessageStates, Outcomes
<1>3. RowsOK'
  BY <1>1 DEF ViewInvariant, RowsOK
<1> QED BY <1>1, <1>2, <1>3 DEF HomesStay

LEMMA LoadElsewhereKeeps ==
  ASSUME ViewInvariant, NEW s, LoadElsewhere(s)
  PROVE  ViewInvariant'
<1>1. /\ status' \in [Messages -> MessageStates] /\ RowsOK' /\ HomesStay
      /\ UNCHANGED <<settled, home, produced, announced, dead>>
  BY CoerceKeeps DEF LoadElsewhere
<1>2. UNCHANGED <<socket, wire, store, loads, shown, watched>>
  BY DEF LoadElsewhere
<1>3. EventsOwn'
  BY <1>1, <1>2 DEF ViewInvariant, EventsOwn
<1>4. /\ home' \in [Messages -> Sessions \cup {NoSession}]
      /\ produced' \in [Messages -> 0..MaxTokens]
      /\ watched' \subseteq Messages /\ wire' \in Seq(Events)
      /\ announced' \subseteq settled' /\ dead' \subseteq Messages
  BY <1>1, <1>2 DEF ViewInvariant, TypeOK, ChannelTypes
<1> QED BY <1>1, <1>2, <1>3, <1>4, ServerStepKeeps
-----------------------------------------------------------------------------
(* The tab's connection.                                                   *)
LEMMA SocketStepKeeps ==
  ASSUME ViewInvariant, UNCHANGED <<server, store, loads, shown>>,
         TypeOK', upstream' \in Seq(Emitted), wire' = wire \/ wire' = <<>>
  PROVE  ViewInvariant'
<1> USE DEF ViewInvariant, server, handlers, store
<1>1. ChannelTypes'
  <2>1. wire \in Seq(Events) /\ <<>> \in Seq(Events)
    BY DEF ChannelTypes
  <2>2. wire' \in Seq(Events)
    BY <2>1
  <2> QED BY <2>2 DEF ChannelTypes
<1>2. RowsOK' /\ HistoriesOwn' /\ OwnStreaming(current, shown)'
  BY DEF RowsOK, HistoriesOwn, OwnStreaming
<1>3. EventsOwn'
  <2>1. CASE wire' = wire
    BY <2>1 DEF EventsOwn
  <2>2. CASE wire' = <<>>
    BY <2>2 DEF EventsOwn
  <2> QED BY <2>1, <2>2
<1>4. NewestIsCurrent' /\ LoadingIsNewest'
  BY DEF NewestIsCurrent, LoadingIsNewest
<1> QED BY <1>1, <1>2, <1>3, <1>4

LEMMA ConnectionKeeps ==
  ASSUME ViewInvariant,
         HandleEmit \/ Drop \/ Reconnect \/ \E s \in Sessions : FinishJoin(s)
  PROVE  ViewInvariant'
<1> USE DEF ViewInvariant
<1>1. upstream \in Seq(Emitted)
  BY DEF ChannelTypes
<1>2. CASE HandleEmit
  <2>1. PICK emitted : emitted = Head(upstream) /\ emitted \in Emitted
    BY <1>1, <1>2 DEF HandleEmit
  <2>2. emitted.session \in Sessions
    BY <2>1 DEF Emitted
  <2>3. rooms' \subseteq Sessions /\ joining' \subseteq Sessions
    BY <1>2, <2>1, <2>2 DEF HandleEmit, TypeOK
  <2>4. /\ connected /\ upstream' = Tail(upstream) /\ upstream # <<>>
        /\ UNCHANGED <<server, connected, drops, wire, store, loads, shown>>
        /\ watched' \subseteq watched
    BY <1>2 DEF HandleEmit
  <2>5. upstream' \in Seq(Emitted)
    BY <1>1, <2>4
  <2>6. TypeOK'
    BY <2>3, <2>4 DEF TypeOK, server, handlers, store
  <2> QED BY <2>4, <2>5, <2>6, SocketStepKeeps
<1>3. CASE Drop
  <2>1. TypeOK'
    <3>1. drops' \in 0..MaxDrops
      BY <1>3, ChatViewAssumption DEF Drop, TypeOK
    <3>2. UNCHANGED <<settled, home, produced, announced, dead, current, generation,
                      loading, shown>>
      BY <1>3 DEF Drop, server, handlers, store
    <3> QED BY <1>3, <3>1, <3>2 DEF Drop, TypeOK
  <2>2. upstream' \in Seq(Emitted)
    BY <1>3 DEF Drop
  <2> QED BY <1>3, <2>1, <2>2, SocketStepKeeps DEF Drop
<1>4. CASE Reconnect
  <2>1. TypeOK'
    BY <1>4 DEF Reconnect, TypeOK, server, handlers, store
  <2> QED BY <1>1, <1>4, <2>1, SocketStepKeeps DEF Reconnect
<1>5. CASE \E s \in Sessions : FinishJoin(s)
  <2>1. TypeOK'
    BY <1>5 DEF FinishJoin, TypeOK, server, handlers, store
  <2> QED BY <1>1, <1>5, <2>1, SocketStepKeeps DEF FinishJoin
<1> QED BY <1>2, <1>3, <1>4, <1>5
-----------------------------------------------------------------------------
(* The store.  A request changes only its own entry of `loads`.            *)
LEMMA LoadSessionKeeps ==
  ASSUME ViewInvariant, NEW s \in Sessions, LoadSession(s)
  PROVE  ViewInvariant'
<1> USE DEF ViewInvariant
<1>1. PICK load : load = [NoLoad EXCEPT !.session = s, !.stage = "requested"]
  OBVIOUS
<1>2. /\ generation < MaxLoads /\ generation' = generation + 1
      /\ shown' = Empty /\ current' = s /\ loading' = TRUE /\ watched' = {}
      /\ loads' = [loads EXCEPT ![generation + 1] = load]
      /\ UNCHANGED <<server, connected, drops, rooms, joining, wire>>
  BY <1>1 DEF LoadSession
<1>3. generation \in Nat /\ generation + 1 \in 1..MaxLoads
  BY <1>2, ChatViewAssumption DEF TypeOK
<1>4. /\ load \in Loads /\ load.history = Empty /\ load.session = s
      /\ load.stage = "requested"
  BY <1>1, EmptyIsList DEF NoLoad, Loads, Stages
<1>5. upstream' \in Seq(Emitted)
  <2>1. PICK leave, join :
          /\ upstream' = upstream \o leave \o join
          /\ leave = IF current \notin {NoSession, s}
                     THEN <<[type |-> "leave", session |-> current]>> ELSE <<>>
          /\ join = <<[type |-> "join", session |-> s]>>
    BY DEF LoadSession
  <2>2. leave \in Seq(Emitted)
    <3>1. CASE current \in {NoSession, s}
      BY <2>1, <3>1
    <3>2. CASE current \notin {NoSession, s}
      <4>1. current \in Sessions
        BY <3>2 DEF TypeOK
      <4>2. [type |-> "leave", session |-> current] \in Emitted
        BY <4>1 DEF Emitted
      <4> QED BY <2>1, <3>2, <4>2
    <3> QED BY <3>1, <3>2
  <2>3. join \in Seq(Emitted)
    <3>1. [type |-> "join", session |-> s] \in Emitted
      BY DEF Emitted
    <3> QED BY <2>1, <3>1
  <2> QED BY <2>1, <2>2, <2>3 DEF ChannelTypes
<1>6. TypeOK'
  BY <1>2, <1>3, EmptyIsList DEF TypeOK, server, handlers
<1>7. ChannelTypes'
  BY <1>2, <1>4, <1>5 DEF ChannelTypes, server, handlers
<1>8. RowsOK' /\ EventsOwn'
  BY <1>2 DEF RowsOK, EventsOwn, server, handlers
<1>9. HistoriesOwn' /\ OwnStreaming(current, shown)'
  <2>1. \A g \in 1..MaxLoads : g # generation + 1 => loads'[g] = loads[g]
    BY <1>2, <1>3 DEF ChannelTypes
  <2>2. loads'[generation + 1] = load
    BY <1>2, <1>3 DEF ChannelTypes
  <2> QED BY <1>2, <1>4, <2>1, <2>2, EmptyIsList
          DEF HistoriesOwn, OwnStreaming, server, handlers
<1>10. NewestIsCurrent' /\ LoadingIsNewest'
  <2>1. loads'[generation'] = load
    BY <1>2, <1>3 DEF ChannelTypes
  <2> QED BY <1>2, <1>3, <1>4, <2>1 DEF NewestIsCurrent, LoadingIsNewest
<1> QED BY <1>6, <1>7, <1>8, <1>9, <1>10

LEMMA AnswerKeeps ==
  ASSUME ViewInvariant, NEW g \in 1..MaxLoads, NEW load \in Loads,
         loads' = [loads EXCEPT ![g] = load],
         load.session = loads[g].session, OwnStreaming(load.session, load.history),
         load.stage # "done", loads[g].stage # "done",
         status' \in [Messages -> MessageStates], RowsOK',
         UNCHANGED <<settled, home, produced, announced, dead, socket, wire, store,
                     shown, watched>>
  PROVE  ViewInvariant'
<1> USE DEF ViewInvariant, socket, store
<1>1. TypeOK' /\ ChannelTypes'
  BY DEF TypeOK, ChannelTypes
<1>2. EventsOwn' /\ OwnStreaming(current, shown)'
  BY DEF EventsOwn, OwnStreaming
<1>3. \A h \in 1..MaxLoads : loads'[h] = IF h = g THEN load ELSE loads[h]
  BY DEF ChannelTypes
<1>4. HistoriesOwn'
  BY <1>3 DEF HistoriesOwn, OwnStreaming
<1>5. generation > 0 => generation \in 1..MaxLoads
  BY ChatViewAssumption DEF TypeOK
<1>6. NewestIsCurrent' /\ LoadingIsNewest'
  BY <1>3, <1>5 DEF NewestIsCurrent, LoadingIsNewest
<1> QED BY <1>1, <1>2, <1>4, <1>6

LEMMA RequestKeeps ==
  ASSUME ViewInvariant, NEW g \in 1..MaxLoads,
         Reconcile(g) \/ List(g) \/ LoadFails(g)
  PROVE  ViewInvariant'
<1> USE DEF ViewInvariant
<1>1. PICK old : old = loads[g] /\ old \in Loads
                 /\ OwnStreaming(old.session, old.history)
  BY DEF ChannelTypes, HistoriesOwn
<1>2. CASE Reconcile(g)
  <2>1. PICK load : load = [old EXCEPT !.stage = "reconciled"]
    OBVIOUS
  <2>2. /\ load \in Loads /\ load.session = old.session
        /\ load.history = old.history /\ load.stage = "reconciled"
    BY <1>1, <2>1 DEF Loads, Stages
  <2>3. /\ loads' = [loads EXCEPT ![g] = load] /\ old.stage = "requested"
        /\ UNCHANGED <<socket, wire, store, shown, watched>>
    BY <1>1, <1>2, <2>1 DEF Reconcile
  <2>4. /\ status' \in [Messages -> MessageStates] /\ RowsOK'
        /\ UNCHANGED <<settled, home, produced, announced, dead>>
    BY <1>2, CoerceKeeps DEF Reconcile
  <2> QED BY <1>1, <2>2, <2>3, <2>4, AnswerKeeps
<1>3. CASE LoadFails(g)
  <2>1. PICK load : load = [old EXCEPT !.stage = "failed"]
    OBVIOUS
  <2>2. /\ load \in Loads /\ load.session = old.session
        /\ load.history = old.history /\ load.stage = "failed"
    BY <1>1, <2>1 DEF Loads, Stages
  <2>3. /\ loads' = [loads EXCEPT ![g] = load]
        /\ old.stage \in {"requested", "reconciled"}
        /\ UNCHANGED <<server, socket, wire, store, shown, watched>>
    BY <1>1, <1>3, <2>1 DEF LoadFails
  <2>4. status' \in [Messages -> MessageStates] /\ RowsOK'
    BY <2>3 DEF ChannelTypes, RowsOK, server, handlers
  <2> QED BY <1>1, <2>2, <2>3, <2>4, AnswerKeeps DEF server, handlers
<1>4. CASE List(g)
  <2>1. PICK history :
          history = [m \in Messages |-> IF home[m] = old.session THEN Row(m)
                                        ELSE Absent]
    OBVIOUS
  <2>2. history \in [Messages -> ShownMessages]
    BY <2>1, RowIsMessage, EmptyText, ShownIsMessage DEF Absent, MessageStates
  <2>3. OwnStreaming(old.session, history)
    <3>1. ASSUME NEW m \in Messages, history[m].status = "streaming"
          PROVE  home[m] = old.session /\ home[m] # NoSession
      <4>1. Absent.status = "none"
        BY EmptyText, ShownIsMessage DEF Absent, MessageStates
      <4>2. home[m] = old.session /\ history[m] = Row(m)
        BY <2>1, <3>1, <4>1
      <4>3. status[m] = "streaming"
        BY <3>1, <4>2, RowIsMessage
      <4> QED BY <4>2, <4>3 DEF RowsOK
    <3> QED BY <3>1 DEF OwnStreaming
  <2>4. PICK load : load = [old EXCEPT !.stage = "answered", !.history = history]
    OBVIOUS
  <2>5. /\ load \in Loads /\ load.session = old.session
        /\ load.history = history /\ load.stage = "answered"
    BY <1>1, <2>2, <2>4 DEF Loads, Stages
  <2>6. /\ loads' = [loads EXCEPT ![g] = load] /\ old.stage = "reconciled"
        /\ UNCHANGED <<server, socket, wire, store, shown, watched>>
    BY <1>1, <1>4, <2>1, <2>4 DEF List
  <2>7. status' \in [Messages -> MessageStates] /\ RowsOK'
    BY <2>6 DEF ChannelTypes, RowsOK, server, handlers
  <2> QED BY <1>1, <2>3, <2>5, <2>6, <2>7, AnswerKeeps DEF server, handlers
<1> QED BY <1>2, <1>3, <1>4

LEMMA ReceiveAnswerKeeps ==
  ASSUME ViewInvariant, NEW g \in 1..MaxLoads, ReceiveAnswer(g)
  PROVE  ViewInvariant'
<1> USE DEF ViewInvariant
<1>1. PICK load : load = [NoLoad EXCEPT !.stage = "done"]
  OBVIOUS
<1>2. /\ load \in Loads /\ load.history = Empty /\ load.stage = "done"
  BY <1>1, EmptyIsList DEF NoLoad, Loads, Stages
<1>3. /\ Answered(g) /\ loads' = [loads EXCEPT ![g] = load]
      /\ shown' = IF g = generation /\ loads[g].stage = "answered"
                  THEN loads[g].history ELSE shown
      /\ loading' = IF g = generation THEN FALSE ELSE loading
      /\ UNCHANGED <<server, socket, wire, current, generation, watched>>
  BY <1>1 DEF ReceiveAnswer
<1>4. \A h \in 1..MaxLoads : loads'[h] = IF h = g THEN load ELSE loads[h]
  BY <1>3 DEF ChannelTypes
<1>5. shown' \in [Messages -> ShownMessages]
  BY <1>3 DEF TypeOK, ChannelTypes, Loads
<1>6. TypeOK' /\ ChannelTypes'
  BY <1>2, <1>3, <1>5 DEF TypeOK, ChannelTypes, server, handlers, socket
<1>7. RowsOK' /\ EventsOwn'
  BY <1>3 DEF RowsOK, EventsOwn, server, handlers
<1>8. HistoriesOwn'
  BY <1>2, <1>3, <1>4, EmptyIsList DEF HistoriesOwn, OwnStreaming, server, handlers
<1>9. OwnStreaming(current, shown)'
  <2>1. CASE shown' = shown
    BY <1>3, <2>1 DEF OwnStreaming, server, handlers
  <2>2. CASE g = generation /\ loads[g].stage = "answered"
    <3>1. loads[g].session = current
      BY <2>2 DEF NewestIsCurrent
    <3>2. OwnStreaming(current, loads[g].history)
      BY <3>1 DEF HistoriesOwn
    <3> QED BY <1>3, <2>2, <3>2 DEF OwnStreaming, server, handlers
  <2> QED BY <1>3, <2>1, <2>2
<1>10. generation > 0 => generation \in 1..MaxLoads
  BY ChatViewAssumption DEF TypeOK
<1>11. NewestIsCurrent' /\ LoadingIsNewest'
  BY <1>2, <1>3, <1>4, <1>10 DEF NewestIsCurrent, LoadingIsNewest
<1> QED BY <1>6, <1>7, <1>8, <1>9, <1>11

LEMMA ReceiveEventKeeps ==
  ASSUME ViewInvariant, ReceiveEvent
  PROVE  ViewInvariant'
<1> USE DEF ViewInvariant
<1>1. /\ wire # <<>> /\ wire' = Tail(wire) /\ shown' = Apply(shown, Head(wire))
      /\ UNCHANGED <<server, socket, store, loads, watched>>
  BY DEF ReceiveEvent
<1>2. wire \in Seq(Events)
  BY DEF ChannelTypes
<1>3. PICK event : event = Head(wire)
  OBVIOUS
<1>4. event \in Events /\ EventOK(home, event)
  <2>1. Len(wire) \in Nat \ {0} /\ Head(wire) = wire[1]
    BY <1>1, <1>2
  <2>2. 1 \in 1..Len(wire)
    BY <2>1
  <2> QED BY <1>2, <1>3, <2>1, <2>2 DEF EventsOwn
<1>5. wire' \in Seq(Events) /\ EventsOwn'
  <2>1. PICK t : t = Tail(wire)
    OBVIOUS
  <2>2. /\ t \in Seq(Events) /\ Len(wire) \in Nat \ {0}
        /\ Len(t) = Len(wire) - 1
        /\ \A n \in 1..Len(t) : t[n] = wire[n + 1]
    BY <1>1, <1>2, <2>1
  <2>3. ASSUME NEW n \in 1..Len(t)
        PROVE  EventOK(home, t[n])
    <3>1. n + 1 \in 1..Len(wire)
      BY <2>2
    <3> QED BY <2>2, <3>1 DEF EventsOwn
  <2>4. home' = home
    BY <1>1 DEF server, handlers
  <2> QED BY <1>1, <2>1, <2>2, <2>3, <2>4 DEF EventsOwn
<1>6. PICK now, m :
        /\ m = event.message /\ shown' = [shown EXCEPT ![m] = now]
        /\ \/ now = shown[m]
           \/ /\ now = event.shown
              /\ event.type = "created" => home[m] = current
              /\ event.type \in {"created", "updated"}
           \/ now = Extended(shown[m], event.shown.text)
  <2>1. event.type \in {"created", "token", "updated"}
    BY <1>4 DEF Events
  <2>2. CASE event.type = "created"
    BY <1>1, <1>3, <2>2 DEF Apply
  <2>3. CASE event.type = "token"
    BY <1>1, <1>3, <2>3 DEF Apply
  <2>4. CASE event.type = "updated"
    BY <1>1, <1>3, <2>4 DEF Apply
  <2> QED BY <2>1, <2>2, <2>3, <2>4
<1>7. m \in Messages /\ event.shown \in ShownMessages /\ shown[m] \in ShownMessages
  BY <1>4, <1>6 DEF Events, TypeOK
<1>8. now \in ShownMessages /\ (now.status = "streaming"
                                  => home[m] = current /\ home[m] # NoSession)
  <2>1. CASE now = shown[m]
    BY <1>7, <2>1 DEF OwnStreaming
  <2>2. CASE /\ now = event.shown
             /\ event.type = "created" => home[m] = current
             /\ event.type \in {"created", "updated"}
    BY <1>4, <1>6, <1>7, <2>2 DEF EventOK
  <2>3. CASE now = Extended(shown[m], event.shown.text)
    <3>1. CASE now = shown[m]
      BY <1>7, <3>1 DEF OwnStreaming
    <3>2. CASE now # shown[m]
      <4>1. PICK text : /\ text = shown[m].text \o event.shown.text
                        /\ now = Shown(shown[m].status, text)
        BY <2>3, <3>2 DEF Extended
      <4>2. text \in Seq(1..MaxTokens)
        BY <1>7, <4>1 DEF ShownMessages
      <4>3. now \in ShownMessages /\ now.status = shown[m].status
        BY <1>7, <4>1, <4>2 DEF ShownMessages, Shown
      <4> QED BY <1>7, <4>3 DEF OwnStreaming
    <3> QED BY <3>1, <3>2
  <2> QED BY <1>6, <2>1, <2>2, <2>3
<1>9. OwnStreaming(current, shown)'
  BY <1>1, <1>6, <1>7, <1>8 DEF OwnStreaming, TypeOK, server, handlers, store
<1>10. TypeOK' /\ ChannelTypes'
  <2>1. shown' \in [Messages -> ShownMessages]
    BY <1>6, <1>7, <1>8 DEF TypeOK
  <2>2. connected
    BY <1>1 DEF TypeOK
  <2> QED BY <1>1, <1>5, <2>1, <2>2
          DEF TypeOK, ChannelTypes, server, handlers, socket, store
<1>11. RowsOK' /\ HistoriesOwn' /\ NewestIsCurrent' /\ LoadingIsNewest'
  BY <1>1 DEF RowsOK, HistoriesOwn, OwnStreaming, NewestIsCurrent,
              LoadingIsNewest, server, handlers, store
<1> QED BY <1>5, <1>9, <1>10, <1>11

LEMMA StepKeeps ==
  ASSUME ViewInvariant, [Next]_vars
  PROVE  ViewInvariant'
<1>1. CASE UNCHANGED vars
  BY <1>1, SocketStepKeeps
     DEF vars, server, handlers, socket, store, ViewInvariant, TypeOK, ChannelTypes
<1>2. CASE Next
  BY <1>2, CreateKeeps, TokenKeeps, FinishKeeps, AnnounceKeeps, DieKeeps, LoadElsewhereKeeps,
     ConnectionKeeps, LoadSessionKeeps, RequestKeeps, ReceiveAnswerKeeps,
     ReceiveEventKeeps, Zenon DEF Next
<1> QED BY <1>1, <1>2

(* A reply that has not begun is blank; one that is settled stays so.      *)
RowsSettled == \A m \in Messages :
                 /\ status[m] = "none" => produced[m] = 0 /\ m \notin settled \cup watched
                 /\ m \in settled => status[m] \in Outcomes

(* A reply is watched only while the tab shows its session, is in its room *)
(* and waits for no history.                                               *)
WatchedFollowed == /\ \A m \in watched : home[m] = current /\ home[m] \in rooms
                   /\ loading => watched = {}

WatchInvariant == RowsSettled /\ WatchedFollowed /\ WatchedTextIsExact
-----------------------------------------------------------------------------
(* What is on the wire, once it has arrived.  `Arriving` is recursive; its *)
(* equation, and that it agrees with itself when an event is appended or   *)
(* received, are proved from the least number that would contradict them.  *)
LEMMA LeastNumber ==
  ASSUME NEW S, S \subseteq Nat, S # {}
  PROVE  \E least \in S : \A n \in S : least <= n
<1> DEFINE R == {p \in Nat \X Nat : p[1] < p[2]}
<1>1. IsWellFoundedOn(R, Nat)
  BY NatLessThanWellFounded DEF R, OpToRel
<1>2. PICK least \in S : \A n \in S : ~(<<n, least>> \in R)
  <2> HIDE DEF R
  <2> QED BY <1>1, WFMin
<1>3. \A n \in S : n \in Nat /\ least \in Nat /\ ~(n < least)
  BY <1>2
<1> QED BY <1>3

Lists == [Messages -> ShownMessages]

(* One event, and a row of events, as functions of what they depend on.    *)
Applied(homes, open, list, event) ==
  LET m == event.message
  IN [list EXCEPT ![m] =
        CASE event.type = "created" ->
               IF homes[m] = open THEN event.shown ELSE @
          [] event.type = "token" -> Extended(@, event.shown.text)
          [] event.type = "updated" -> event.shown]

IsArrival(f, homes, open, list, events) ==
  f = [n \in 0..Len(events) |->
         IF n = 0 THEN list ELSE Applied(homes, open, f[n - 1], events[n])]

Recurs(f, k, homes, open, list, events) ==
  f[0] = list /\ \A n \in 1..k : f[n] = Applied(homes, open, f[n - 1], events[n])

LEMMA AppliedTyped ==
  ASSUME NEW homes, NEW open, NEW list \in Lists, NEW event \in Events
  PROVE  /\ Applied(homes, open, list, event) \in Lists
         /\ \A k \in Messages : k # event.message =>
              Applied(homes, open, list, event)[k] = list[k]
         /\ event.type = "created" /\ homes[event.message] = open =>
              Applied(homes, open, list, event)[event.message] = event.shown
         /\ event.type = "token" =>
              Applied(homes, open, list, event)[event.message]
                = Extended(list[event.message], event.shown.text)
         /\ event.type = "updated" =>
              Applied(homes, open, list, event)[event.message] = event.shown
<1>1. /\ event.message \in Messages /\ event.shown \in ShownMessages
      /\ event.type \in {"created", "token", "updated"}
      /\ list[event.message] \in ShownMessages
  BY DEF Events, Lists
<1>2. Extended(list[event.message], event.shown.text) \in ShownMessages
  <2>1. PICK old, more : old = list[event.message] /\ more = event.shown.text
    OBVIOUS
  <2>2. old \in ShownMessages /\ more \in Seq(1..MaxTokens)
    BY <1>1, <2>1 DEF ShownMessages
  <2>3. old.text \o more \in Seq(1..MaxTokens)
    BY <2>2 DEF ShownMessages
  <2>4. Shown(old.status, old.text \o more) \in ShownMessages
    BY <2>2, <2>3, ShownIsMessage DEF ShownMessages, MessageStates
  <2> QED BY <2>1, <2>2, <2>4 DEF Extended
<1>3. CASE event.type = "created"
  BY <1>1, <1>3 DEF Applied, Lists
<1>4. CASE event.type = "token"
  BY <1>1, <1>2, <1>4 DEF Applied, Lists
<1>5. CASE event.type = "updated"
  BY <1>1, <1>5 DEF Applied, Lists
<1> QED BY <1>1, <1>3, <1>4, <1>5

LEMMA AppliedToken ==
  ASSUME NEW homes, NEW open, NEW list \in Lists, NEW event \in Events,
         NEW m \in Messages, event.message = m, event.type = "token"
  PROVE  Applied(homes, open, list, event)[m] = Extended(list[m], event.shown.text)
BY DEF Applied, Lists

(* Two rows of events that agree, one of them read from its d-th event on. *)
Solves(f, d, k, homes, open, events) ==
  \A n \in 1..k : f[n + d] = Applied(homes, open, f[n + d - 1], events[n + d])

SameEvents(d, k, homes, events, homes2, events2) ==
  \A n \in 1..k : /\ events[n + d] = events2[n]
                  /\ homes[events2[n].message] = homes2[events2[n].message]

Same(f, d, k, g) == \A n \in 0..k : f[n + d] = g[n]

LEMMA ArrivalsAgree ==
  ASSUME NEW f, NEW g, NEW k \in Nat, NEW d \in Nat, NEW open,
         NEW homes, NEW events, NEW homes2, NEW events2, f[d] = g[0],
         Solves(f, d, k, homes, open, events), Solves(g, 0, k, homes2, open, events2),
         SameEvents(d, k, homes, events, homes2, events2)
  PROVE  Same(f, d, k, g)
<1> DEFINE Bad == {n \in 0..k : f[n + d] # g[n]}
<1> SUFFICES ASSUME Bad # {} PROVE FALSE
  BY DEF Same
<1>1. PICK n \in Bad : \A i \in Bad : n <= i
  <2>1. Bad \subseteq Nat
    OBVIOUS
  <2> HIDE DEF Bad
  <2> QED BY <2>1, LeastNumber
<1>2. n \in 1..k /\ n - 1 \in 0..k /\ n - 1 \notin Bad
  <2>1. n # 0
    BY <1>1
  <2> QED BY <1>1, <2>1
<1>3. f[n + d - 1] = g[n - 1]
  <2>1. (n - 1) + d = n + d - 1
    BY <1>2
  <2> QED BY <1>2, <2>1
<1>4. /\ f[n + d] = Applied(homes, open, f[n + d - 1], events[n + d])
      /\ g[n] = Applied(homes2, open, g[n - 1], events2[n])
      /\ events[n + d] = events2[n]
      /\ homes[events2[n].message] = homes2[events2[n].message]
  <2>1. n + 0 = n /\ n + 0 - 1 = n - 1
    BY <1>2
  <2>2. f[n + d] = Applied(homes, open, f[n + d - 1], events[n + d])
    BY <1>2 DEF Solves
  <2>3. g[n] = Applied(homes2, open, g[n - 1], events2[n])
    BY <1>2, <2>1 DEF Solves
  <2>4. /\ events[n + d] = events2[n]
        /\ homes[events2[n].message] = homes2[events2[n].message]
    BY <1>2 DEF SameEvents
  <2> QED BY <2>2, <2>3, <2>4
<1>5. Applied(homes, open, g[n - 1], events2[n])
        = Applied(homes2, open, g[n - 1], events2[n])
  BY <1>4 DEF Applied
<1> QED BY <1>1, <1>3, <1>4, <1>5

(* A row of events can be received, one after the other.                   *)
LEMMA ArrivalExists ==
  ASSUME NEW homes, NEW open, NEW list \in Lists, NEW events \in Seq(Events)
  PROVE  \E f \in [0..Len(events) -> Lists] :
           Recurs(f, Len(events), homes, open, list, events)
<1> DEFINE Bad == {k \in 0..Len(events) :
                     ~ \E f \in [0..k -> Lists] : Recurs(f, k, homes, open, list, events)}
<1>0. Len(events) \in Nat
  OBVIOUS
<1> SUFFICES ASSUME Bad # {} PROVE FALSE
  BY <1>0
<1>1. PICK k \in Bad : \A i \in Bad : k <= i
  <2>1. Bad \subseteq Nat
    OBVIOUS
  <2> HIDE DEF Bad
  <2> QED BY <2>1, LeastNumber
<1>2. k # 0
  <2>1. PICK f : f = [n \in 0..0 |-> list]
    OBVIOUS
  <2>2. f \in [0..0 -> Lists] /\ Recurs(f, 0, homes, open, list, events)
    BY <2>1 DEF Recurs
  <2> QED BY <2>2
<1>3. k \in 1..Len(events) /\ k - 1 \in 0..Len(events) /\ k - 1 \notin Bad
  BY <1>0, <1>1, <1>2
<1>4. PICK f \in [0..k-1 -> Lists] : Recurs(f, k - 1, homes, open, list, events)
  BY <1>3
<1>5. PICK next : next = Applied(homes, open, f[k - 1], events[k])
  OBVIOUS
<1>6. next \in Lists
  <2>1. f[k - 1] \in Lists /\ events[k] \in Events
    BY <1>3, <1>4
  <2> QED BY <1>5, <2>1, AppliedTyped
<1>7. PICK g : g = [n \in 0..k |-> IF n = k THEN next ELSE f[n]]
  OBVIOUS
<1>8. g \in [0..k -> Lists]
  BY <1>3, <1>4, <1>6, <1>7
<1>9. Recurs(g, k, homes, open, list, events)
  <2>1. g[0] = list
    BY <1>3, <1>4, <1>7 DEF Recurs
  <2>2. ASSUME NEW n \in 1..k
        PROVE  g[n] = Applied(homes, open, g[n - 1], events[n])
    <3>1. n - 1 \in 0..k-1 /\ g[n - 1] = f[n - 1]
      BY <1>3, <1>7
    <3>2. CASE n = k
      BY <1>3, <1>5, <1>7, <3>1, <3>2
    <3>3. CASE n # k
      BY <1>3, <1>4, <1>7, <3>1, <3>3 DEF Recurs
    <3> QED BY <3>2, <3>3
  <2> QED BY <2>1, <2>2 DEF Recurs
<1> QED BY <1>1, <1>8, <1>9

(* Every function that solves the equation is that one.                    *)
LEMMA ArrivalUnique ==
  ASSUME NEW homes, NEW open, NEW list \in Lists, NEW events \in Seq(Events),
         NEW f, IsArrival(f, homes, open, list, events)
  PROVE  /\ Recurs(f, Len(events), homes, open, list, events)
         /\ \A n \in 0..Len(events) : f[n] \in Lists
<1>0. Len(events) \in Nat
  OBVIOUS
<1>1. Recurs(f, Len(events), homes, open, list, events)
  BY <1>0 DEF IsArrival, Recurs
<1>2. PICK g \in [0..Len(events) -> Lists] :
        Recurs(g, Len(events), homes, open, list, events)
  BY ArrivalExists
<1>3. PICK d \in Nat : d = 0
  OBVIOUS
<1>4. Same(f, d, Len(events), g)
  <2>1. f[d] = g[0]
    BY <1>1, <1>2, <1>3 DEF Recurs
  <2>2. /\ Solves(f, d, Len(events), homes, open, events)
        /\ Solves(g, 0, Len(events), homes, open, events)
        /\ SameEvents(d, Len(events), homes, events, homes, events)
    BY <1>1, <1>2, <1>3 DEF Recurs, Solves, SameEvents
  <2> QED BY <1>0, <2>1, <2>2, ArrivalsAgree, Zenon
<1>5. \A n \in 0..Len(events) : n + d = n
  BY <1>0, <1>3
<1> QED BY <1>1, <1>2, <1>4, <1>5 DEF Same

(* What the code does, event by event, solves it.                          *)
TheArrival(homes, open, list, events) ==
  CHOOSE f : IsArrival(f, homes, open, list, events)

LEMMA ArrivalEquation ==
  ASSUME NEW homes, NEW open, NEW list \in Lists, NEW events \in Seq(Events)
  PROVE  IsArrival(TheArrival(homes, open, list, events), homes, open, list, events)
<1>1. PICK g \in [0..Len(events) -> Lists] :
        Recurs(g, Len(events), homes, open, list, events)
  BY ArrivalExists
<1>2. IsArrival(g, homes, open, list, events)
  <2>1. Len(events) \in Nat
    OBVIOUS
  <2>2. \A n \in 0..Len(events) :
          g[n] = IF n = 0 THEN list ELSE Applied(homes, open, g[n - 1], events[n])
    BY <1>1, <2>1 DEF Recurs
  <2> QED BY <2>2 DEF IsArrival
<1> QED BY <1>2 DEF TheArrival

(* What is shown after the last event of a row.                            *)
EndOf(homes, open, list, events) ==
  TheArrival(homes, open, list, events)[Len(events)]

LEMMA EndIsArriving ==
  /\ Arriving[Len(wire)] = EndOf(home, current, shown, wire)
  /\ Arriving[Len(wire)]' = EndOf(home', current', shown', wire')
BY DEF Arriving, EndOf, TheArrival, IsArrival, Apply, Applied

LEMMA EndTyped ==
  ASSUME NEW homes, NEW open, NEW list \in Lists, NEW events \in Seq(Events)
  PROVE  EndOf(homes, open, list, events) \in Lists
<1>1. Len(events) \in 0..Len(events)
  OBVIOUS
<1> QED BY <1>1, ArrivalEquation, ArrivalUnique DEF EndOf

(* A reply that gets its session changes nothing for those on the wire.    *)
HomesAgree(homes, homes2, events) ==
  \A n \in 1..Len(events) : homes[events[n].message] = homes2[events[n].message]

LEMMA EndAppended ==
  ASSUME NEW homes, NEW homes2, NEW open, NEW list \in Lists,
         NEW events \in Seq(Events), HomesAgree(homes, homes2, events)
  PROVE  /\ EndOf(homes2, open, list, events) = EndOf(homes, open, list, events)
         /\ \A e \in Events : EndOf(homes2, open, list, Append(events, e))
                = Applied(homes2, open, EndOf(homes, open, list, events), e)
<1>0. Len(events) \in Nat
  OBVIOUS
<1>1. ASSUME NEW more \in Seq(Events), Len(more) \in Nat, Len(more) >= Len(events),
             \A n \in 1..Len(events) : more[n] = events[n]
      PROVE  TheArrival(homes2, open, list, more)[Len(events)]
               = TheArrival(homes, open, list, events)[Len(events)]
  <2>1. PICK f : /\ f = TheArrival(homes2, open, list, more)
                 /\ Recurs(f, Len(more), homes2, open, list, more)
    BY ArrivalEquation, ArrivalUnique
  <2>2. PICK g : /\ g = TheArrival(homes, open, list, events)
                 /\ Recurs(g, Len(events), homes, open, list, events)
    BY ArrivalEquation, ArrivalUnique
  <2>3. PICK d \in Nat : d = 0
    OBVIOUS
  <2>4. PICK k \in Nat : k = Len(events)
    BY <1>0
  <2>5. /\ f[d] = g[0] /\ Solves(f, d, k, homes2, open, more)
        /\ Solves(g, 0, k, homes, open, events)
        /\ SameEvents(d, k, homes2, more, homes, events)
    BY <1>1, <2>1, <2>2, <2>3, <2>4 DEF Recurs, Solves, SameEvents, HomesAgree
  <2>6. Same(f, d, k, g)
    BY <2>5, ArrivalsAgree
  <2> QED BY <2>1, <2>2, <2>3, <2>4, <2>6 DEF Same
<1>2. EndOf(homes2, open, list, events) = EndOf(homes, open, list, events)
  BY <1>0, <1>1 DEF EndOf
<1>3. ASSUME NEW e \in Events
      PROVE  EndOf(homes2, open, list, Append(events, e))
               = Applied(homes2, open, EndOf(homes, open, list, events), e)
  <2>1. PICK more : more = Append(events, e)
    OBVIOUS
  <2>2. /\ more \in Seq(Events) /\ Len(more) = Len(events) + 1
        /\ more[Len(events) + 1] = e
        /\ \A n \in 1..Len(events) : more[n] = events[n]
    BY <2>1
  <2>3. PICK f : /\ f = TheArrival(homes2, open, list, more)
                 /\ Recurs(f, Len(more), homes2, open, list, more)
    BY <2>2, ArrivalEquation, ArrivalUnique
  <2>4. f[Len(events) + 1] = Applied(homes2, open, f[Len(events)], e)
    BY <1>0, <2>2, <2>3 DEF Recurs
  <2>5. f[Len(events)] = EndOf(homes, open, list, events)
    BY <1>0, <1>1, <2>2, <2>3 DEF EndOf
  <2> QED BY <2>1, <2>2, <2>3, <2>4, <2>5 DEF EndOf
<1> QED BY <1>2, <1>3

LEMMA EndReceived ==
  ASSUME NEW homes, NEW open, NEW list \in Lists,
         NEW events \in Seq(Events), events # <<>>
  PROVE  EndOf(homes, open, Applied(homes, open, list, Head(events)), Tail(events))
           = EndOf(homes, open, list, events)
<1>1. PICK next, rest : /\ next = Applied(homes, open, list, events[1])
                        /\ rest = Tail(events)
  OBVIOUS
<1>2. /\ Len(events) \in Nat /\ Len(events) > 0 /\ rest \in Seq(Events)
      /\ Head(events) = events[1] /\ events[1] \in Events
      /\ Len(rest) = Len(events) - 1
      /\ \A n \in 1..Len(rest) : rest[n] = events[n + 1]
  BY <1>1
<1>3. next \in Lists
  BY <1>1, <1>2, AppliedTyped
<1>4. PICK f : /\ f = TheArrival(homes, open, list, events)
               /\ Recurs(f, Len(events), homes, open, list, events)
  BY ArrivalEquation, ArrivalUnique
<1>5. PICK g : /\ g = TheArrival(homes, open, next, rest)
               /\ Recurs(g, Len(rest), homes, open, next, rest)
  BY <1>2, <1>3, ArrivalEquation, ArrivalUnique
<1>6. PICK d \in Nat : d = 1
  OBVIOUS
<1>7. PICK k \in Nat : k = Len(rest)
  BY <1>2
<1>8. f[d] = g[0]
  BY <1>1, <1>2, <1>4, <1>5, <1>6 DEF Recurs
<1>9. Solves(f, d, k, homes, open, events)
  <2>1. \A n \in 1..k : n + d \in 1..Len(events)
    BY <1>2, <1>6, <1>7
  <2> QED BY <1>4, <2>1 DEF Recurs, Solves
<1>10. /\ Solves(g, 0, k, homes, open, rest)
       /\ SameEvents(d, k, homes, events, homes, rest)
  BY <1>2, <1>5, <1>6, <1>7 DEF Recurs, Solves, SameEvents
<1>11. Same(f, d, k, g)
  BY <1>8, <1>9, <1>10, ArrivalsAgree
<1>12. f[Len(events)] = g[Len(rest)]
  BY <1>2, <1>6, <1>7, <1>11 DEF Same
<1> QED BY <1>1, <1>2, <1>4, <1>5, <1>12 DEF EndOf

-----------------------------------------------------------------------------
(* What a watched reply shows in the end, step by step.                    *)
Ends == EndOf(home, current, shown, wire)

LEMMA WatchedIsExactAtEnd ==
  /\ WatchedTextIsExact <=> \A m \in watched : Ends[m] = ProducedSoFar(m)
  /\ WatchedTextIsExact' <=> \A m \in watched' : Ends'[m] = ProducedSoFar(m)'
BY EndIsArriving DEF WatchedTextIsExact, Ends

LEMMA EmptyTextOfNone == Text(0) = <<>>
<1>1. Text(0) \in [1..0 -> Nat] /\ Text(0) \in Seq(Nat)
  BY DEF Text
<1>2. Len(Text(0)) = 0
  BY <1>1
<1> QED BY <1>1, <1>2

LEMMA OneMoreToken ==
  ASSUME NEW n \in Nat
  PROVE  Text(n) \o <<n + 1>> = Text(n + 1)
<1>1. Text(n) \in Seq(Nat) /\ Len(Text(n)) = n /\ \A i \in 1..n : Text(n)[i] = i
  BY SeqDef DEF Text
<1>2. PICK t : t = Text(n) \o <<n + 1>>
  OBVIOUS
<1>3. /\ t \in Seq(Nat) /\ Len(t) = n + 1
      /\ \A i \in 1..n + 1 : t[i] = i
  BY <1>1, <1>2
<1>4. t = [i \in 1..n + 1 |-> i]
  BY <1>3
<1> QED BY <1>2, <1>4 DEF Text

(* An event that is emitted arrives after all others, if the tab is in the *)
(* room; otherwise nothing changes.                                        *)
LEMMA EmitArrives ==
  ASSUME ViewInvariant, HomesStay, NEW s, NEW event \in Events, Emit(s, event),
         UNCHANGED <<current, shown>>
  PROVE  Ends' = IF s \in rooms THEN Applied(home', current, Ends, event) ELSE Ends
<1>1. wire \in Seq(Events) /\ shown \in Lists
  BY DEF ViewInvariant, ChannelTypes, TypeOK, Lists
<1>2. HomesAgree(home, home', wire)
  <2>1. ASSUME NEW n \in 1..Len(wire)
        PROVE  home[wire[n].message] = home'[wire[n].message]
    <3>1. wire[n] \in Events /\ home[wire[n].message] # NoSession
      BY <1>1 DEF ViewInvariant, EventsOwn, EventOK
    <3> QED BY <3>1 DEF Events, HomesStay
  <2> QED BY <2>1 DEF HomesAgree
<1>3. PICK homes2, wire2 : homes2 = home' /\ wire2 = wire'
  OBVIOUS
<1>4. EndOf(homes2, current, shown, wire2)
        = IF s \in rooms THEN Applied(homes2, current, Ends, event) ELSE Ends
  BY <1>1, <1>2, <1>3, EndAppended DEF Ends, Emit
<1> QED BY <1>3, <1>4 DEF Ends

LEMMA CreateKeepsWatch ==
  ASSUME ViewInvariant, WatchInvariant, NEW m \in Messages, NEW s \in Sessions,
         Create(m, s)
  PROVE  WatchInvariant'
<1> USE DEF ViewInvariant, WatchInvariant, TypeOK, ChannelTypes
<1>1. /\ status[m] = "none" /\ status' = [status EXCEPT ![m] = "streaming"]
      /\ home' = [home EXCEPT ![m] = s]
      /\ UNCHANGED <<settled, produced, announced, socket, store, loads, shown>>
      /\ watched' = IF Following(s) THEN watched \cup {m} ELSE watched
  BY DEF Create, Start, handlers
<1>2. PICK event : /\ event = Event("created", m, Shown("streaming", <<>>))
                   /\ Emit(s, event)
  BY DEF Create
<1>3. event \in Events /\ event.type = "created" /\ event.message = m
      /\ event.shown = Shown("streaming", <<>>)
  BY <1>2, EmptyText, ShownIsMessage DEF Event, Events, MessageStates
<1>4. /\ produced[m] = 0 /\ m \notin announced /\ m \notin watched
      /\ home[m] = NoSession /\ home'[m] = s
  BY <1>1 DEF RowsSettled, RowsOK
<1>5. HomesStay
  BY <1>1, <1>4 DEF HomesStay
<1>6. Ends' = IF s \in rooms THEN Applied(home', current, Ends, event) ELSE Ends
  BY <1>1, <1>2, <1>3, <1>5, EmitArrives DEF store
<1>7. Ends \in Lists
  BY EndTyped DEF Ends, Lists
<1>8. PICK homes2 : homes2 = home'
  OBVIOUS
<1>9. \A k \in Messages : k # m => Ends'[k] = Ends[k]
  BY <1>3, <1>6, <1>7, <1>8, AppliedTyped
<1>10. \A k \in Messages : k # m => ProducedSoFar(k)' = ProducedSoFar(k)
  BY <1>1 DEF ProducedSoFar, Row
<1>11. m \in watched' => Ends'[m] = ProducedSoFar(m)'
  <2> SUFFICES ASSUME m \in watched' PROVE Ends'[m] = ProducedSoFar(m)'
    OBVIOUS
  <2>1. s = current /\ s \in rooms
    BY <1>1, <1>4 DEF Following
  <2>2. Ends'[m] = Shown("streaming", <<>>)
    <3>1. PICK list \in Lists : list = Ends
      BY <1>7
    <3>2. PICK open : open = current
      OBVIOUS
    <3>3. event \in Events /\ event.type = "created" /\ event.message = m
          /\ homes2[m] = open
      BY <1>3, <1>4, <1>8, <2>1, <3>2
    <3> HIDE DEF ViewInvariant, WatchInvariant, TypeOK, ChannelTypes
    <3>4. Applied(homes2, open, list, event)[m] = event.shown
      BY <3>3, AppliedTyped
    <3> QED BY <1>3, <1>6, <1>8, <2>1, <3>1, <3>2, <3>4
  <2> QED BY <1>1, <1>4, <2>2, EmptyTextOfNone DEF ProducedSoFar
<1>12. WatchedTextIsExact'
  BY <1>1, <1>9, <1>10, <1>11, WatchedIsExactAtEnd
<1>13. RowsSettled'
  BY <1>1, <1>4 DEF RowsSettled
<1>14. WatchedFollowed'
  BY <1>1, <1>4 DEF WatchedFollowed, Following, socket, store
<1> QED BY <1>12, <1>13, <1>14

LEMMA TokenKeepsWatch ==
  ASSUME ViewInvariant, WatchInvariant, NEW m \in Messages, Token(m)
  PROVE  WatchInvariant'
<1> USE DEF ViewInvariant, WatchInvariant, TypeOK, ChannelTypes
<1>1. /\ home[m] # NoSession /\ m \notin settled /\ produced[m] < MaxTokens
      /\ produced' = [produced EXCEPT ![m] = @ + 1]
      /\ UNCHANGED <<status, settled, home, announced, socket, store, loads, shown,
                     watched>>
  BY DEF Token
<1>2. PICK event :
        /\ event = Event("token", m, Shown("streaming", <<produced[m] + 1>>))
        /\ Emit(home[m], event)
  BY DEF Token
<1>3. produced[m] \in Nat /\ produced[m] + 1 \in 1..MaxTokens
  BY <1>1, ChatViewAssumption
<1>4. /\ event \in Events /\ event.type = "token" /\ event.message = m
      /\ event.shown.text = <<produced[m] + 1>>
  <2>1. <<produced[m] + 1>> \in Seq(1..MaxTokens)
    BY <1>3
  <2>2. Shown("streaming", <<produced[m] + 1>>) \in ShownMessages
    BY <2>1, ShownIsMessage DEF MessageStates
  <2> QED BY <1>2, <2>2 DEF Event, Events, Shown
<1>5. Ends' = IF home[m] \in rooms THEN Applied(home', current, Ends, event) ELSE Ends
  BY <1>1, <1>2, <1>4, EmitArrives DEF store, HomesStay
<1>6. Ends \in Lists
  BY EndTyped DEF Ends, Lists
<1>7. PICK homes2 : homes2 = home'
  OBVIOUS
<1>8. \A k \in Messages : k # m => Ends'[k] = Ends[k]
  BY <1>4, <1>5, <1>6, <1>7, AppliedTyped
<1>9. \A k \in Messages : k # m => ProducedSoFar(k)' = ProducedSoFar(k)
  BY <1>1 DEF ProducedSoFar, Row
<1>10. m \in watched => Ends'[m] = ProducedSoFar(m)'
  <2> SUFFICES ASSUME m \in watched PROVE Ends'[m] = ProducedSoFar(m)'
    OBVIOUS
  <2>1. home[m] \in rooms /\ Ends[m] = Shown("streaming", Text(produced[m]))
    BY <1>1, WatchedIsExactAtEnd DEF WatchedFollowed, ProducedSoFar
  <2>2. Ends'[m] = Extended(Ends[m], <<produced[m] + 1>>)
    <3>1. PICK list \in Lists : list = Ends
      BY <1>6
    <3> HIDE DEF ViewInvariant, WatchInvariant, TypeOK, ChannelTypes
    <3>2. Applied(homes2, current, list, event)[m] = Extended(list[m], event.shown.text)
      BY <1>4, AppliedToken
    <3> QED BY <1>4, <1>5, <1>7, <2>1, <3>1, <3>2
  <2>3. Ends'[m] = Shown("streaming", Text(produced[m]) \o <<produced[m] + 1>>)
    BY <2>1, <2>2 DEF Extended, Absent, Shown
  <2>4. ProducedSoFar(m)' = Shown("streaming", Text(produced[m] + 1))
    BY <1>1 DEF ProducedSoFar
  <2> QED BY <1>3, <2>3, <2>4, OneMoreToken
<1>11. WatchedTextIsExact'
  BY <1>1, <1>8, <1>9, <1>10, WatchedIsExactAtEnd
<1>12. RowsSettled'
  BY <1>1 DEF RowsSettled, RowsOK
<1>13. WatchedFollowed'
  BY <1>1 DEF WatchedFollowed, socket, store
<1> QED BY <1>11, <1>12, <1>13

LEMMA FinishKeepsWatch ==
  ASSUME ViewInvariant, WatchInvariant, NEW m \in Messages, Finish(m)
  PROVE  WatchInvariant'
<1> USE DEF ViewInvariant, WatchInvariant, TypeOK, ChannelTypes
<1>1. /\ m \notin settled /\ status[m] \in {"streaming", "error"}
      /\ settled' = settled \cup {m}
      /\ UNCHANGED <<home, produced, announced, socket, wire, store, shown, watched>>
  BY DEF Finish, Settle, handlers
<1>2. PICK result \in Outcomes : status' = [status EXCEPT ![m] = result]
  BY DEF Finish, Settle
<1>3. Ends' = Ends
  BY <1>1 DEF Ends, store
<1>4. \A k \in Messages : ProducedSoFar(k)' = ProducedSoFar(k)
  BY <1>1, <1>2 DEF ProducedSoFar, Row
<1>5. WatchedTextIsExact'
  BY <1>1, <1>3, <1>4, WatchedIsExactAtEnd
<1>6. RowsSettled'
  BY <1>1, <1>2 DEF RowsSettled, Outcomes
<1>7. WatchedFollowed'
  BY <1>1 DEF WatchedFollowed, socket, store
<1> QED BY <1>5, <1>6, <1>7

LEMMA AnnounceKeepsWatch ==
  ASSUME ViewInvariant, WatchInvariant, NEW m \in Messages, Announce(m)
  PROVE  WatchInvariant'
<1> USE DEF ViewInvariant, WatchInvariant, TypeOK, ChannelTypes
<1>1. /\ m \in settled /\ announced' = announced \cup {m}
      /\ UNCHANGED <<status, settled, home, produced, socket, store, loads,
                     shown, watched>>
  BY DEF Announce
<1>2. PICK event : event = Event("updated", m, Row(m)) /\ Emit(home[m], event)
  BY DEF Announce
<1>3. /\ event \in Events /\ event.type = "updated" /\ event.message = m
      /\ event.shown = Row(m)
  BY <1>1, <1>2, AnnouncedRow
<1>4. Ends' = IF home[m] \in rooms THEN Applied(home', current, Ends, event) ELSE Ends
  BY <1>1, <1>2, <1>3, EmitArrives DEF store, HomesStay
<1>5. Ends \in Lists
  BY EndTyped DEF Ends, Lists
<1>6. PICK homes2 : homes2 = home'
  OBVIOUS
<1>7. \A k \in Messages : k # m => Ends'[k] = Ends[k]
  BY <1>3, <1>4, <1>5, <1>6, AppliedTyped
<1>8. \A k \in Messages : k # m => ProducedSoFar(k)' = ProducedSoFar(k)
  BY <1>1 DEF ProducedSoFar, Row
<1>9. m \in watched => Ends'[m] = ProducedSoFar(m)'
  <2> SUFFICES ASSUME m \in watched PROVE Ends'[m] = ProducedSoFar(m)'
    OBVIOUS
  <2>1. home[m] \in rooms
    BY DEF WatchedFollowed
  <2>2. Ends'[m] = Row(m)
    BY <1>3, <1>4, <1>5, <1>6, <2>1, AppliedTyped
  <2> QED BY <1>1, <2>2 DEF ProducedSoFar, Row
<1>10. WatchedTextIsExact'
  BY <1>1, <1>7, <1>8, <1>9, WatchedIsExactAtEnd
<1>11. RowsSettled' /\ WatchedFollowed'
  BY <1>1 DEF RowsSettled, WatchedFollowed, socket, store
<1> QED BY <1>10, <1>11

(* A step that emits nothing and receives nothing: the rows may only be    *)
(* coerced, and fewer replies be watched.                                  *)
LEMMA QuietKeepsWatch ==
  ASSUME ViewInvariant, WatchInvariant, watched' \subseteq watched,
         UNCHANGED <<settled, home, produced, announced>>, WatchedFollowed',
         status' = status \/ \E s : Coerce(s),
         watched' # {} => UNCHANGED <<current, shown, wire>>
  PROVE  WatchInvariant'
<1> USE DEF ViewInvariant, WatchInvariant, TypeOK, ChannelTypes
<1>1. \A m \in Messages : /\ status'[m] = "none" <=> status[m] = "none"
                          /\ m \in settled => status'[m] = status[m]
  BY DEF Coerce, RowsSettled, Outcomes
<1>2. RowsSettled'
  BY <1>1 DEF RowsSettled
<1>3. ASSUME NEW m \in watched'
      PROVE  Ends'[m] = ProducedSoFar(m)'
  <2>1. Ends' = Ends
    BY <1>3 DEF Ends
  <2>2. ProducedSoFar(m)' = ProducedSoFar(m)
    BY <1>1 DEF ProducedSoFar, Row
  <2> QED BY <1>3, <2>1, <2>2, WatchedIsExactAtEnd
<1>4. WatchedTextIsExact'
  BY <1>3, WatchedIsExactAtEnd
<1> QED BY <1>2, <1>4

LEMMA ReceiveEventKeepsWatch ==
  ASSUME ViewInvariant, WatchInvariant, ReceiveEvent
  PROVE  WatchInvariant'
<1> USE DEF ViewInvariant, WatchInvariant
<1>1. /\ wire # <<>> /\ wire' = Tail(wire) /\ shown' = Apply(shown, Head(wire))
      /\ UNCHANGED <<server, socket, store, loads, watched>>
  BY DEF ReceiveEvent
<1>2. wire \in Seq(Events) /\ shown \in Lists
  BY DEF TypeOK, ChannelTypes, Lists
<1>3. PICK next : next = Applied(home, current, shown, Head(wire))
  OBVIOUS
<1>4. shown' = next
  BY <1>1, <1>3 DEF Apply, Applied
<1>5. EndOf(home, current, next, Tail(wire)) = Ends
  BY <1>1, <1>2, <1>3, EndReceived DEF Ends
<1>6. Ends' = Ends
  BY <1>1, <1>4, <1>5 DEF Ends, server, handlers, store
<1>7. \A m \in watched : ProducedSoFar(m)' = ProducedSoFar(m)
  BY <1>1 DEF ProducedSoFar, Row, server, handlers
<1>8. WatchedTextIsExact'
  BY <1>1, <1>6, <1>7, WatchedIsExactAtEnd
<1> QED BY <1>1, <1>8 DEF RowsSettled, WatchedFollowed, server, handlers, socket, store

LEMMA WatchStep ==
  ASSUME ViewInvariant, WatchInvariant, [Next]_vars
  PROVE  WatchInvariant'
<1> USE DEF ViewInvariant, WatchInvariant
<1>1. ASSUME NEW s \in Sessions, LoadElsewhere(s)
      PROVE  WatchInvariant'
  <2>1. WatchedFollowed'
    BY <1>1 DEF LoadElsewhere, Coerce, WatchedFollowed, socket, store
  <2> QED BY <1>1, <2>1, QuietKeepsWatch DEF LoadElsewhere, Coerce, handlers, store
<1>2. ASSUME NEW s \in Sessions, FinishJoin(s)
      PROVE  WatchInvariant'
  <2>1. WatchedFollowed'
    BY <1>2 DEF FinishJoin, WatchedFollowed, server, handlers, store
  <2> QED BY <1>2, <2>1, QuietKeepsWatch DEF FinishJoin, server, handlers, store
<1>3. ASSUME NEW s \in Sessions, LoadSession(s)
      PROVE  WatchInvariant'
  <2>1. WatchedFollowed'
    BY <1>3 DEF LoadSession, WatchedFollowed
  <2> QED BY <1>3, <2>1, QuietKeepsWatch DEF LoadSession, server, handlers
<1>4. ASSUME NEW g \in 1..MaxLoads, Reconcile(g) \/ List(g) \/ LoadFails(g)
      PROVE  WatchInvariant'
  <2>1. /\ UNCHANGED <<settled, home, produced, announced, socket, wire, store, shown,
                       watched>>
        /\ status' = status \/ \E s : Coerce(s)
    BY <1>4 DEF Reconcile, List, LoadFails, Coerce, server, handlers
  <2>2. WatchedFollowed'
    BY <2>1 DEF WatchedFollowed, socket, store
  <2> QED BY <2>1, <2>2, QuietKeepsWatch DEF store
<1>5. ASSUME NEW g \in 1..MaxLoads, ReceiveAnswer(g)
      PROVE  WatchInvariant'
  <2>1. /\ UNCHANGED <<server, socket, wire, current, generation, watched>>
        /\ loading' => loading
        /\ shown' = shown \/ (g = generation /\ loads[g].stage = "answered")
    BY <1>5 DEF ReceiveAnswer, TypeOK
  <2>2. shown' = shown \/ watched = {}
    BY <2>1, ChatViewAssumption DEF LoadingIsNewest, WatchedFollowed, TypeOK
  <2>3. WatchedFollowed'
    BY <2>1 DEF WatchedFollowed, server, handlers, socket
  <2> QED BY <2>1, <2>2, <2>3, QuietKeepsWatch DEF server, handlers
<1>6. CASE HandleEmit
  <2>1. /\ watched' = {m \in watched : home[m] \in rooms'}
        /\ UNCHANGED <<server, wire, store, shown>>
    BY <1>6 DEF HandleEmit
  <2>2. WatchedFollowed'
    BY <2>1 DEF WatchedFollowed, server, handlers, store
  <2> QED BY <2>1, <2>2, QuietKeepsWatch DEF server, handlers, store
<1>7. CASE Drop
  <2>1. WatchedFollowed'
    BY <1>7 DEF Drop, WatchedFollowed
  <2> QED BY <1>7, <2>1, QuietKeepsWatch DEF Drop, server, handlers
<1>8. CASE Reconnect
  <2>1. WatchedFollowed'
    BY <1>8 DEF Reconnect, WatchedFollowed, server, handlers, store
  <2> QED BY <1>8, <2>1, QuietKeepsWatch DEF Reconnect, server, handlers, store
<1>9. CASE UNCHANGED vars
  <2>1. WatchedFollowed'
    BY <1>9 DEF vars, WatchedFollowed
  <2> QED BY <1>9, <2>1, QuietKeepsWatch DEF vars
<1>10. ASSUME NEW m \in Messages, Die(m)
       PROVE  WatchInvariant'
  <2>1. WatchedFollowed'
    BY <1>10 DEF Die, WatchedFollowed, socket, store
  <2> QED BY <1>10, <2>1, QuietKeepsWatch DEF Die, store
<1> QED BY <1>1, <1>2, <1>3, <1>4, <1>5, <1>6, <1>7, <1>8, <1>9, <1>10,
        CreateKeepsWatch, TokenKeepsWatch, FinishKeepsWatch, AnnounceKeepsWatch,
        ReceiveEventKeepsWatch DEF Next

(* The invariant of the tab, in every behaviour.                           *)
THEOREM ViewInvariantHolds == Spec => []ViewInvariant
<1>1. Init => ViewInvariant
  BY InitEstablishes
<1>2. ViewInvariant /\ [Next]_vars => ViewInvariant'
  BY StepKeeps
<1> QED BY <1>1, <1>2, PTL DEF Spec

(* Every variable keeps its type (ChatStore, SocketService).               *)
THEOREM ViewTypeCorrect == Spec => []TypeOK
<1>1. ViewInvariant => TypeOK
  BY DEF ViewInvariant
<1> QED BY <1>1, ViewInvariantHolds, PTL

(* History is loading exactly while the newest request is out (loadSession *)
(* and its generation).                                                    *)
THEOREM SpinnerIsTrue == Spec => []LoadingIsNewest
<1>1. ViewInvariant => LoadingIsNewest
  BY DEF ViewInvariant
<1> QED BY <1>1, ViewInvariantHolds, PTL

(* A reply of another session never blocks the composer (isStreaming and   *)
(* the event handlers).                                                    *)
THEOREM ComposerIsOwn == Spec => []OnlyOwnRepliesBlock
<1>1. ViewInvariant => OnlyOwnRepliesBlock
  BY DEF ViewInvariant, OwnStreaming, OnlyOwnRepliesBlock
<1> QED BY <1>1, ViewInvariantHolds, PTL

(* A reply the tab followed from its start on loses and repeats nothing:   *)
(* once the events on the wire have arrived the tab shows what the handler *)
(* produced, or what it wrote to the row (ChatStore's event handlers).     *)
THEOREM WatchedExact == Spec => []WatchedTextIsExact
<1>1. Init => WatchInvariant
  BY DEF Init, LifecycleInit, WatchInvariant, RowsSettled, WatchedFollowed,
         WatchedTextIsExact
<1>2. ViewInvariant /\ WatchInvariant /\ [Next]_vars => WatchInvariant'
  BY WatchStep
<1>3. WatchInvariant => WatchedTextIsExact
  BY DEF WatchInvariant
<1> QED BY <1>1, <1>2, <1>3, ViewInvariantHolds, PTL DEF Spec

(* What the rows of a conversation go through with a tab beside them is a  *)
(* life of MessageLifecycle: no load, event or lost connection of the tab  *)
(* lets a reply start twice, settle twice or change once it is done.       *)
THEOREM ViewImplementsLifecycle == Spec => LifecycleSpec
<1>1. Init => LifecycleInit
  BY DEF Init
<1>2. [Next]_vars => [LifecycleNext]_lifecycleVars
  <2> SUFFICES ASSUME [Next]_vars PROVE [LifecycleNext]_lifecycleVars
    OBVIOUS
  <2>1. ASSUME NEW s, Coerce(s)
        PROVE  LifecycleNext
    <3> DEFINE M == {m \in Messages : home[m] = s /\ status[m] = "streaming"}
    <3>1. M \in SUBSET {m \in Messages : status[m] = "streaming"}
      OBVIOUS
    <3>2. /\ status' = [m \in Messages |-> IF m \in M THEN "error" ELSE status[m]]
          /\ UNCHANGED settled
      BY <2>1 DEF Coerce
    <3> HIDE DEF M
    <3> QED BY <3>1, <3>2 DEF LifecycleNext, Interrupt
  <2>2. CASE \E m \in Messages : (\E s \in Sessions : Create(m, s)) \/ Finish(m)
    BY <2>2 DEF Create, Finish, LifecycleNext
  <2>3. CASE \/ \E s \in Sessions : LoadElsewhere(s)
             \/ \E g \in 1..MaxLoads : Reconcile(g)
    BY <2>1, <2>3 DEF LoadElsewhere, Reconcile
  <2>4. CASE \/ \E m \in Messages : Token(m) \/ Announce(m) \/ Die(m)
             \/ \E s \in Sessions : FinishJoin(s) \/ LoadSession(s)
             \/ \E g \in 1..MaxLoads : List(g) \/ LoadFails(g) \/ ReceiveAnswer(g)
    BY <2>4 DEF Token, Announce, Die, FinishJoin, LoadSession, List, LoadFails, ReceiveAnswer,
                server, handlers, lifecycleVars
  <2>5. CASE HandleEmit \/ Drop \/ Reconnect \/ ReceiveEvent \/ UNCHANGED vars
    BY <2>5 DEF HandleEmit, Drop, Reconnect, ReceiveEvent, server, handlers, vars,
                lifecycleVars
  <2> QED BY <2>2, <2>3, <2>4, <2>5 DEF Next
<1> QED BY <1>1, <1>2, PTL DEF Spec, LifecycleSpec
=============================================================================
