------------------------------ MODULE ChatView ------------------------------
(***************************************************************************)
(* What one browser tab shows of a conversation.  The tab holds a Socket.IO*)
(* connection, on which replies are streamed to the rooms it joined, and   *)
(* loads a session's history by HTTP; the two channels are not ordered     *)
(* with respect to each other.  ChatStore turns both into a message list.  *)
(*                                                                         *)
(* The replies are those of MessageLifecycle, which ChatStream implements: *)
(* this module adds the events the gateway emits when a reply starts,      *)
(* grows and settles, the rooms of the tab's socket, the loss of the       *)
(* connection (also when the access token is renewed) and the store.       *)
(*                                                                         *)
(* A text is the sequence of the numbers of its tokens.  Left out: user    *)
(* messages, which never change after they were created, deleted sessions  *)
(* (ChatStream), and the composer.                                         *)
(***************************************************************************)
EXTENDS MessageLifecycle, Naturals, Sequences

LOCAL Seqs == INSTANCE SequencesExt

CONSTANTS Sessions,   \* chat session ids
          NoSession,  \* no session is open
          MaxTokens,  \* bound: tokens of a reply
          MaxLoads,   \* bound: how often the tab opens a session
          MaxDrops    \* bound: how often the connection is lost

ASSUME ChatViewAssumption == /\ NoSession \notin Sessions
                             /\ MaxTokens \in Nat
                             /\ MaxLoads \in Nat
                             /\ MaxDrops \in Nat

VARIABLES
  home,       \* the session of a reply
  produced,   \* how many tokens its handler emitted
  announced,  \* replies whose `updated` was emitted
  dead,       \* replies whose handler ended before that
  connected,  \* the tab's socket
  drops,      \* how often it was disconnected
  rooms,      \* rooms of that socket at the server
  joining,    \* session:join handlers that await their checks
  upstream,   \* what the tab emitted and the server did not get yet
  wire,       \* what the server emitted and the tab did not get yet
  current,    \* currentSessionId
  generation, \* loadGeneration
  loading,    \* isLoadingHistory
  loads,      \* the history request of each generation
  shown,      \* messages
  watched     \* history variable: replies the tab saw from their start on

handlers == <<produced, announced, dead>>
server == <<status, settled, home, handlers>>
socket == <<connected, drops, rooms, joining, upstream>>
store  == <<current, generation, loading>>
vars   == <<status, settled, home, produced, announced, dead, connected,
            drops, rooms, joining, upstream, wire, current, generation,
            loading, loads, shown, watched>>

Text(n) == [i \in 1..n |-> i]

Shown(s, text) == [status |-> s, text |-> text]
Absent == Shown("none", <<>>)

Empty == [m \in Messages |-> Absent]

(* A row carries no text before its handler settles it.                    *)
Row(m) == Shown(status[m], IF m \in settled THEN Text(produced[m]) ELSE <<>>)

NoLoad == [session |-> NoSession, stage |-> "none", history |-> Empty]

Event(type, m, what) == [type |-> type, message |-> m, shown |-> what]

Init ==
  /\ LifecycleInit
  /\ home = [m \in Messages |-> NoSession]
  /\ produced = [m \in Messages |-> 0]
  /\ announced = {} /\ dead = {}
  /\ connected = TRUE
  /\ drops = 0
  /\ rooms = {}
  /\ joining = {}
  /\ upstream = <<>>
  /\ wire = <<>>
  /\ current = NoSession
  /\ generation = 0
  /\ loading = FALSE
  /\ loads = [g \in 1..MaxLoads |-> NoLoad]
  /\ shown = Empty
  /\ watched = {}

(* server.to(room).emit reaches the sockets that are in the room now.      *)
Emit(s, event) == wire' = IF s \in rooms THEN Append(wire, event) ELSE wire

-----------------------------------------------------------------------------
(* The handler of a reply *)

(* The tab follows the session undisturbed: it shows it, is in its room    *)
(* and has its history.                                                    *)
Following(s) == current = s /\ s \in rooms /\ ~ loading

Create(m, s) ==
  /\ Start(m)
  /\ home' = [home EXCEPT ![m] = s]
  /\ Emit(s, Event("created", m, Shown("streaming", <<>>)))
  /\ watched' = IF Following(s) THEN watched \cup {m} ELSE watched
  /\ UNCHANGED <<handlers, socket, store, loads, shown>>

Token(m) ==
  /\ home[m] # NoSession
  /\ m \notin settled \cup dead
  /\ produced[m] < MaxTokens
  /\ produced' = [produced EXCEPT ![m] = @ + 1]
  /\ Emit(home[m], Event("token", m, Shown("streaming", <<produced[m] + 1>>)))
  /\ UNCHANGED <<status, settled, home, announced, dead, socket, store, loads,
                 shown, watched>>

(* finalizeAssistantMessage.  The tab treats the three outcomes alike, so  *)
(* one stands for them all.                                                *)
Finish(m) ==
  /\ m \notin dead
  /\ Settle(m)
  /\ status'[m] = "complete"
  /\ UNCHANGED <<home, handlers, socket, wire, store, loads, shown, watched>>

(* Mutation: the event carries the pending row.                            *)
AnnounceStale(m) ==
  /\ m \in settled \ (announced \cup dead)
  /\ announced' = announced \cup {m}
  /\ Emit(home[m], Event("updated", m, Shown("streaming", Text(produced[m]))))
  /\ UNCHANGED <<status, settled, home, produced, dead, socket, store, loads,
                 shown, watched>>

(* ... and the event with the row that it returned.                        *)
Announce(m) ==
  /\ m \in settled \ (announced \cup dead)
  /\ announced' = announced \cup {m}
  /\ Emit(home[m], Event("updated", m, Row(m)))
  /\ UNCHANGED <<status, settled, home, produced, dead, socket, store, loads,
                 shown, watched>>

(* Nothing further comes of a reply: a read of its context or the update   *)
(* of its row throws outside the try, or the process dies (the connection  *)
(* then breaks too: Drop).                                                 *)
Die(m) ==
  /\ home[m] # NoSession
  /\ m \notin announced \cup dead
  /\ dead' = dead \cup {m}
  /\ UNCHANGED <<status, settled, home, produced, announced, socket, wire,
                 store, loads, shown, watched>>

(* A page load of this or another tab coerces what reads `streaming`.      *)
Coerce(s) ==
  /\ status' = [m \in Messages |-> IF home[m] = s /\ status[m] = "streaming"
                                   THEN "error" ELSE status[m]]
  /\ UNCHANGED <<settled, home, handlers>>

LoadElsewhere(s) ==
  /\ Coerce(s)
  /\ UNCHANGED <<socket, wire, store, loads, shown, watched>>

-----------------------------------------------------------------------------
(* The tab's socket at the server *)

(* A session:join waits for its checks, a session:leave does not; the rate *)
(* limit may refuse either.                                                *)
HandleEmit ==
  /\ connected
  /\ upstream # <<>>
  /\ LET emitted == Head(upstream)
     IN IF emitted.type = "join"
        THEN joining' = joining \cup {emitted.session} /\ UNCHANGED rooms
        ELSE /\ rooms' \in {rooms, rooms \ {emitted.session}}
             /\ UNCHANGED joining
  /\ upstream' = Tail(upstream)
  /\ UNCHANGED <<server, connected, drops, wire, store, loads, shown>>
  /\ watched' = {m \in watched : home[m] \in rooms'}

(* ... and is refused by a failing check, which joins nothing.             *)
FinishJoin(s) ==
  /\ s \in joining
  /\ joining' = joining \ {s}
  /\ rooms' \in {rooms, rooms \cup {s}}
  /\ UNCHANGED <<server, connected, drops, upstream, wire, store, loads,
                 shown, watched>>

(* Mutation: the join handlers of the old connection are not cut off.      *)
DropKeepsJoining ==
  /\ connected
  /\ drops < MaxDrops
  /\ connected' = FALSE
  /\ drops' = drops + 1
  /\ rooms' = {}
  /\ upstream' = <<>>
  /\ wire' = <<>>
  /\ watched' = {}
  /\ UNCHANGED <<server, joining, store, loads, shown>>

(* The network fails, or setAccessToken disconnects to send a new token.   *)
(* What is under way is lost, and the new connection is in no room.        *)
Drop ==
  /\ connected
  /\ drops < MaxDrops
  /\ connected' = FALSE
  /\ drops' = drops + 1
  /\ rooms' = {}
  /\ joining' = {}
  /\ upstream' = <<>>
  /\ wire' = <<>>
  /\ watched' = {}
  /\ UNCHANGED <<server, store, loads, shown>>

Reconnect ==
  /\ ~ connected
  /\ connected' = TRUE
  /\ UNCHANGED <<server, drops, rooms, joining, upstream, wire, store, loads,
                 shown, watched>>

-----------------------------------------------------------------------------
(* ChatStore *)

LoadSession(s) ==
  /\ generation < MaxLoads
  /\ generation' = generation + 1
  /\ upstream' = upstream
                   \o (IF current \notin {NoSession, s}
                       THEN <<[type |-> "leave", session |-> current]>> ELSE <<>>)
                   \o <<[type |-> "join", session |-> s]>>
  /\ shown' = Empty
  /\ current' = s
  /\ loading' = TRUE
  /\ loads' = [loads EXCEPT ![generation + 1] =
                  [NoLoad EXCEPT !.session = s, !.stage = "requested"]]
  /\ watched' = {}
  /\ UNCHANGED <<server, connected, drops, rooms, joining, wire>>

(* GET .../messages reconciles, then lists.                                *)
Reconcile(g) ==
  /\ loads[g].stage = "requested"
  /\ Coerce(loads[g].session)
  /\ loads' = [loads EXCEPT ![g].stage = "reconciled"]
  /\ UNCHANGED <<socket, wire, store, shown, watched>>

List(g) ==
  /\ loads[g].stage = "reconciled"
  /\ loads' = [loads EXCEPT
                 ![g].stage = "answered",
                 ![g].history = [m \in Messages |->
                    IF home[m] = loads[g].session THEN Row(m) ELSE Absent]]
  /\ UNCHANGED <<server, socket, wire, store, shown, watched>>

LoadFails(g) ==
  /\ loads[g].stage \in {"requested", "reconciled"}
  /\ loads' = [loads EXCEPT ![g].stage = "failed"]
  /\ UNCHANGED <<server, socket, wire, store, shown, watched>>

Answered(g) == loads[g].stage \in {"answered", "failed"}

(* Mutations: every answer counts; every answer ends the loading state;    *)
(* only a successful answer does.                                          *)
ReceiveAnyAnswer(g) ==
  /\ Answered(g)
  /\ loads' = [loads EXCEPT ![g] = [NoLoad EXCEPT !.stage = "done"]]
  /\ shown' = IF loads[g].stage = "answered" THEN loads[g].history ELSE shown
  /\ loading' = IF g = generation THEN FALSE ELSE loading
  /\ UNCHANGED <<server, socket, wire, current, generation, watched>>

ReceiveAnswerUnflagged(g) ==
  /\ Answered(g)
  /\ loads' = [loads EXCEPT ![g] = [NoLoad EXCEPT !.stage = "done"]]
  /\ shown' = IF g = generation /\ loads[g].stage = "answered"
              THEN loads[g].history ELSE shown
  /\ loading' = FALSE
  /\ UNCHANGED <<server, socket, wire, current, generation, watched>>

ReceiveAnswerNoFinally(g) ==
  /\ Answered(g)
  /\ loads' = [loads EXCEPT ![g] = [NoLoad EXCEPT !.stage = "done"]]
  /\ shown' = IF g = generation /\ loads[g].stage = "answered"
              THEN loads[g].history ELSE shown
  /\ loading' = IF g = generation /\ loads[g].stage = "answered" THEN FALSE ELSE loading
  /\ UNCHANGED <<server, socket, wire, current, generation, watched>>

(* The answer of a load that was superseded is dropped.                    *)
ReceiveAnswer(g) ==
  /\ Answered(g)
  /\ loads' = [loads EXCEPT ![g] = [NoLoad EXCEPT !.stage = "done"]]
  /\ shown' = IF g = generation /\ loads[g].stage = "answered"
              THEN loads[g].history ELSE shown
  /\ loading' = IF g = generation THEN FALSE ELSE loading
  /\ UNCHANGED <<server, socket, wire, current, generation, watched>>

(* A token is added to its message, if that is shown.                     *)
Extended(message, delta) ==
  IF message = Absent THEN message
  ELSE Shown(message.status, message.text \o delta)

(* Mutation: `created` of any session is shown.                            *)
ApplyUnfiltered(list, event) ==
  LET m == event.message
  IN [list EXCEPT ![m] =
        IF event.type = "token" THEN Extended(@, event.shown.text)
        ELSE event.shown]

(* The three event handlers: `created` is shown only for the open session, *)
(* a token is added to a message that is shown, `updated` replaces or adds.*)
Apply(list, event) ==
  LET m == event.message
  IN [list EXCEPT ![m] =
        CASE event.type = "created" ->
               IF home[m] = current THEN event.shown ELSE @
          [] event.type = "token" -> Extended(@, event.shown.text)
          [] event.type = "updated" -> event.shown]

(* What is shown once the first n events on the wire have arrived.         *)
Arriving[n \in 0..Len(wire)] ==
  IF n = 0 THEN shown ELSE Apply(Arriving[n - 1], wire[n])

ReceiveEvent ==
  /\ wire # <<>>
  /\ shown' = Apply(shown, Head(wire))
  /\ wire' = Tail(wire)
  /\ UNCHANGED <<server, socket, store, loads, watched>>

-----------------------------------------------------------------------------
Next ==
  \/ \E m \in Messages : \/ \E s \in Sessions : Create(m, s)
                         \/ Token(m)
                         \/ Finish(m) \/ Announce(m) \/ Die(m)
  \/ \E s \in Sessions : LoadElsewhere(s) \/ FinishJoin(s) \/ LoadSession(s)
  \/ \E g \in 1..MaxLoads : \/ Reconcile(g) \/ List(g) \/ LoadFails(g)
                            \/ ReceiveAnswer(g)
  \/ HandleEmit \/ Drop \/ Reconnect \/ ReceiveEvent

Spec == Init /\ [][Next]_vars

(* Handlers that do not die finish, requests are answered and events are   *)
(* delivered; nobody has to open a session or to reconnect.                *)
FairSpec ==
  /\ Spec
  /\ \A m \in Messages : WF_vars(Finish(m)) /\ WF_vars(Announce(m))
  /\ \A g \in 1..MaxLoads :
       WF_vars(Reconcile(g) \/ List(g) \/ LoadFails(g) \/ ReceiveAnswer(g))
  /\ WF_vars(ReceiveEvent)

-----------------------------------------------------------------------------
(* Properties *)

ShownMessages ==
  [status : {"none", "streaming"} \cup Outcomes, text : Seq(1..MaxTokens)]

(* Every variable keeps its type, and a connection that is lost leaves     *)
(* nothing behind at the server.                                           *)
TypeOK ==
  /\ home \in [Messages -> Sessions \cup {NoSession}]
  /\ produced \in [Messages -> 0..MaxTokens]
  /\ announced \subseteq settled /\ dead \subseteq Messages
  /\ connected \in BOOLEAN
  /\ drops \in 0..MaxDrops
  /\ rooms \subseteq Sessions
  /\ joining \subseteq Sessions
  /\ current \in Sessions \cup {NoSession}
  /\ generation \in 0..MaxLoads
  /\ loading \in BOOLEAN
  /\ shown \in [Messages -> ShownMessages]
  /\ watched \subseteq Messages
  /\ ~ connected => rooms = {} /\ joining = {} /\ wire = <<>>

(* The spinner tells the truth: history is loading exactly while the       *)
(* newest request is out, however many older ones answer, fail or stay     *)
(* unanswered (chat.store.ts:82).                                          *)
LoadingIsNewest ==
  loading <=> generation > 0 /\ loads[generation].stage # "done"

(* The composer, which is blocked while a shown message streams, is never  *)
(* blocked by a reply of another session, although late events of it may   *)
(* still reach the tab (chat.store.ts:31).                                 *)
OnlyOwnRepliesBlock ==
  \A m \in Messages : shown[m].status = "streaming" => home[m] = current

(* A tab that was in the room, with its history loaded, when a reply began *)
(* loses and repeats nothing of it: once what is on the wire has arrived,  *)
(* it shows what the handler produced, and in the end what the row says,   *)
(* even if another tab coerced the row meanwhile.                          *)
ProducedSoFar(m) ==
  IF m \in announced THEN Row(m) ELSE Shown("streaming", Text(produced[m]))

WatchedTextIsExact ==
  \A m \in watched : Arriving[Len(wire)][m] = ProducedSoFar(m)

(* Such a reply is shown as finished in the end, unless the tab opens      *)
(* another session or loses its connection, or the handler of the reply    *)
(* ended without its last event (Die).                                     *)
WatchedReplyEnds ==
  \A m \in Messages :
    m \in watched ~> shown[m].status \in Outcomes \/ m \notin watched \ dead

(* Opening a session ends: the spinner goes away.                          *)
LoadingEnds == loading ~> ~ loading

-----------------------------------------------------------------------------
(* What a comment of the code says and the code does not do                *)

(* chat.gateway.ts:164: clients in the same session room, "or the same     *)
(* user reconnecting", may still want the in-flight response, so a tab     *)
(* that reconnects enters the room of the session it shows again.          *)
ReconnectRejoins ==
  [][~ connected /\ connected' /\ current # NoSession =>
       \/ current \in rooms' \cup joining'
       \/ [type |-> "join", session |-> current] \in Seqs!ToSet(upstream')]_vars
=============================================================================
