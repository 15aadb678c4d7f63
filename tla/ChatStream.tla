----------------------------- MODULE ChatStream -----------------------------
(***************************************************************************)
(* One chat response, from the `chat:send` event to the final row, with    *)
(* everything that may happen to it on the way: a second send, `chat:stop`,*)
(* the deletion of its session, a page load that reconciles stuck rows, a  *)
(* graceful shutdown, a crash and a restart.                               *)
(*                                                                         *)
(* The backend is one Node process: a handler runs without interruption    *)
(* from one `await` to the next, so every action below is one such stretch *)
(* of ChatGateway, ChatSessionsService, MessagesService or the             *)
(* ActiveStreamRegistry, together with the database statement it awaits.   *)
(* A send h names its handler invocation and also the assistant message    *)
(* that the invocation creates.  What is left out: token text, artifacts   *)
(* (ArtifactRevisions), rate limits and the sends refused before they read *)
(* the session, which leave no trace.                                      *)
(***************************************************************************)
EXTENDS Naturals

CONSTANTS Sessions,     \* chat session ids
          Sends,        \* invocations of onChatSend, and their message ids
          NoSession,    \* the session of a send that has not arrived
          MaxRestarts   \* bound: how often the process is started again

ASSUME ChatStreamAssumption == /\ NoSession \notin Sessions
                               /\ MaxRestarts \in Nat

VARIABLES
  server,       \* the process: "up", "stopping", "exited" or "crashed"
  restarts,     \* how often it was started again
  sessions,     \* rows of chat_sessions
  deleting,     \* sessions whose DELETE has been issued but not executed
  pc,           \* where the handler of a send is
  session,      \* the session a send is for
  row,          \* the assistant message row of a send
  controllers,  \* registry: messages with an AbortController
  bySession,    \* registry: the secondary index by session
  aborted,      \* messages whose controller was aborted
  outcome,      \* finalStatus and finalErrorMessage of a handler
  stops         \* chat:stop handlers past their ownership check

registry == <<controllers, bySession>>
handler  == <<pc, session, outcome>>
process  == <<server, restarts>>
vars     == <<server, restarts, sessions, deleting, pc, session, row,
              controllers, bySession, aborted, outcome, stops>>

Alive == server \in {"up", "stopping"}

(* Where a handler is between two awaits, in the order it gets there:      *)
(* getOwned answered; hasActiveStream passed; the user message is written; *)
(* the pending assistant row is written; the provider streams; the parser  *)
(* is being flushed; the registry entry is released.                       *)
Running  == {"owned", "admitted", "prompted", "pending", "streaming",
             "flushing", "finalizing"}
Finished == {"rejected", "failed", "done", "lost", "cutoff"}

(* A row is "none" before it is inserted and "removed" once the cascade of *)
(* its session's deletion took it.                                         *)
RowStatus == {"none", "streaming", "complete", "error", "stopped", "removed"}
RowError  == {"none", "failure", "interrupted"}
NoRow     == [status |-> "none", error |-> "none"]
RemovedRow == [status |-> "removed", error |-> "none"]
Exists(h) == row[h].status \notin {"none", "removed"}

(* MessagesService and the registry, as the handlers call them.            *)
PendingRow == [status |-> "streaming", error |-> "none"]

InterruptedRow == [status |-> "error", error |-> "interrupted"]

(* Prisma leaves a column alone when its value is `undefined`, so a row    *)
(* that carries an error text keeps it unless the handler has its own.     *)
FinalizedRow(old, final) ==
  [status |-> final.status,
   error  |-> IF final.error = "none" THEN old.error ELSE final.error]

HasActiveStream(s) == bySession[s] # {}

RegisterStream(h) ==
  /\ controllers' = controllers \cup {h}
  /\ bySession' = [bySession EXCEPT ![session[h]] = @ \cup {h}]

ReleaseStream(h) ==
  IF h \in controllers
  THEN /\ controllers' = controllers \ {h}
       /\ bySession' = [bySession EXCEPT ![session[h]] = @ \ {h}]
  ELSE UNCHANGED registry

(* Mutation: the session's entries are dropped without being aborted.      *)
StopAllDropsOnly(s) == /\ UNCHANGED aborted
                       /\ controllers' = controllers \ bySession[s]
                       /\ bySession' = [bySession EXCEPT ![s] = {}]

StopAllForSession(s) ==
  /\ aborted' = aborted \cup bySession[s]
  /\ controllers' = controllers \ bySession[s]
  /\ bySession' = [bySession EXCEPT ![s] = {}]

ClearRegistry == /\ controllers' = {}
                 /\ bySession' = [s \in Sessions |-> {}]

Goto(h, to) == pc' = [pc EXCEPT ![h] = to]

Init ==
  /\ server = "up"
  /\ restarts = 0
  /\ sessions = Sessions
  /\ deleting = {}
  /\ pc = [h \in Sends |-> "idle"]
  /\ session = [h \in Sends |-> NoSession]
  /\ row = [h \in Sends |-> NoRow]
  /\ controllers = {}
  /\ bySession = [s \in Sessions |-> {}]
  /\ aborted = {}
  /\ outcome = [h \in Sends |-> [status |-> "complete", error |-> "none"]]
  /\ stops = {}

-----------------------------------------------------------------------------
(* chat:send *)

(* The event arrives and getOwned finds the session.                       *)
Receive(h, s) ==
  /\ server = "up"
  /\ pc[h] = "idle"
  /\ s \in sessions
  /\ Goto(h, "owned")
  /\ session' = [session EXCEPT ![h] = s]
  /\ UNCHANGED <<process, sessions, deleting, row, registry, aborted,
                 outcome, stops>>

(* The concurrency policy: no second response while one is registered.     *)
Admit(h) ==
  /\ Alive
  /\ pc[h] = "owned"
  /\ IF HasActiveStream(session[h]) THEN Goto(h, "rejected")
                                    ELSE Goto(h, "admitted")
  /\ UNCHANGED <<process, sessions, deleting, session, row, registry,
                 aborted, outcome, stops>>

(* The provider is available; the user message, the session's updatedAt    *)
(* and its derived title are written.                                      *)
Prompt(h) ==
  /\ Alive
  /\ pc[h] = "admitted"
  /\ session[h] \in sessions
  /\ Goto(h, "prompted")
  /\ UNCHANGED <<process, sessions, deleting, session, row, registry,
                 aborted, outcome, stops>>

(* createPendingAssistantMessage: the row is visible as `streaming`, and   *)
(* history, artifacts and memory notes are read next, outside the try.     *)
CreatePending(h) ==
  /\ Alive
  /\ pc[h] = "prompted"
  /\ session[h] \in sessions
  /\ Goto(h, "pending")
  /\ row' = [row EXCEPT ![h] = PendingRow]
  /\ UNCHANGED <<process, sessions, deleting, session, registry, aborted,
                 outcome, stops>>

(* The context is built; the stream is registered and the provider called. *)
StartStream(h) ==
  /\ Alive
  /\ pc[h] = "pending"
  /\ RegisterStream(h)
  /\ Goto(h, "streaming")
  /\ UNCHANGED <<process, sessions, deleting, session, row, aborted,
                 outcome, stops>>

(* Mutation: a status the schema lacks.                                    *)
EndedAborted(h) == {[status |-> "aborted", error |-> "none"]}

(* The provider ends the stream: with `done` (which reads `stopped` only   *)
(* when it saw the abort), with an `error` event, or by throwing, when the *)
(* signal decides between `stopped` and `error`.                           *)
EndedWith(h) ==
  {[status |-> "complete", error |-> "none"],
   [status |-> "error", error |-> "failure"]}
  \cup (IF h \in aborted
        THEN {[status |-> "stopped", error |-> "none"],
              [status |-> "stopped", error |-> "failure"]}
        ELSE {})

EndStream(h) ==
  /\ Alive
  /\ pc[h] = "streaming"
  /\ \E final \in EndedWith(h) : outcome' = [outcome EXCEPT ![h] = final]
  /\ Goto(h, "flushing")
  /\ UNCHANGED <<process, sessions, deleting, session, row, registry,
                 aborted, stops>>

(* Mutation: a failing flush leaves the finally block at once.             *)
FlushThrows(h) ==
  /\ Alive
  /\ pc[h] = "flushing"
  /\ Goto(h, "done")
  /\ UNCHANGED <<process, sessions, deleting, session, row, registry,
                 aborted, outcome, stops>>

(* The finally block: the flush may save a last artifact and may fail,     *)
(* which overrides the outcome; then the entry is released.                *)
FlushAndRelease(h) ==
  /\ Alive
  /\ pc[h] = "flushing"
  /\ \/ UNCHANGED outcome
     \/ outcome' = [outcome EXCEPT ![h] = [status |-> "error",
                                           error  |-> "failure"]]
  /\ ReleaseStream(h)
  /\ Goto(h, "finalizing")
  /\ UNCHANGED <<process, sessions, deleting, session, row, aborted, stops>>

(* finalizeAssistantMessage updates the row whatever it reads by now.      *)
Finalize(h) ==
  /\ Alive
  /\ pc[h] = "finalizing"
  /\ Exists(h)
  /\ row' = [row EXCEPT ![h] = FinalizedRow(@, outcome[h])]
  /\ Goto(h, "done")
  /\ UNCHANGED <<process, sessions, deleting, session, registry, aborted,
                 outcome, stops>>

(* An awaited call outside the try throws: the provider is unavailable,    *)
(* the session is gone (foreign key, record not found), or the database    *)
(* fails.  The handler ends where it is and cleans nothing up.             *)
Fail(h) ==
  /\ Alive
  /\ pc[h] \in {"admitted", "prompted", "pending", "finalizing"}
  /\ Goto(h, "failed")
  /\ UNCHANGED <<process, sessions, deleting, session, row, registry,
                 aborted, outcome, stops>>

-----------------------------------------------------------------------------
(* chat:stop, page loads and session deletion *)

(* onChatStop: the message exists and belongs to the user.                 *)
StopRequest(h) ==
  /\ server = "up"
  /\ Exists(h)
  /\ stops' = stops \cup {h}
  /\ UNCHANGED <<process, sessions, deleting, handler, row, registry, aborted>>

(* ... and after that await the registry is asked to abort it.             *)
StopFire(h) ==
  /\ Alive
  /\ h \in stops
  /\ stops' = stops \ {h}
  /\ aborted' = IF h \in controllers THEN aborted \cup {h} ELSE aborted
  /\ UNCHANGED <<process, sessions, deleting, handler, row, registry>>

(* Mutation: every row that is not complete counts as stuck.               *)
OpenSessionCoercesAll(s) ==
  /\ server = "up"
  /\ s \in sessions
  /\ row' = [h \in Sends |->
               IF session[h] = s /\ row[h].status \in {"streaming", "stopped"}
               THEN InterruptedRow ELSE row[h]]
  /\ UNCHANGED <<process, sessions, deleting, handler, registry, aborted, stops>>

(* GET /chat/sessions/:id/messages reconciles before it lists.             *)
OpenSession(s) ==
  /\ server = "up"
  /\ s \in sessions
  /\ row' = [h \in Sends |-> IF session[h] = s /\ row[h].status = "streaming"
                             THEN InterruptedRow ELSE row[h]]
  /\ UNCHANGED <<process, sessions, deleting, handler, registry, aborted, stops>>

(* DELETE /chat/sessions/:id: abort the session's streams ...              *)
DeleteBegin(s) ==
  /\ server = "up"
  /\ s \in sessions
  /\ StopAllForSession(s)
  /\ deleting' = deleting \cup {s}
  /\ UNCHANGED <<process, sessions, handler, row, stops>>

(* ... and after that delete the row; its messages go by cascade.          *)
DeleteRow(s) ==
  /\ Alive
  /\ s \in deleting
  /\ deleting' = deleting \ {s}
  /\ sessions' = sessions \ {s}
  /\ row' = [h \in Sends |-> IF session[h] = s /\ Exists(h)
                             THEN RemovedRow ELSE row[h]]
  /\ UNCHANGED <<process, handler, registry, aborted, stops>>

-----------------------------------------------------------------------------
(* the process *)

Abandon(how) ==
  pc' = [h \in Sends |-> IF pc[h] \in Running THEN how ELSE pc[h]]

(* SIGTERM: onApplicationShutdown aborts every registered stream.          *)
Shutdown ==
  /\ server = "up"
  /\ server' = "stopping"
  /\ aborted' = aborted \cup controllers
  /\ ClearRegistry
  /\ UNCHANGED <<restarts, sessions, deleting, handler, row, stops>>

(* Nothing in the code holds the exit back until the handlers are through. *)
Exit ==
  /\ server = "stopping"
  /\ server' = "exited"
  /\ Abandon("cutoff")
  /\ ClearRegistry
  /\ deleting' = {}
  /\ stops' = {}
  /\ UNCHANGED <<restarts, sessions, session, row, aborted, outcome>>

Crash ==
  /\ Alive
  /\ server' = "crashed"
  /\ Abandon("lost")
  /\ ClearRegistry
  /\ deleting' = {}
  /\ stops' = {}
  /\ UNCHANGED <<restarts, sessions, session, row, aborted, outcome>>

Restart ==
  /\ server \in {"exited", "crashed"}
  /\ restarts < MaxRestarts
  /\ server' = "up"
  /\ restarts' = restarts + 1
  /\ UNCHANGED <<sessions, deleting, handler, row, registry, aborted, stops>>

-----------------------------------------------------------------------------
HandlerStep(h) ==
  \/ Admit(h) \/ Prompt(h) \/ CreatePending(h) \/ StartStream(h)
  \/ EndStream(h) \/ FlushAndRelease(h) \/ Finalize(h) \/ Fail(h)

Next ==
  \/ \E h \in Sends : \/ \E s \in Sessions : Receive(h, s)
                      \/ HandlerStep(h)
                      \/ StopRequest(h)
                      \/ StopFire(h)
  \/ \E s \in Sessions : OpenSession(s) \/ DeleteBegin(s) \/ DeleteRow(s)
  \/ Shutdown \/ Exit \/ Crash \/ Restart

Spec == Init /\ [][Next]_vars

(* A started handler goes on: the event loop runs every continuation, and  *)
(* the providers' connect, inactivity and total timeouts end every stream. *)
FairSpec == Spec /\ \A h \in Sends : WF_vars(HandlerStep(h))

-----------------------------------------------------------------------------
(* Properties *)

(* Every variable keeps its type; in particular a row's status and error   *)
(* are values of the schema's columns.                                     *)
TypeOK ==
  /\ server \in {"up", "stopping", "exited", "crashed"}
  /\ restarts \in 0..MaxRestarts
  /\ sessions \subseteq Sessions
  /\ deleting \subseteq Sessions
  /\ pc \in [Sends -> {"idle"} \cup Running \cup Finished]
  /\ session \in [Sends -> Sessions \cup {NoSession}]
  /\ row \in [Sends -> [status : RowStatus, error : RowError]]
  /\ controllers \subseteq Sends
  /\ bySession \in [Sessions -> SUBSET Sends]
  /\ aborted \subseteq Sends
  /\ outcome \in [Sends -> [status : {"complete", "error", "stopped"},
                            error  : {"none", "failure"}]]
  /\ stops \subseteq Sends

(* The registry's two maps never drift apart: the index by session, which  *)
(* admission and deletion consult, holds exactly the messages that have a  *)
(* controller, each under its own session (active-stream-registry).        *)
IndexAgrees ==
  \A s \in Sessions : bySession[s] = {h \in controllers : session[h] = s}

(* A response that is being generated can be stopped: it is registered, or *)
(* it was aborted already.  Neither the deletion of its session, nor other *)
(* streams coming and going, nor a shutdown make it unreachable.           *)
LiveStreamIsStoppable ==
  \A h \in Sends : pc[h] \in {"streaming", "flushing"} =>
                      h \in controllers \cup aborted

(* Nothing dead stays registered, so no session is locked against further  *)
(* sends by a response whose handler is over (finally block, line 472).    *)
RegistryHoldsOnlyLive ==
  \A h \in controllers : pc[h] \in {"streaming", "flushing"}

(* A row reads `stopped`, and a handler is about to make it so, only if    *)
(* the stream was really aborted, by a stop, a session deletion or a       *)
(* shutdown, never because a provider failed.                              *)
StoppedOnlyIfAborted ==
  \A h \in Sends : "stopped" \in {row[h].status, outcome[h].status}
                      => h \in aborted

(* A row and its handler agree: no row before the pending one is written,  *)
(* no result before the handler is through, so a row that reads `complete` *)
(* is a full response even when the session was reloaded meanwhile.        *)
RowFollowsHandler ==
  \A h \in Sends :
    /\ session[h] = NoSession <=> pc[h] = "idle"
    /\ pc[h] \in {"idle", "owned", "admitted", "prompted", "rejected"}
         => row[h] = NoRow
    /\ pc[h] \in {"pending", "streaming", "flushing", "finalizing"}
         => row[h].status \in {"streaming", "error", "removed"}
    /\ pc[h] = "done"
         => row[h].status \in {"complete", "error", "stopped", "removed"}

(* No handler writes a message into a session that is gone, whatever the   *)
(* deletion overlaps with.                                                 *)
NoRowOutlivesSession ==
  \A h \in Sends : Exists(h) => session[h] \in sessions

(* The rows follow the life of MessageLifecycle: one result per reply, and *)
(* a complete or stopped row is never touched again by a page load, a late *)
(* handler or a restart.                                                   *)
Lifecycle == INSTANCE MessageLifecycle
               WITH Messages <- Sends,
                    status   <- [h \in Sends |-> row[h].status],
                    settled  <- {h \in Sends : pc[h] = "done"}

ImplementsLifecycle == Lifecycle!LifecycleSpec

(* A reply whose handler survives does not stay `streaming`.               *)
EveryReplySettles ==
  \A h \in Sends :
    row[h].status = "streaming" /\ pc[h] \in Running
      ~> row[h].status # "streaming" \/ pc[h] \in {"failed", "lost", "cutoff"}

-----------------------------------------------------------------------------
(* What the comments of the code say and the code does not do              *)

(* active-stream-registry.service.ts:14: "only one stream may be active    *)
(* per chat session at a time".                                            *)
OneStreamPerSession ==
  \A g, h \in controllers : session[g] = session[h] => g = h

(* messages.service.ts:92: a page load coerces messages stuck mid-stream   *)
(* "e.g. from a server restart", not the reply a live handler is writing.  *)
ReconcileSparesLiveReplies ==
  [][\A h \in Sends :
       row'[h] = InterruptedRow /\ row[h] # InterruptedRow
         => pc[h] \notin Running]_vars
=============================================================================
