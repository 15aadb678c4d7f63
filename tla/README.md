# Formal models of zEXtream Application AI

This directory is a TLA+ development of the repository: models of the parts in
which concurrency, failure and ordering matter, TLC configurations that check
them on small instances, and TLAPS proofs of their central properties for every
value of the constants. Each model is translated from the TypeScript source;
`PROJECT.json` names the lines behind every definition.

    tlc -workers 2 -config ChatStream.cfg MCChatStream     # model-check
    tlapm ChatStream_proofs.tla                            # prove

## 1. The system

A self-hosted chat application with a coding workspace. An Angular front end
talks to one NestJS backend by REST and by Socket.IO; the backend keeps its
state in PostgreSQL through Prisma and calls AI providers: Ollama directly,
Claude and Codex through a *host bridge* that runs their command-line tools and
executes operations on a workspace directory. The same package is an MCP server
with the workspace tools and an agent of its own, which a Python IDE (Textual
and Qt), other IDEs and the script `delegate.mjs` start as a child process.

### 1.1 Inventory

| Part | State | Operations | What makes it correct |
|---|---|---|---|
| Chat gateway (`realtime/chat.gateway.ts`) | per handler: parser, outcome, abort controller | `chat:send`, `chat:stop`, `session:join`, `session:leave`, `artifact:edit` | a reply is stoppable while it streams, its row gets exactly one result, failures clean up |
| Stream registry (`chat/active-stream-registry.service.ts`) | controllers by message, index by session | register, stop, release, stopAllForSession, shutdown | the two maps agree; nothing dead stays registered |
| Messages and sessions (`chat/*.service.ts`) | rows with `streamingStatus`, cascade from sessions | pending row, finalize, reconcile on page load, delete | `complete` and `stopped` are final; no row outlives its session |
| Authentication (`auth/`) | refresh tokens with family, parent, `revokedAt`; the cookie | login, refresh with rotation, reuse detection, logout | one valid token per family, a browser is not logged out by itself, a sign-out ends the session |
| Artifacts (`artifacts/artifacts.service.ts`) | revisions with number and parent, unique per file | createRevision: count, read latest, insert, retry | numbering without gap, one parent chain, quotas |
| Artifact stream parser (`ai/artifact-stream-parser.ts`) | buffer, mode | push, flush | a saved file is one block of the reply however the text was cut; every opened block ends |
| AI providers, breaker (`ai/`) | per turn: timers, buffers; shared: failures, openedAt | streamChat, runTurn, isOpen, record | bounded rounds, every write is reported, text is shown or executed |
| Workspace tools, bridge client (`ai/tools/`, `workspace/`) | requests in flight | execute, post, the controller's routes | a reported success is true; nobody waits for ever |
| Memory notes (`memory/`) | notes per user | extract, deduplicate, evict | bounded number, oldest go first |
| Admin back office (`admin/`) | role, active flag, grants, audit entries | change role, status, permissions; bootstrap | an administrator remains; a demoted user keeps nothing |
| Provider settings, health, config, metrics, rate limiter, cleanup | caches and counters | probe, count, expire | caches expire, limits per window |
| ChatStore and SocketService (front end) | message list, open session, load generation, socket | load session, apply events, renew token | the list shows what the server says; spinner and composer are not stuck |
| AuthStore and interceptor (front end) | access token, refresh in flight, calls waiting for it | refresh, replay, sign out | calls share one refresh, every call comes back |
| ArtifactStore (front end) | artifacts by file, pending saves, streamed files, history | load, edit, debounced save, apply events | one session at a time; streamed files are finished |
| WorkspaceStore (front end) | tabs, tree, requests | open, edit, save, create, close, run | a tab takes for saved what was written |
| Host bridge (`host-bridge/`) | the files; child processes | list, read, write, search, exec | refused paths and commands do nothing |
| Host bridge agent, MCP tools, `delegate.mjs` | transcript, turns, child process, exit code | agent loop, tool calls, time-out, shutdown | bounded turns; results and exit code tell the truth |
| IDE (`ide/src/local_coder`) | pending requests, document versions, review baselines | LSP and MCP client, review, runner, git, UI | every request ends, the server sees the last text, revert restores the baseline |

### 1.2 How the parts meet

`onChatSend` is where most meet. It reads the session, asks the registry, writes
the user's message and a pending assistant row, reads history, artifacts and
memory notes, registers an AbortController, streams from a provider, splits the
text into prose and artifacts (each artifact becomes a revision), releases the
registration, writes the final row and starts memory extraction. Prose, artifact
chunks and the final row go to the Socket.IO room of the session. In the browser
two stores consume those events and, on a channel of its own, the REST history.
An expired access token makes the browser refresh it and reconnect its socket.
A provider's tool calls, the browser's editor, the MCP tools and the local agent
all work on the files of one workspace, through the same few functions.

### 1.3 Where it is hard

* Node runs a handler without interruption only up to its next `await`; every
  check before an await (`hasActiveStream`, the quota counts, a user's role) may
  be stale after it.
* Several tables are written by several requests at READ COMMITTED. Correctness
  then hangs on one conditional UPDATE (rotation) or one unique index
  (revisions), and where there is neither (grants, notes) on less.
* A reply lives for minutes, while its session may be reloaded, deleted,
  stopped, or the process shut down or killed.
* HTTP answers and socket events are not ordered with respect to each other, and
  socket events are lost with the connection.
* Whoever gives up on an operation of the workspace does not end it: the timers
  of the waiting side and the work on the host are independent, and file system
  calls of different operations interleave.
* Everything is retried somewhere: inserts after a conflict, requests after a
  401, provider connections, malformed agent replies.

The full list, each hazard at its line and with the properties that watch it, is
under `hazards` in `PROJECT.json`.

## 2. Plan

The order follows importance: the life of a reply, the credentials, the stored
artifacts, what the user sees, the parts that call models and tools, and the
smaller services.

| Module | Role | State |
|---|---|---|
| `MessageLifecycle` | abstract: life of one message row | done |
| `ChatStream`, `ChatStream_proofs` | gateway, registry, sessions, rows, process | done, proved |
| `TokenFamilies` | abstract: what rotation promises | done |
| `RefreshTokens`, `RefreshTokens_proofs` | the auth service's transactions | done, proved |
| `SignIn`, `SignIn_proofs` | the browser's pages over `RefreshTokens` | done, proved |
| `RevisionLog` | abstract: append-only list per file | done |
| `ArtifactRevisions`, `ArtifactRevisions_proofs` | createRevision's transactions | done, proved |
| `ChatView`, `ChatView_proofs` | one browser tab, built on `MessageLifecycle` | done, proved |
| `ArtifactStream` | parser and `handleSegments` | done, proved in `ArtifactEditor_proofs` |
| `ArtifactEditor`, `ArtifactEditor_proofs` | ArtifactStore over `ArtifactStream` | done, proved |
| `HostWorkspace` | operations on the workspace directory | done |
| `ProviderConnection`, `ToolCallText`, `ToolTurn` | breaker, connection, tool calls in text, Ollama's tool loop | done |
| `LocalAgent` | `delegate.mjs`, MCP server process, agent loop | done |
| `McpTools`, `WorkspaceTabs` | the IDE's tools, the browser's editor | done |
| `Workbench`, `Workbench_proofs` | composes the last six over one workspace | done, proved |
| `AdminAccess` | concurrent back-office requests | done, proved in `BackOffice_proofs` |
| `MemoryNotes` | concurrent extraction of notes | done, proved in `BackOffice_proofs` |
| `BackOffice`, `BackOffice_proofs` | composes the last two | done, proved |
| the IDE's language client and review | debounced changes, cancellation, baselines | next |

"Proved" means every safety property that a passing run checks. What is worth
adding next: the IDE (its pending changes and its review are a protocol with a
server, as hard as those modelled here), and an abstract workspace that
`Workbench` implements for a party that works alone.

## 3. The models

In all of them one action is one stretch of code between two awaits, together
with the statement or call that the code awaits there, so that other actors run
exactly where the event loop lets them.

### 3.1 ChatStream: the life of a reply

Actors: handlers of `chat:send` (constant `Sends`; each also names the message
row it makes), `chat:stop`, page loads, session deletions, the process.

| Code | Actions |
|---|---|
| `onChatSend` up to `getOwned` | `Receive` |
| `hasActiveStream` | `Admit` |
| availability, user message, touch, title | `Prompt` |
| `createPendingAssistantMessage` | `CreatePending` |
| context reads, `register`, start of `streamChat` | `StartStream` |
| the `for await` loop and its catch | `EndStream`, outcomes in `EndedWith` |
| the finally block up to `release` | `FlushAndRelease` |
| `finalizeAssistantMessage` | `Finalize` |
| a throw outside the try | `Fail` |
| `onChatStop`: ownership check, then `stop` | `StopRequest`, `StopFire` |
| `GET messages` | `OpenSession` |
| `ChatSessionsService.remove`: stopAllForSession, then DELETE | `DeleteBegin`, `DeleteRow` |
| SIGTERM, end of the process, kill, start | `Shutdown`, `Exit`, `Crash`, `Restart` |

`registry.controllers` and `registry.bySession` are the two maps of the code.
`aborted` records AbortSignals. `FinalizedRow` keeps an error text that a page
load wrote when the handler has none of its own, because Prisma skips
`undefined`. Not modelled here: token text, artifacts (see 3.5), rate limits,
usage counts.

### 3.2 RefreshTokens and SignIn: credentials

`RefreshTokens`: requests run `refresh`; each is a small transaction machine:
read the presented row (`Present`), insert the child (`BeginRotation`),
conditional UPDATE (`Rotate`), commit (`Commit`), or report reuse and revoke the
family (`RevokeStart`, `RevokeFamily`). PostgreSQL at READ COMMITTED is made
explicit: `pending` rows are invisible to others, `Locked` rows make an UPDATE
wait and re-evaluate its condition, and `snapshot` holds the rows a waiting
statement saw when it started. Expiry, password checks and the cleanup job are
left out; they only refuse or delete what is unusable.

`SignIn` EXTENDS it with a browser. `jar` is the one refresh cookie;
each page has its `access` token, AuthStore's `inFlightRefresh` (`flight`: the
POST, then `GET /users/me` through the interceptor) and the state of each call.
`Unauthorized` is the interceptor's 401 branch, `TryRefresh` and `Joins` the
shared promise, `UserLoaded` the moment at which waiting calls are sent again.
`SignedOut` is `AuthController.logout`: `carried` is the cookie the request left
with, `RevokeCookie` the UPDATE on its row. `Expire`, `LoseAnswer` and
`CallFails` are the clock and the network; with `SignedOutUnheard` the logout was
executed but its answer was lost, so the cookie outlives its row. `disturbed` records that refreshes
overlapped, or with a sign-out, or that an answer was lost. When a scene has no
pages, tokens are presented from anywhere (`Strangers`), which gives the
behaviours of `RefreshTokens` alone.

### 3.3 ArtifactRevisions: createRevision under concurrency

Calls (`Writers`) count, read the latest committed revision, insert and commit,
each statement a step. An INSERT whose key an uncommitted row holds waits
(`MustWait`); one whose key is committed fails with P2002 and restarts the
transaction, three attempts in all. `Fail` is any other database error.
Contents, languages and name validation are left out.

### 3.4 ChatView: one browser tab

Built on `MessageLifecycle`: it EXTENDS the abstract module and adds the events
emitted at each of its steps, so what it assumes about replies is what
`ChatStream` is proved to provide. The tab has a socket (rooms at the server,
packets in both directions, loss, reconnection) and ChatStore (`current`,
`generation`, `loading`, `loads`, `shown`). A text is the sequence of its token
numbers, so losing, repeating or reordering tokens is visible. `watched` is a
history variable: the replies that began while the tab was in the room with its
history loaded, and has followed since. Overlapping `session:join` handlers of
one room count as one, and the rate limit may refuse a join as well as a leave.

A handler ends its reply in two steps, the update of the row (`Finish`) and the
event with the row it returned (`Announce`). Nothing obliges it to get there:
`Die` stands for a read of the context that throws after `created` was sent
(outside the try), for an update that throws, and for the end of the process.
Such replies (`dead`) stay `streaming` in the tab until a page load coerces them.

### 3.5 ArtifactStream and ArtifactEditor: files in a reply

`ArtifactStream`: a reply's text is a sequence of units that no regular
expression of the parser looks inside: one backtick, the header with a file name,
CR, LF, and other text. `Push` is one token event with any number of units, so a
fence may be cut after each of its backticks, before and after its header, and
between CR and LF. `Parse` is the parser's loop, with `Turn` for a turn that
finds a fence (`Fences`, at the start of a line or of the buffer) and `LastTurn`
for the one that finds none; `HeldBack` is what it keeps because it may be the
beginning of a fence (`SuspiciousTail`, `PendingHeader`, and `atMessageStart`),
and `Flush` its end. `torn` is a history variable: an open block was cut where
this holds back too little (`BadCut`). The segments are handled one by one
(`HandleStart`, `HandleChunk`, `HandleEnd`, and their failures), with the current
artifact kept across failures as `handleSegments` does. Saving a revision is one
step: 3.3 has what happens inside it. A reply may end at any point, by its end,
an error or a stop.

`ArtifactEditor` adds ArtifactStore. `shown`, `live`, `pending` and `panel` are
its signals and maps; `lists` and `fetches` are its GETs, each with the
generation that the store compares when it is answered; `wire` carries the four
events. An edit changes the shown revision and `EmitSave` is the timer or the
focus change; `ApplyEdit` is `onArtifactEdit`, whose `artifact:created` comes
back to its author too.

`Disconnect` empties the wire and takes the tab out of its rooms, which only
`LoadSession` joins again; `missed` records the artifacts whose end it never
gets.

### 3.6 Workbench: models and people over one workspace

Six modules, composed by `Workbench`:

* `HostWorkspace`: an operation is a job with the steps of `workspace-fs.ts`
  and `process-runner.ts`: `ReadStat` and `ReadBytes`, `WriteStat`, `WriteOpen`
  (truncation) and `WriteBytes`, one step per searched file, `Spawn`, `Kill` and
  `Close` of a command. Jobs interleave; `Torn` stands for bytes of two writes.
  Refusals are the sandbox, the size limit and the allowlist.
* `ProviderConnection`: the breaker shared by the chats of a provider
  (`RecordFailure`, `RecordSuccess`, the reset in `isOpen`), `fetchWithRetry`
  (`Transient`, `Redial`), the connect timer, the user's stop, and how the two
  command-line providers map the end of a run to an event.
* `ToolCallText`: both copies of `text-tool-call-parser.ts` and of the argument
  parsers, over texts whose pieces are prose, calls, other JSON and broken JSON. A text
  in which something does not parse may still yield the calls of a part of it
  (`Parts`: `embeddedBlocks`).
* `ToolTurn`: `OllamaProvider.streamChat`. A round streams text and structured
  calls (`EmitText`, `EmitCall`), ends (`EndRound`: `finalizeContent`) or breaks
  off; its calls are executed in order (`Execute`, `Decline`, `Answer`,
  `GiveUp`), and `NextRound` or the limit follows. Whether a text is held back is
  decided on its first chunk, which need not contain its first call or all of
  its first fence: `EmitText` leaves it open. Without a bridge no tools are
  offered and no text is ever held back (`mode` is "inert").
* `LocalAgent`: `delegate.mjs` (launch, race with the 15-minute timer, Ctrl-C,
  exit code), its MCP child process, and `runOllamaAgent` (turns, malformed
  replies, tools). `ServerExits` loses the operations of the process.
* `McpTools`: the five workspace tools of the MCP server as an IDE uses them.
* `WorkspaceTabs`: WorkspaceStore with the backend's controller and bridge
  client: a request of the store is a job at the host and an entry of `asks`,
  which may fail while the job goes on.

Operations of chats, pages, tasks and IDEs are the same jobs, so every property
about a caller is checked against the steps of the code it calls.

### 3.7 AdminAccess, MemoryNotes

`AdminAccess`: a request passes the guard (two queries), checks its target (two
more), writes in a transaction whose DELETE removes only rows it could see, and
writes its audit entry; a demotion updates the role first (`UpdateRole`), which
locks the user's row until it commits and is seen by nobody before, and deletes
the grants afterwards; `bootstrap` promotes and grants at start-up. Rows of
`grants` remember which request wrote them; `met` remembers which requests
overlapped. `MemoryNotes`: a job per exchange that looks each fact up, creates
it, counts, finds the oldest and deletes them, one query per step, while the
user erases. `BackOffice` puts the two beside each other; each service is proved
to behave there as it does alone (`OfficeImplementsServices`).

### 3.8 Refinements

* `MessageLifecycle`: a reply starts `streaming`, may be interrupted by a page
  load, is settled at most once by its handler, and `complete` or `stopped` is
  final. `ChatStream!ImplementsLifecycle` maps its rows and finished handlers;
  `ChatView`, built on it, implements it as it stands (`ViewImplementsLifecycle`),
  so the tab is shown only replies that the gateway may produce.
* `TokenFamilies`: a family has at most one valid token, replaced by one never
  used before, and a dead family stays dead. The table maps by its `live` rows.
* `RevisionLog`: a list per file, appended with the next number, and each call
  ends once. The log is the set of committed rows.
* `RefreshTokens` itself is what a browser in `SignIn` drives:
  `BrowserRefinesService`.

## 4. What the runs check

| Run | Instance | Question and result |
|---|---|---|
| `ChatStream` | 2 sends, 1 session, 1 restart, fair | registry and rows stay consistent through stops, loads, deletion, shutdown, crash and restart; refines `MessageLifecycle`; every reply of a surviving handler settles: holds (about 193 000 states) |
| `ChatStream_one_stream` | 2 sends, 1 session | "only one stream may be active per chat session": violated, two sends pass the check before either registers |
| `ChatStream_reconcile` | 2 sends, 1 session | loads coerce only stuck messages: violated, a live reply is coerced |
| `RefreshTokens` | anybody with 3 requests and 3 tokens; 1 page with 5 and 2 pages with 4 acts of the user, 2 refreshes; fair | one valid token per family, no request waits for ever, refines `TokenFamilies`; a browser's own calls never end its session, a sign-out does, every call comes back: holds (about 341 000 states) |
| `RefreshTokens_reuse` | 3 requests, 4 tokens | "the entire token family is revoked": violated, a child committed while the revoking statement runs survives |
| `ArtifactRevisions` | 4 calls, 2 files, 1 message, quotas of 3, fair | numbering, justified refusals, retries only after others' progress, every call ends; refines `RevisionLog`: holds (about 204 000 states) |
| `ArtifactRevisions_quota` | 2 calls, quota of 1 | "at most N revisions": violated, both count before either inserts |
| `ChatView` | 1 reply of 2 tokens, 2 sessions, 2 loads, 1 lost connection, fair | spinner, composer lock, exact text of a followed reply, the spinner ends and so does a followed reply whose handler lives: holds (about 420 000 states) |
| `ChatView_reconnect` | 1 reply, 1 load, 1 lost connection | a reconnecting user still gets the in-flight response: violated, nothing rejoins the room |
| `Workbench` | 1 file, 1 path outside; an Ollama chat, a Codex chat, a task, a page, two pages, an IDE; fair timers | reported writes are true, every write is told once, text is shown or executed, exit codes and saved marks are true, nobody waits for ever: holds (about 387 000 states) |
| `ArtifactEditor` | all replies of 3 words (an opening fence, three backticks, one, CR, LF, text), alone and behind an opening line, cut at every unit; 2 replies with a block watched by a user with 4 and 2 acts and a connection that may break; fair | a saved file is one block, the editor shows one session, streamed files settle: holds (about 908 000 states) |
| `BackOffice` | 2 requests over 3 users; 2 extractions of 2 facts, room for 2 notes | an administrator remains, a demotion strips grants, eviction keeps the newest: holds |

Each violation is a `findings` entry with the sentence of the repository that
says otherwise. Every property of a passing run has a mutant in `PROJECT.json`: a
plausible bug in one definition that makes TLC report that property.

Several properties except behaviour in which the code does break what one would
wish; the exception is a history variable or a state named in the property, so
that TLC shows it is the only one. `OwnCookieIsNoReuse` and `SignOutEndsFamily`
except `disturbed` browsers, `AdminRemains` and `PlainUsersHoldNothing`
requests that overlapped, `SavedIsOneBlock` replies that failed or were cut where
the parser misses a closing line (`torn`), `StreamingFilesSettle` failed replies
and files whose end was lost with the connection (`missed`), `WatchedReplyEnds`
replies whose handler died (`dead`), `ShownOrRun` texts in which something does
not parse (`Spoiled`), `EveryCallAnswered` the refresh that waits for itself (`stuckMe`).
`ToldWritesLanded` has one direction only: a write that was given up may land.

### 4.1 Bounds

Two sends are enough for every race in `ChatStream`: the registry couples sends
only through one session's index and deletions, and each race is between one
handler and one other actor; one restart shows what is found after a crash.
Three refresh requests are a rotation, a competitor and the revocation that one
of them triggers; three tokens are a login and two rotations, or two families.
A page needs five acts for: open, log in, call, sign out, call again; two pages
show every overlap of two refreshes and of a refresh with a sign-out. Four calls
of `createRevision` are the fewest that exhaust three attempts of one of them,
and quotas of three are reached by the other three. In `ChatView` two loads give
the superseded answer, two tokens an order and a repetition, one loss the
renewal. In `ArtifactStream` three words behind an opening line hold every way
a closing line can be cut, begun in vain, left open or reopened, and a limit of
five units of content is exceeded by some of them; a block that opens right
behind another takes four words, which only the proof covers. For `BackOffice` two requests are what overlaps, and with two facts
each the jobs create more notes than there is room for, one after the other or
together. Where section 5 has a theorem it removes the bounds.

In `Workbench` the constant `Crews` says who submits how many operations:
one chat one, a task two, a page three, two pages one each, an IDE two. The crews
are explored one at a time, because actors meet only in the files: what another
actor does to a file between two steps of a job is covered by the nondeterminism
of `BytesRead` and `Overwritten` for two pages, and no property of one kind of
actor mentions another. Tool rounds, pieces per round, agent turns and retries
are small values of constants of the program (`MAX_TOOL_TURNS`,
`MAX_AGENT_TURNS`, `MAX_MALFORMED_RETRIES`), each reached.

The artificial bounds in the models are `MaxRestarts` in `ChatStream`;
`MaxTokens`, `MaxLoads`, `MaxDrops` in `ChatView`; `Scenes` in `SignIn` and
`ArtifactStream`; `Crews`, `Asked`, `MaxPieces`, `MaxReply` in the modules of
`Workbench`; `MaxErasures` in `MemoryNotes`; `desk` in `BackOffice`, which lets
one of two unrelated services work.

Every configuration sets `CHECK_DEADLOCK FALSE`: the sets of sends, requests,
calls and loads are finite, so all the work can be done and the process can
have exited. That nobody waits for ever is what the liveness properties say.

### 4.2 Fairness

* `ChatStream!FairSpec`: weak fairness of each handler's next step. The event
  loop runs every continuation, and the connect and inactivity time-outs of the
  providers end every stream. Nothing obliges users, the operator or the
  network to act, and a crash may happen at any time: the liveness properties
  except handlers that failed, were lost or cut off.
* `SignIn!FairSignInSpec`, `ArtifactRevisions!FairSpec`: weak fairness of a
  started request or call, and of its answer. A step is disabled while it waits
  for a lock, so these properties say that nobody waits for ever; failures are
  never required.
* `ChatView!FairSpec`, `ArtifactEditor!FairEditorSpec`: handlers finish unless
  they fail or their process dies (`Die` and the failures of `Handle` may come
  at any moment and disable what follows), requests are answered (possibly with
  an error), events on a live connection are delivered; that it breaks is always
  possible, and reconnecting is not assumed.
* `Workbench!BenchFairness`: the timers of whoever waits go off (provider,
  fetch, bridge client, delegation script), and a server that got its signal
  exits. The operations of the host are under no fairness at all: a command may
  hang, and `NobodyWaitsForever` holds all the same. The agent loop and the MCP
  handlers have no timers and are under none either; the property does not
  speak of an IDE.

## 5. What is proved

TLAPS checks the following for every value of the constants, under the
assumptions stated beside them in the modules. Most only say that sentinels
differ from real values, that bounds are naturals and that the set of calls is
finite. Those that say more:

* `AdminAssumption`: an administrator exists at first.
* `ArtifactEditorAssumption`: `Files` holds the numbers that the snippets of a
  scene's replies can get (every snippet takes four units of text at least).
* `ArtifactStreamAssumption`: `NoArtifact`, the code's `null`, is no artifact.
* `NotesAssumption`: the answers of the model are lists of facts.
* `WorkbenchAssumption`: a call that can be read, and what an IDE asks for, has
  the path, content and command its tool takes; nobody is two kinds of caller.

**ChatStream_proofs.** `ChatInv`, a conjunction of `TypeOK`,
`LiveStreamIsStoppable`, `RowFollowsHandler` and four properties that only serve
the proof now, is inductive: that a live stream is stoppable needs the agreement
of the two maps (`IndexAgrees`: stopAllForSession walks the index and deletes
controllers), and that no row outlives its session needs to know which handlers
have a row. `ChatInvInit` and `ChatInvStep` give `ChatInvAlways`, and from it
`TypeCorrect`, `RegistryCorrect`, `RowsCorrect` (with `StoppedOnlyIfAborted` and
`NoRowOutlivesSession`). `LifecycleStep` maps every step to a step or stutter of
`MessageLifecycle`; with it `ImplementsLifecycleAlways`.

**RefreshTokens_proofs.** `TokenInv` adds `Presented`: who presents or revokes a
token holds one that was handed out, of the family it says. The argument: a row
that a rotation is about to revoke stays valid and locked until its commit
(`TransactionsIsolated`), so two rotations of one token cannot both reach
`rotated`, hence `RotatedOnce` and `OneValidPerFamily`. Theorems:
`TokenTypeCorrect`, `RotationCorrect`, `IsolationCorrect`,
`ImplementsFamiliesAlways`.

**SignIn_proofs.** `BrowserRefinesService`: every step of `SignIn` is a step of
`RefreshTokens` or leaves its variables alone, so its theorems hold for browsers
(`OneValidInBrowser`). `BrowserInv` is inductive together with `TokenInv`.
`Grounded` says that cookies and answers are tokens that were handed out.
`Undisturbed` says what a browser may count on as long as `disturbed` is FALSE:
at most one page refreshes and nobody signs out meanwhile (`OneRefresh`); the
token its request presented is valid until that request rotates it
(`PresentedStaysValid`); the cookie is valid, or is that token, just rotated,
with the answer on its way (`CookieValid`); a sign-out carries a valid cookie
(`CarriedValid`), and families that were left stay over (`LeftIsOver`). Then no
request of the browser meets a revoked token (`OwnCookieSafe`), and a sign-out
revokes the only valid token of the family (`SignOutFinal`, by
`OneValidPerFamily`).

**ArtifactRevisions_proofs.** `RevisionInv` adds `CallsConsistent`: an
uncommitted row follows the committed row its call read, nobody else has its
key, and after k retries the row read has a revision of at least k. Theorems:
`RevisionTypeCorrect`, `ChainCorrect`, `RetryCorrect`, `QuotaCorrect`,
`ImplementsLogAlways`. `QuotaCorrect` rests on the set of committed rows
growing only, and on the library's facts on cardinalities.

**BackOffice_proofs.** Administration, `AdminInvariant`: requests that run at
once have met (`Acquainted`); if nobody has met anybody, the actor of a request
that passed the guard is still an active administrator and not the target
(`AloneIsAdmin`), so `AdministratorRemains`. A request about to write grants of a
plain user met the request that demoted them (`LateWritersMet`), and a demotion
about to commit removes all rows but those of requests it met
(`DemotionSweeps`), so `DemotionRevokes`.

Memory, `NotesInvariant`: ids are ages, and every id evicted or about to be is
older than every note that stays (`NotesOrdered`); that the rows are few again
in the end needs somebody to be responsible at every moment: while the notes are
over the cap, some job has still to count, has counted no fewer than there are
too many, or is about to delete rows that leave no more than the cap, or it
broke off (`CapAnswered`). Erasures by the user and evictions by other jobs only
delete rows, which keeps each of these true (`StillAnswering`). Hence
`EvictionKeepsNewest`. `OfficeImplementsServices` carries both invariants to the
composition: `OfficeTypeCorrect`, `OfficeSafe`.

**Workbench_proofs.** A rely-guarantee argument. The parties share nothing but
the jobs, and every step of the host and of every party keeps `Grows`: jobs are
only added, nobody changes whose a job is or what it asks for, and a finished
one stays as it is; and `JobsOK`: a write has landed exactly if it was answered.
What a party knows of its own jobs (`ChatsKnow`, `IdesKnow`, `PagesKnow`,
`TasksKnow`, `RoundsKnow`) therefore survives the steps of all others, so
each step of a party has to be examined only for the party itself. `BenchInvariantHolds`
gives `ToldWritesLandedHolds`, `AnsweredWritesLandedHolds`, `SavedReachedDiskHolds`,
`ExitTellsOutcomeHolds`, `ShownOrRunHolds`, `EveryWriteToldHolds` and the action
property `OperationsAreFinal` (every step of the bench keeps `Grows`, so whoever
was told how an operation ended was told for good). For `EveryWriteTold`,
`WritesKnow` adds that a chat awaits an operation only while it runs its tools:
a stop, the limit of rounds or a failing provider is then noticed between two
operations, when the last one has been reported (`LinkIsLeft`), and each
operation is handed to the host once (`CallIsHanded`) and reported once
(`CallIsReported`).

`BenchTypeCorrect` needs more than types. `BenchTyped` adds that a connection
waiting for a further attempt has one left, that the text of a round is within
its bound, that the call whose operation a task awaits is still the first of
those to run and its job exists, and that a read that was opened saw bytes. What
the parsers find in a text (`CallsIn`, a recursive function) are readable calls:
a text without that property would have a shortest beginning without it, which
is refuted.

**ArtifactEditor_proofs.** `OneSessionShown` needs to know what is under way:
the answer of a request names revisions of the session (and file) it was asked
for (`ListOK`, `FetchOK`), a request of the panel's generation is for the
panel's file, and an event of the reply names revisions of the reply's session
(`EventOK`), so a file that is live here is ended by a revision of this session.
Only then are the tests of generation and session in the handlers enough. All of
it survives new revisions (`LogGrows`). That the newest of a set of revisions is
one of them rests on the library's well-founded induction (`MaxIsIn`).

`SavedIsOneBlockHolds` is about the parser, for replies of any length, cut
between any two characters. A place in a text is how many units have been passed
on and where the open block begins. Each segment leads from one place to another
(`Moves`: prose and content move on, a start opens a block behind an opening
line, an end leaves it), and three stretches follow each other at every moment
(`Following`): what has been handled, the segments still to handle, the parser's
buffer; behind it lies what has not arrived. A turn of the parser keeps the
segments it has passed on a path of places (the turns of `Parse` again by the
least turn that would not). What makes the content right is what the hold-back
guarantees about the unit it stops at: no closing line lies in what was passed
on (`Sound`), none begins in it and goes on in the buffer (`Clean`), and one that
begins right behind it has all its backticks in the buffer (`Awaits`).
`HeldBackHolds` shows this of the text that is kept, whatever is cut, except
where `BadCut` holds, and there the code breaks it; from then on the claim is
dropped for this reply (`torn`). So when `HandleEnd` saves, what the current
artifact has collected is exactly the text from the opening line on, without a
closing line in it (`AllOneBlock`),
unless the reply was torn or had failed before. `EditorTypeCorrect` adds what the types of
the store need of the log, the wire, the edits and the answers (`EditorTyped`).

**ChatView_proofs.** `ViewInvariant` adds to the types: a history holds replies
of the session it was asked for (`HistoriesOwn`), the newest request asks for the
session that is open (`NewestIsCurrent`), a reply has a session from its start on,
and an `updated` event carries a settled row (`EventsOwn`). Theorems:
`ViewTypeCorrect`, `SpinnerIsTrue`, `ComposerIsOwn`.

`WatchedExact`: what the tab shows of a watched reply, together with the packets
on their way, is the text produced so far. `WatchInvariant` adds that a watched
reply belongs to the open session, whose room the tab is in and whose history it
does not wait for (`WatchedFollowed`), and that a settled row stays settled. How
a row of packets arrives is a recursive function (`Arriving`); that it is
unfolded at the front when one is received and at the end when one is sent is
proved from the least number of packets that would contradict it
(`TheArrival`, `EndOf`). `ViewImplementsLifecycle` is the refinement of 3.8.

**Only model-checked.** The liveness properties, which need fairness and
ENABLED: `EveryReplySettles`, `EveryRequestEnds`, `EveryCallAnswered`,
`EveryCallEnds`, `WatchedReplyEnds`, `LoadingEnds`, `NobodyWaitsForever`,
`StreamingFilesSettle`; and the violated properties, which are no theorems. For
the same reason the refinements are proved of the specifications without
fairness.

The library's induction theorems take an operator, which the provers cannot
instantiate. Where a proof is about a recursive function it therefore takes the
least number that contradicts the claim and refutes it; the existence of that
number is the library's fact about well-founded relations, which takes none.

## 6. Known disagreements with the documentation

Besides the five findings, the models contain behaviours the text of the
repository does not expect; they are hazards with a note:

* a stop sent before registration is forgotten; shutdown waits for no handler,
  so a row may stay `streaming`; a send admitted before a deletion streams into
  the deleted session;
* the loser of a rotation race revokes the winner's token, so two tabs that
  refresh in one burst may both be logged out, which the comment on
  `REFRESH_THROTTLE` counts on; a refresh whose `GET /users/me` is refused waits
  for itself; a sign-out that overlaps a refresh is undone by its answer;
* an older history snapshot replaces a newer reply, and an older list of
  artifacts a newer revision; a late `updated` event puts a message of another
  session into the open one;
* the parser holds back too little in three places: a closing fence that is cut
  after one or two backticks directly behind the opening line, or between CR and
  LF, is passed on as content, and the file swallows it with all that follows up
  to the next one; an opening fence cut directly behind a closing one is shown
  as prose; a fence inside a line is taken for one at its start when the text is
  cut just before it, against the comment at the head of
  `artifact-stream-parser.ts`. After a failed save two blocks may become one
  file;
* `text-tool-call-parser.ts` calls itself all-or-nothing (line 191, and the test
  of that name), because to recover half a response fires an unintended tool and
  swallows the rest. `embeddedBlocks`, added later, does just that: when the
  whole text does not parse, the calls of one block are run and the rest of it
  is lost. A fenced call whose first chunk is a bare fence is streamed as prose
  and never found;
* a lost connection loses the end of a file in the editor, like the end of a
  reply (the finding on `ReconnectRejoins`), until the session is loaded again; a
  handler that fails outside its try never announces the end of its reply;
* the breaker counts statuses of the command-line providers that its comment
  excludes, and lets everybody through at once after the cooldown;
* a tool call that was given up or stopped may still change files; a save that
  was given up may land after a newer one;
* administrators who demote each other at once leave nobody; a change of
  permissions beside a demotion leaves grants with a plain user.

## 7. Not modelled

Parsing and validation of requests, passwords and the contents of JWTs,
rendering and layout, logging and metrics, the rate limiter, migrations, Docker
and proxy configuration, the design system, forms and tables over single REST
calls, the probes of provider settings: sequential or pure I/O, better served by
the unit tests the repository has.

The IDE is a Python program of its own. Only its MCP server is modelled (the
repository's TypeScript side); its language client, MCP client and review would
be a second development. Their worst spots are listed as hazards.

Two assumptions about PostgreSQL are simplifications: notes and revisions are
ordered by creation as their timestamps would order them, and of two
transactions that delete the same grants either may commit first. Of commands
that `exec` runs, only their processes are modelled, not what they do to files;
commands are known by name, not by argument.
