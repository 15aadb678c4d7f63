------------------------- MODULE ProviderConnection -------------------------
(***************************************************************************)
(* How a chat reaches its AI provider: the circuit breaker that all chats  *)
(* of a provider share, fetchWithRetry, and the three providers' handling  *)
(* of its outcome.  A chat is one call of streamChat; the Ollama provider  *)
(* connects once per tool round, the two host-bridge providers once.  The  *)
(* module that extends this one says what happens on an open connection.   *)
(***************************************************************************)
EXTENDS Naturals

CONSTANTS Chats,             \* calls of streamChat
          Providers,         \* provider keys
          Ollama,            \* the one that is not a host-bridge command line
          Codex,             \* the key `openai`, a command line like `claude`
          ProviderOf,        \* the provider of each chat
          FailureThreshold,  \* CIRCUIT_BREAKER_FAILURE_THRESHOLD
          MaxAttempts        \* RETRY_MAX_ATTEMPTS

ASSUME ProviderConnectionAssumption ==
  /\ Ollama \in Providers /\ Codex # Ollama
  /\ ProviderOf \in [Chats -> Providers]
  /\ FailureThreshold \in Nat \ {0}
  /\ MaxAttempts \in Nat \ {0}

VARIABLES
  failures,  \* consecutiveFailures of each provider
  circuit,   \* openedAt: null, within its cooldown, or older than that
  link,      \* where its streamChat is
  attempt,   \* the attempt fetchWithRetry is in
  stopped    \* the user's abort signal of the chat

connectionVars == <<failures, circuit, link, attempt, stopped>>

Circuit == {"closed", "open", "cooled"}
Link    == {"idle", "connecting", "backoff", "connected", "tools",
            "done", "halted", "errored"}
Ended   == {"done", "halted", "errored"}

ConnectionTypeOK == /\ failures \in [Providers -> Nat]
                    /\ circuit \in [Providers -> Circuit]
                    /\ link \in [Chats -> Link]
                    /\ attempt \in [Chats -> 0 .. MaxAttempts]
                    /\ stopped \in [Chats -> BOOLEAN]

ConnectionInit == /\ failures = [p \in Providers |-> 0]
                  /\ circuit = [p \in Providers |-> "closed"]
                  /\ link = [c \in Chats |-> "idle"]
                  /\ attempt = [c \in Chats |-> 0]
                  /\ stopped = [c \in Chats |-> FALSE]

(* The state after recordFailure and after recordSuccess.                  *)
RecordFailure(p) ==
  /\ failures' = [failures EXCEPT ![p] = @ + 1]
  /\ circuit' = [circuit EXCEPT
       ![p] = IF @ = "closed" /\ failures[p] + 1 >= FailureThreshold
              THEN "open" ELSE @]

RecordSuccess(p) == /\ failures' = [failures EXCEPT ![p] = 0]
                    /\ circuit' = [circuit EXCEPT ![p] = "closed"]

Unrecorded == UNCHANGED <<failures, circuit>>

Goto(c, where) == link' = [link EXCEPT ![c] = where]

(* The clock passes CIRCUIT_BREAKER_COOLDOWN_MS.                           *)
Cool(p) == /\ circuit[p] = "open"
           /\ circuit' = [circuit EXCEPT ![p] = "cooled"]
           /\ UNCHANGED <<failures, link, attempt, stopped>>

(* streamChat asks isOpen first; a cooled circuit is reset by the asking.  *)
Blocked(c) == /\ link[c] = "idle" /\ circuit[ProviderOf[c]] = "open"
              /\ Goto(c, "errored")
              /\ UNCHANGED <<failures, circuit, attempt, stopped>>

Dial(c) == /\ Goto(c, "connecting")
           /\ attempt' = [attempt EXCEPT ![c] = 1]

Begin(c) ==
  LET p == ProviderOf[c] IN
  /\ link[c] = "idle" /\ circuit[p] # "open"
  /\ IF circuit[p] = "cooled" THEN RecordSuccess(p) ELSE Unrecorded
  /\ Dial(c)
  /\ UNCHANGED <<stopped>>

(* The answer is 2xx.                                                      *)
Connect(c) == /\ link[c] = "connecting"
              /\ RecordSuccess(ProviderOf[c])
              /\ Goto(c, "connected")
              /\ UNCHANGED <<attempt, stopped>>

(* 429, 5xx or a network error with attempts left: wait and try again.     *)
Transient(c) == /\ link[c] = "connecting" /\ attempt[c] < MaxAttempts
                /\ Goto(c, "backoff")
                /\ UNCHANGED <<failures, circuit, attempt, stopped>>

Redial(c) == /\ link[c] = "backoff" /\ ~stopped[c]
             /\ attempt' = [attempt EXCEPT ![c] = @ + 1]
             /\ Goto(c, "connecting")
             /\ UNCHANGED <<failures, circuit, stopped>>

(* A status that ends the attempts.  Ollama's 4xx (429 too) says nothing   *)
(* about Ollama's health; the host bridge's is recorded whatever it is.    *)
Status == {"4xx", "5xx"}
CountsAsFailure(p, status) == p # Ollama \/ status = "5xx"

Reject(c) ==
  /\ link[c] = "connecting"
  /\ \E status \in Status :
       /\ status = "5xx" => attempt[c] = MaxAttempts
       /\ IF CountsAsFailure(ProviderOf[c], status)
          THEN RecordFailure(ProviderOf[c]) ELSE Unrecorded
  /\ Goto(c, "errored")
  /\ UNCHANGED <<attempt, stopped>>

(* A network error on the last attempt, or Ollama's connect timer, which   *)
(* spans all attempts and the waits between them.                          *)
Unreachable(c) ==
  /\ \/ link[c] = "connecting" /\ attempt[c] = MaxAttempts
     \/ link[c] \in {"connecting", "backoff"} /\ ProviderOf[c] = Ollama
  /\ ~stopped[c]
  /\ RecordFailure(ProviderOf[c])
  /\ Goto(c, "errored")
  /\ UNCHANGED <<attempt, stopped>>

(* The abort rejects the fetch or the wait.                                *)
HaltConnecting(c) == /\ link[c] \in {"connecting", "backoff"} /\ stopped[c]
                     /\ Goto(c, "halted")
                     /\ UNCHANGED <<failures, circuit, attempt,
                                    stopped>>

(* What a command-line run leaves behind, and the one final event that the *)
(* host bridge writes for it.                                              *)
CliRun == [timedOut : BOOLEAN, output : {"result", "error", "nothing"}]

ClaudeEvent(run) ==
  IF ~run.timedOut /\ run.output = "result" THEN "done" ELSE "errored"

(* Codex may print both text and an error: the error counts.               *)
CodexEvent(run) ==
  IF run.timedOut \/ run.output \in {"error", "nothing"}
  THEN "errored" ELSE "done"

(* readBridgeEvents passes the event on, or the body breaks on the way.    *)
BridgeBody(c) ==
  /\ link[c] = "connected" /\ ProviderOf[c] # Ollama
  /\ \/ \E run \in CliRun :
          Goto(c, IF ProviderOf[c] = Codex THEN CodexEvent(run)
                                        ELSE ClaudeEvent(run))
     \/ ~stopped[c] /\ Goto(c, "errored")
     \/ stopped[c] /\ Goto(c, "halted")
  /\ UNCHANGED <<failures, circuit, attempt, stopped>>

(* chat:stop reaches the AbortController of the chat.                      *)
Stop(c) == /\ link[c] \notin {"idle"} \cup Ended /\ ~stopped[c]
           /\ stopped' = [stopped EXCEPT ![c] = TRUE]
           /\ UNCHANGED <<failures, circuit, link, attempt>>

ConnectionStep(c) == \/ Blocked(c) \/ Begin(c) \/ Connect(c) \/ Transient(c)
                     \/ Redial(c) \/ Reject(c) \/ Unreachable(c)
                     \/ HaltConnecting(c) \/ BridgeBody(c)
=============================================================================
