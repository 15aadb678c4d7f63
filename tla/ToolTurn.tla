------------------------------ MODULE ToolTurn ------------------------------
(***************************************************************************)
(* The Ollama provider's tool loop: stream a round of the model, collect   *)
(* the tool calls in it (structured, or as JSON in the text), run them one *)
(* after the other through the bridge client on the host's workspace, feed *)
(* the results back, at most MaxRounds times.                              *)
(*                                                                         *)
(* What the user has seen of a round's text is a prefix of it.             *)
(***************************************************************************)
EXTENDS ProviderConnection, HostWorkspace, ToolCallText

CONSTANTS MaxRounds,  \* MAX_TOOL_TURNS
          MaxPieces   \* bound: pieces of text and calls in one round

ASSUME ToolTurnAssumption == /\ MaxRounds \in Nat \ {0}
                             /\ MaxPieces \in Nat
                             /\ Chats \subseteq Callers

VARIABLES
  round,      \* tool rounds begun
  text,       \* the round's text so far
  shown,      \* how many pieces of it were passed on as tokens
  mode,       \* contentMode
  calls,      \* pendingCalls
  structured, \* sawStructuredToolCall
  recovered,  \* history: the calls were taken from the text
  next,       \* the pending call that is executed next
  waiting,    \* the job whose answer execute() awaits, 0 for none
  told        \* history: writes the model was told about: job, ok

roundVars == <<text, shown, mode, calls, structured, recovered>>
turnVars  == <<round, text, shown, mode, calls, structured, recovered, next,
               waiting, told>>

(* contentMode; without tools on offer it is streaming from the start and  *)
(* finalizeContent inert.                                                  *)
Modes  == {"undecided", "buffering", "streaming", "inert"}

TurnTypeOK ==
  /\ ConnectionTypeOK /\ HostTypeOK
  /\ round \in [Chats -> 0 .. MaxRounds]
  /\ text \in [Chats -> Seq(Pieces)]
  /\ shown \in [Chats -> 0 .. MaxPieces]
  /\ mode \in [Chats -> Modes]
  /\ calls \in [Chats -> Seq(ToolCalls)]
  /\ structured \in [Chats -> BOOLEAN]
  /\ recovered \in [Chats -> BOOLEAN]
  /\ next \in [Chats -> Nat]
  /\ waiting \in [Chats -> 0 .. Len(jobs)]
  /\ told \in [Chats -> SUBSET [job : DOMAIN jobs, ok : BOOLEAN]]

TurnInit == /\ ConnectionInit
            /\ round = [c \in Chats |-> 0]
            /\ text = [c \in Chats |-> <<>>]
            /\ shown = [c \in Chats |-> 0]
            /\ mode = [c \in Chats |-> "undecided"]
            /\ calls = [c \in Chats |-> <<>>]
            /\ structured = [c \in Chats |-> FALSE]
            /\ recovered = [c \in Chats |-> FALSE]
            /\ next = [c \in Chats |-> 1]
            /\ waiting = [c \in Chats |-> 0]
            /\ told = [c \in Chats |-> {}]

Streaming(c) == link[c] = "connected" /\ ProviderOf[c] = Ollama
Emitted(c)   == Len(text[c]) + (IF structured[c] THEN Len(calls[c]) ELSE 0)

(* A chunk with text.  Until the first piece has decided the mode nothing  *)
(* is shown; text that begins like a call is held back to the end.  That   *)
(* is decided on the first chunk alone: of a fenced call it may be a bare  *)
(* fence, which does not look like one, and prose may begin with a bracket *)
(* (looksLikeToolCallStart).                                               *)
EmitText(c) ==
  /\ Streaming(c) /\ Emitted(c) < MaxPieces
  /\ \E piece \in Pieces, looksLikeCall \in BOOLEAN :
       LET decided == IF mode[c] # "undecided" THEN mode[c]
                      ELSE IF looksLikeCall THEN "buffering"
                      ELSE "streaming"
       IN /\ text' = [text EXCEPT ![c] = Append(@, piece)]
          /\ mode' = [mode EXCEPT ![c] = decided]
          /\ shown' = [shown EXCEPT ![c] = IF decided # "buffering"
                                           THEN Len(text[c]) + 1 ELSE @]
  /\ UNCHANGED <<connectionVars, hostVars, round, calls, structured,
                 recovered, next, waiting, told>>

(* A chunk with a structured tool call.                                    *)
EmitCall(c) ==
  /\ Streaming(c) /\ Emitted(c) < MaxPieces
  /\ \E call \in ToolCalls : calls' = [calls EXCEPT ![c] = Append(@, call)]
  /\ structured' = [structured EXCEPT ![c] = TRUE]
  /\ UNCHANGED <<connectionVars, hostVars, round, text, shown, mode,
                 recovered, next, waiting, told>>

(* Mutation: calls are looked for in every text.                           *)
TakesAnyText(c, parsed) == ~structured[c] /\ parsed # <<>>

(* finalizeContent looks for calls only in text that was held back.        *)
TakesText(c, parsed) == /\ mode[c] = "buffering" /\ ~structured[c]
                        /\ parsed # <<>>

(* The stream ends with a `done` chunk or without one: finalizeContent,    *)
(* then either the answer is complete or its calls are run.                *)
EndRound(c) ==
  /\ Streaming(c)
  /\ \E parsed \in ParseTextToolCalls(text[c]) :
       LET recover == TakesText(c, parsed)
           all     == IF recover THEN parsed ELSE calls[c]
       IN /\ calls' = [calls EXCEPT ![c] = all]
          /\ recovered' = [recovered EXCEPT ![c] = recover]
          /\ shown' = [shown EXCEPT ![c] = IF recover THEN @
                                           ELSE Len(text[c])]
          /\ Goto(c, IF all = <<>> THEN "done" ELSE "tools")
  /\ next' = [next EXCEPT ![c] = 1]
  /\ UNCHANGED <<failures, circuit, attempt, stopped, hostVars,
                 round, text, mode, structured, waiting, told>>

(* The body breaks, the inactivity timer fires, or the user has stopped:   *)
(* calls collected so far are dropped, and so is text held back.           *)
BreakRound(c) ==
  /\ Streaming(c)
  /\ Goto(c, IF stopped[c] THEN "halted" ELSE "errored")
  /\ UNCHANGED <<failures, circuit, attempt, stopped, hostVars,
                 turnVars>>

AtCall(c) == link[c] = "tools" /\ waiting[c] = 0 /\ next[c] <= Len(calls[c])

(* Mutation: the stop is obeyed without awaiting the call under way.       *)
HaltAtOnce(c) ==
  /\ link[c] = "tools" /\ stopped[c]
  /\ Goto(c, "halted")
  /\ UNCHANGED <<failures, circuit, attempt, stopped, hostVars,
                 turnVars>>

(* Looked at before every call.                                            *)
HaltBetweenCalls(c) ==
  /\ AtCall(c) /\ stopped[c]
  /\ Goto(c, "halted")
  /\ UNCHANGED <<failures, circuit, attempt, stopped, hostVars,
                 turnVars>>

MayCall(c) == AtCall(c) /\ ~stopped[c]

(* execute(): a call of a known tool whose arguments can be read goes to   *)
(* the bridge, if there is one: without it no tools are offered either.    *)
Acceptable(call) == call.kind \in Kinds /\ Readable(call)

Execute(c) ==
  LET call == calls[c][next[c]] IN
  /\ MayCall(c) /\ Acceptable(call) /\ mode[c] # "inert"
  /\ Submit(c, call.kind, call.path, call.content, call.command)
  /\ waiting' = [waiting EXCEPT ![c] = Len(jobs) + 1]
  /\ UNCHANGED <<connectionVars, disk, round, roundVars, next, told>>

(* An unknown tool, a missing argument, or no connection to the bridge:    *)
(* the model is told, and nothing was done.                                *)
Decline(c) == /\ MayCall(c)
              /\ next' = [next EXCEPT ![c] = @ + 1]
              /\ UNCHANGED <<connectionVars, hostVars, round, roundVars,
                             waiting, told>>

Report(c, ok) ==
  LET i == waiting[c] IN
  /\ told' = IF jobs[i].kind = "write"
             THEN [told EXCEPT ![c] = @ \cup {[job |-> i, ok |-> ok]}]
             ELSE told
  /\ next' = [next EXCEPT ![c] = @ + 1]
  /\ waiting' = [waiting EXCEPT ![c] = 0]
  /\ UNCHANGED <<connectionVars, hostVars, round, roundVars>>

(* Mutation: the status of the answer is not looked at.                    *)
AnyStatus(i) == jobs[i].state \in Over

Succeeded(i) == jobs[i].state = "answered"

(* The bridge answers: 2xx is reported as done, anything else as failed.   *)
Answer(c) == /\ link[c] = "tools" /\ waiting[c] # 0
             /\ jobs[waiting[c]].state \in Over
             /\ Report(c, Succeeded(waiting[c]))

(* Mutation: the client has no timer of its own.                           *)
GiveUpWhenStopped(c) == /\ link[c] = "tools" /\ waiting[c] # 0 /\ stopped[c]
                        /\ Report(c, FALSE)

(* The client's timer, a lost connection, or the user's stop: the job goes *)
(* on, the model is told that it failed.                                   *)
GiveUp(c) == /\ link[c] = "tools" /\ waiting[c] # 0
             /\ Report(c, FALSE)

(* Mutation: one round too many.                                           *)
OneMoreRound(c) == round[c] <= MaxRounds

RoundsLeft(c) == round[c] < MaxRounds

(* All calls are run: the next round, or the end of the model's patience.  *)
NextRound(c) ==
  /\ link[c] = "tools" /\ waiting[c] = 0 /\ next[c] > Len(calls[c])
  /\ IF RoundsLeft(c)
     THEN /\ round' = [round EXCEPT ![c] = @ + 1]
          /\ Dial(c)
     ELSE Goto(c, "errored") /\ UNCHANGED <<round, attempt>>
  /\ text' = [text EXCEPT ![c] = <<>>]
  /\ shown' = [shown EXCEPT ![c] = 0]
  /\ mode' = [mode EXCEPT ![c] = IF @ = "inert" THEN @ ELSE "undecided"]
  /\ calls' = [calls EXCEPT ![c] = <<>>]
  /\ structured' = [structured EXCEPT ![c] = FALSE]
  /\ recovered' = [recovered EXCEPT ![c] = FALSE]
  /\ next' = [next EXCEPT ![c] = 1]
  /\ UNCHANGED <<failures, circuit, stopped, hostVars, waiting,
                 told>>

(* The first round is begun together with the connection, and with it is   *)
(* settled whether tools are on offer (WorkspaceToolsService.isEnabled).   *)
Connection(c) ==
  /\ ConnectionStep(c)
  /\ round' = [round EXCEPT ![c] = IF link[c] = "idle" THEN 1 ELSE @]
  /\ \/ UNCHANGED mode
     \/ /\ link[c] = "idle" /\ ProviderOf[c] = Ollama
        /\ mode' = [mode EXCEPT ![c] = "inert"]
  /\ UNCHANGED <<hostVars, text, shown, calls, structured, recovered,
                 next, waiting, told>>

TurnStep(c) == \/ EmitText(c) \/ EmitCall(c) \/ EndRound(c) \/ BreakRound(c)
               \/ HaltBetweenCalls(c) \/ Execute(c) \/ Decline(c)
               \/ Answer(c) \/ GiveUp(c) \/ NextRound(c) \/ Connection(c)

(* What happens to chats from outside: the user's stop, the clock.         *)
Outside == /\ (\E c \in Chats : Stop(c)) \/ (\E p \in Providers : Cool(p))
           /\ UNCHANGED <<hostVars, turnVars>>

Awaited(c, i) == waiting[c] = i /\ link[c] = "tools"
Reports(c, i) == {t \in told[c] : t.job = i}

(* The transcript is an audit trail: "the user can see every file the      *)
(* model touched" (ollama.provider.ts, the line streamed after each call). *)
(* Every write a chat ever handed to the host is still awaited or has been *)
(* reported exactly once, as done or as failed, although the user may stop *)
(* the reply, the client's timer fire or the provider fail before the      *)
(* write lands.                                                            *)
EveryWriteTold ==
  \A c \in Chats : \A i \in DOMAIN jobs :
    jobs[i].by = c /\ jobs[i].kind = "write" =>
      IF Awaited(c, i) THEN Reports(c, i) = {}
      ELSE \E ok \in BOOLEAN : Reports(c, i) = {[job |-> i, ok |-> ok]}

(* Text is never both executed and shown (runTurn, finalizeContent).  Once *)
(* a round has ended, either all its text was shown, or nothing of it and  *)
(* its calls are run: every call in it, unless something in the text does  *)
(* not parse.  Then the calls of one block are run and the rest of the     *)
(* text is neither run nor shown; so is prose beside calls.                *)
ShownOrRun ==
  \A c \in Chats :
    /\ recovered[c] => shown[c] = 0
    /\ link[c] \in {"tools", "done"} /\ ProviderOf[c] = Ollama =>
         IF recovered[c] THEN Spoiled(text[c]) \/ calls[c] = CallsIn(text[c])
         ELSE shown[c] = Len(text[c])

(* What the model is told of its writes is true as far as it goes: a write *)
(* reported as done has put its bytes into the file.                       *)
ToldWritesLanded == \A c \in Chats : \A t \in told[c] :
                      t.ok => jobs[t.job].landed
=============================================================================
