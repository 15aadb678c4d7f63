----------------------------- MODULE LocalAgent -----------------------------
(***************************************************************************)
(* A coding task handed to the local model: the command `delegate.mjs`,    *)
(* the MCP server it starts as a child, the server's tool local_code_agent *)
(* and the agent loop runOllamaAgent, whose tools work on the host's       *)
(* workspace in the server's own process.                                  *)
(*                                                                         *)
(* One task is one run of the command.  What is left out: the other MCP    *)
(* tools (McpTools has them), what is printed, and the log file.           *)
(***************************************************************************)
EXTENDS HostWorkspace, ToolCallText

CONSTANTS Tasks,       \* runs of the command
          MaxTurns,    \* MAX_AGENT_TURNS
          MaxRetries,  \* MAX_MALFORMED_RETRIES
          MaxReply     \* bound: pieces of text and calls in one reply

ASSUME LocalAgentAssumption == /\ Tasks \subseteq Callers
                               /\ MaxTurns \in Nat \ {0}
                               /\ MaxRetries \in Nat
                               /\ MaxReply \in Nat

VARIABLES
  command,   \* where the command is
  exitCode,  \* its process.exitCode; 2 stands for unset
  timedOut,  \* its 15 minutes are over
  child,     \* the MCP server: "none", "up", "closing", "gone"
  agent,     \* where the agent loop is
  result,    \* stoppedReason, or "refused" before the loop was entered
  turn,      \* turns begun
  retries,   \* malformedRetries
  todo,      \* calls of the current reply that are still to run
  job        \* the operation the loop awaits, 0 for none

agentVars   == <<agent, result, turn, retries, todo, job>>
commandVars == <<command, exitCode, timedOut, child>>

Command == {"idle", "starting", "calling", "printed", "ended"}
Child   == {"none", "up", "closing", "gone"}
Agent   == {"idle", "choosing", "picking", "chatting", "tools", "answering",
            "dead"}
Result  == {"none", "refused", "done", "max-turns", "error"}

AgentTypeOK == /\ HostTypeOK
               /\ command \in [Tasks -> Command]
               /\ exitCode \in [Tasks -> 0 .. 2]
               /\ timedOut \in [Tasks -> BOOLEAN]
               /\ child \in [Tasks -> Child]
               /\ agent \in [Tasks -> Agent]
               /\ result \in [Tasks -> Result]
               /\ turn \in [Tasks -> 0 .. MaxTurns]
               /\ retries \in [Tasks -> 0 .. MaxRetries]
               /\ todo \in [Tasks -> Seq(ToolCalls)]
               /\ job \in [Tasks -> 0 .. Len(jobs)]

AgentInit == /\ command = [t \in Tasks |-> "idle"]
             /\ exitCode = [t \in Tasks |-> 2]
             /\ timedOut = [t \in Tasks |-> FALSE]
             /\ child = [t \in Tasks |-> "none"]
             /\ agent = [t \in Tasks |-> "idle"]
             /\ result = [t \in Tasks |-> "none"]
             /\ turn = [t \in Tasks |-> 0]
             /\ retries = [t \in Tasks |-> 0]
             /\ todo = [t \in Tasks |-> <<>>]
             /\ job = [t \in Tasks |-> 0]

(* main: no task, no workspace, no server built, or none that can be       *)
(* spawned.                                                                *)
RefuseLaunch(t) == /\ command[t] = "idle"
                   /\ command' = [command EXCEPT ![t] = "ended"]
                   /\ exitCode' = [exitCode EXCEPT ![t] = 1]
                   /\ UNCHANGED <<timedOut, child, agentVars, hostVars>>

(* The server is spawned; `initialize` and then `tools/call`.              *)
Launch(t) == /\ command[t] = "idle"
             /\ command' = [command EXCEPT ![t] = "starting"]
             /\ child' = [child EXCEPT ![t] = "up"]
             /\ UNCHANGED <<exitCode, timedOut, agentVars, hostVars>>

CallTool(t) == /\ command[t] = "starting" /\ child[t] = "up" /\ ~timedOut[t]
               /\ command' = [command EXCEPT ![t] = "calling"]
               /\ agent' = [agent EXCEPT ![t] = "choosing"]
               /\ UNCHANGED <<exitCode, timedOut, child, result, turn,
                              retries, todo, job, hostVars>>

Conclude(t, how) == /\ agent' = [agent EXCEPT ![t] = "answering"]
                    /\ result' = [result EXCEPT ![t] = how]

(* The handler of local_code_agent: no workspace, no task, or a path       *)
(* outside it end the call before the loop.                                *)
RefuseTask(t) == /\ agent[t] = "choosing"
                 /\ Conclude(t, "refused")
                 /\ UNCHANGED <<commandVars, turn, retries, todo, job,
                                hostVars>>

(* resolveAgentModel: the model that was asked for or configured, or the   *)
(* first installed one with tools; Ollama may be down or have none.        *)
PickModel(t) ==
  /\ \/ /\ agent[t] = "choosing"
        /\ agent' = [agent EXCEPT ![t] = "picking"]
        /\ UNCHANGED result
     \/ /\ agent[t] = "picking"
        /\ Conclude(t, "refused")
  /\ UNCHANGED <<commandVars, turn, retries, todo, job, hostVars>>

(* The head of the loop: a further turn, or the end of them.               *)
NextTurn(t) == IF turn[t] < MaxTurns
               THEN /\ turn' = [turn EXCEPT ![t] = @ + 1]
                    /\ agent' = [agent EXCEPT ![t] = "chatting"]
                    /\ UNCHANGED result
               ELSE Conclude(t, "max-turns") /\ UNCHANGED turn

EnterLoop(t) == /\ agent[t] = "picking"
                /\ NextTurn(t)
                /\ UNCHANGED <<commandVars, retries, todo, job, hostVars>>

(* chatOnce throws: HTTP error, no connection, or its own timer.           *)
ChatFails(t) == /\ agent[t] = "chatting"
                /\ Conclude(t, "error")
                /\ UNCHANGED <<commandVars, turn, retries, todo, job,
                               hostVars>>

Replies == UNION {[1 .. n -> Pieces] : n \in 0 .. MaxReply}
StructuredCalls == UNION {[1 .. n -> ToolCalls] : n \in 1 .. MaxReply}

(* The model replies with structured calls, or with text in which calls    *)
(* may be found wherever they stand.                                       *)
RunCalls(t, found) == /\ todo' = [todo EXCEPT ![t] = found]
                      /\ agent' = [agent EXCEPT ![t] = "tools"]
                      /\ UNCHANGED <<turn, result, retries>>

LooksLikeAttempt(reply) == \E n \in DOMAIN reply :
                             reply[n] \in ToolCalls \cup {Malformed}

ReplyWithoutCalls(t, reply) ==
  /\ IF retries[t] < MaxRetries /\ LooksLikeAttempt(reply)
     THEN retries' = [retries EXCEPT ![t] = @ + 1] /\ NextTurn(t)
     ELSE Conclude(t, "done") /\ UNCHANGED <<turn, retries>>
  /\ UNCHANGED todo

ChatOnce(t) ==
  /\ agent[t] = "chatting"
  /\ \/ \E found \in StructuredCalls : RunCalls(t, found)
     \/ \E reply \in Replies : \E found \in ParseTextToolCalls(reply) :
          IF found # <<>> THEN RunCalls(t, found)
                          ELSE ReplyWithoutCalls(t, reply)
  /\ UNCHANGED <<commandVars, job, hostVars>>

(* executeAgentTool: an operation of this very process, awaited however    *)
(* long it takes; an unknown tool or unreadable arguments do nothing.      *)
RunTool(t) ==
  LET call == Head(todo[t]) IN
  /\ agent[t] = "tools" /\ todo[t] # <<>> /\ job[t] = 0
  /\ \/ /\ call.kind \in Kinds /\ ReadableByAgent(call)
        /\ Submit(t, call.kind, call.path, call.content, call.command)
        /\ job' = [job EXCEPT ![t] = Len(jobs) + 1]
        /\ UNCHANGED todo
     \/ /\ ~(call.kind \in Kinds /\ ReadableByAgent(call))
        /\ todo' = [todo EXCEPT ![t] = Tail(@)]
        /\ UNCHANGED <<jobs, job>>
  /\ UNCHANGED <<commandVars, agent, result, turn, retries, disk>>

ToolEnds(t) == /\ agent[t] = "tools" /\ job[t] # 0
               /\ jobs[job[t]].state \in Over
               /\ todo' = [todo EXCEPT ![t] = Tail(@)]
               /\ job' = [job EXCEPT ![t] = 0]
               /\ UNCHANGED <<commandVars, agent, result, turn, retries,
                              hostVars>>

TurnEnds(t) == /\ agent[t] = "tools" /\ todo[t] = <<>>
               /\ NextTurn(t)
               /\ UNCHANGED <<commandVars, retries, todo, job, hostVars>>

(* local_code_agent flags a refusal and the agent's errors; that the turns *)
(* are over is told in a line of the text only, as the errors are too.     *)
IsErrorResult(how) == how \in {"refused", "error"}
StoppedLine(how)   == how \in {"max-turns", "error"}

(* Mutation: only the flag of the result is looked at.                     *)
FlaggedAsError(how) == IsErrorResult(how)

(* isUnsuccessful                                                          *)
Unsuccessful(how) == IsErrorResult(how) \/ StoppedLine(how)

(* The answer arrives.  Nothing asks whether the time is over already.     *)
PrintResult(t) ==
  /\ command[t] = "calling" /\ agent[t] = "answering"
  /\ command' = [command EXCEPT ![t] = "printed"]
  /\ exitCode' = [exitCode EXCEPT
                    ![t] = IF Unsuccessful(result[t]) THEN 1 ELSE 0]
  /\ child' = [child EXCEPT ![t] = IF @ = "up" THEN "closing" ELSE @]
  /\ UNCHANGED <<timedOut, agentVars, hostVars>>

(* The timer wins the race: exit code 1, and the server gets a SIGTERM.    *)
TimeOut(t) == /\ command[t] \in {"starting", "calling"} /\ ~timedOut[t]
              /\ timedOut' = [timedOut EXCEPT ![t] = TRUE]
              /\ exitCode' = [exitCode EXCEPT ![t] = 1]
              /\ child' = [child EXCEPT ![t] = IF @ = "up" THEN "closing"
                                                           ELSE @]
              /\ UNCHANGED <<command, agentVars, hostVars>>

(* The server exits, on its signal or by itself, whatever it was doing.    *)
(* An answer it has written stays readable.                                *)
ServerExits(t) ==
  /\ child[t] \in {"up", "closing"}
  /\ child' = [child EXCEPT ![t] = "gone"]
  /\ agent' = [agent EXCEPT ![t] = IF @ = "answering" THEN @ ELSE "dead"]
  /\ LoseJobs(t)
  /\ UNCHANGED <<command, exitCode, timedOut, result, turn, retries, todo,
                 job, disk>>

(* The exit event rejects the pending request; the command ends when       *)
(* neither child nor answer is left.                                       *)
End(t) ==
  /\ command[t] \in {"starting", "calling", "printed"} /\ child[t] = "gone"
  /\ command' = [command EXCEPT ![t] = "ended"]
  /\ exitCode' = [exitCode EXCEPT
                    ![t] = IF command[t] = "printed" THEN @ ELSE 1]
  /\ UNCHANGED <<timedOut, child, agentVars, hostVars>>

(* Ctrl-C: the child is killed and the command exits at once.              *)
Interrupt(t) == /\ command[t] \in {"starting", "calling"}
                /\ command' = [command EXCEPT ![t] = "ended"]
                /\ exitCode' = [exitCode EXCEPT ![t] = 1]
                /\ child' = [child EXCEPT ![t] = IF @ = "up" THEN "closing"
                                                             ELSE @]
                /\ UNCHANGED <<timedOut, agentVars, hostVars>>

AgentStep(t) == \/ RefuseTask(t) \/ PickModel(t) \/ EnterLoop(t)
                \/ ChatFails(t) \/ ChatOnce(t)
                \/ RunTool(t) \/ ToolEnds(t) \/ TurnEnds(t)
CommandStep(t) == \/ CallTool(t) \/ PrintResult(t) \/ TimeOut(t)
                  \/ End(t)

(* The command's exit code is the agent's outcome, whatever its timer, the *)
(* server's exit and a late answer do: it exits with 0 only when the agent *)
(* ended with a final answer.  That may be one that it accepted from the   *)
(* model after as many malformed calls as it puts up with (delegate.mjs    *)
(* isUnsuccessful, runOllamaAgent).                                        *)
ExitTellsOutcome == \A t \in Tasks : exitCode[t] = 0 => result[t] = "done"
=============================================================================
