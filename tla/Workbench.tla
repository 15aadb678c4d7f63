----------------------------- MODULE Workbench -----------------------------
(***************************************************************************)
(* One workspace and everybody who works on it at once: chats that run the *)
(* Ollama provider's tool loop, tasks of the local agent, IDEs with the    *)
(* MCP server's tools, and the browser editors.  They share the files;     *)
(* chats and pages also the process that executes their operations, and    *)
(* chats the providers' circuit breakers.                                  *)
(***************************************************************************)
EXTENDS ToolTurn, LocalAgent, McpTools, WorkspaceTabs

(* A call that can be read, and what an IDE asks for, has the path,        *)
(* content and command that its tool takes (parseArguments, the schemas of *)
(* tools.ts).                                                              *)
ASSUME WorkbenchAssumption ==
  /\ Callers = Chats \cup Tasks \cup Browsers \cup Ides
  /\ Chats \cap Tasks = {} /\ Chats \cap Browsers = {}
  /\ Tasks \cap Browsers = {}
  /\ Ides \cap (Chats \cup Tasks \cup Browsers) = {}
  /\ \A call \in Asked \cup {tool \in ToolCalls : /\ tool.kind \in Kinds
                                              /\ ReadableByAgent(tool)} :
       /\ call.path \in Paths /\ call.content \in Bytes
       /\ call.command \in Commands \cup {NoCommand}

chatVars  == <<connectionVars, turnVars>>
taskVars  == <<commandVars, agentVars>>
restVars  == <<mcpVars, crew>>
benchVars == <<hostVars, chatVars, taskVars, tabsVars, restVars>>

BenchTypeOK == TurnTypeOK /\ AgentTypeOK /\ TabsTypeOK /\ McpTypeOK

BenchInit == HostInit /\ TurnInit /\ AgentInit /\ TabsInit /\ McpInit

(* Who may submit nothing stays idle altogether.                           *)
AtWork(caller) == crew[caller] > 0

ChatStep(c) == AtWork(c) /\ TurnStep(c)
               /\ UNCHANGED <<taskVars, tabsVars, restVars>>
OutsideStep == Outside /\ UNCHANGED <<taskVars, tabsVars, restVars>>
LaunchStep(t) == AtWork(t) /\ (Launch(t) \/ RefuseLaunch(t))
                 /\ UNCHANGED <<chatVars, tabsVars, restVars>>
LoopStep(t) == AgentStep(t) /\ UNCHANGED <<chatVars, tabsVars, restVars>>
ScriptStep(t) == CommandStep(t) /\ UNCHANGED <<chatVars, tabsVars, restVars>>
InterruptStep(t) == Interrupt(t) /\ UNCHANGED <<chatVars, tabsVars, restVars>>
ExitStep(t) == ServerExits(t) /\ UNCHANGED <<chatVars, tabsVars, restVars>>
PageStep(b) == AtWork(b) /\ UserStep(b)
               /\ UNCHANGED <<chatVars, taskVars, restVars>>
ReplyStep(b) == AnswerStep(b) /\ UNCHANGED <<chatVars, taskVars, restVars>>
ToolStep(e) == AtWork(e) /\ IdeStep(e)
               /\ UNCHANGED <<chatVars, taskVars, tabsVars, crew>>
HostStep == HostNext /\ UNCHANGED <<chatVars, taskVars, tabsVars, restVars>>

BenchNext == \/ \E c \in Chats : ChatStep(c)
             \/ OutsideStep
             \/ \E t \in Tasks : \/ LaunchStep(t) \/ LoopStep(t)
                                 \/ ScriptStep(t) \/ InterruptStep(t)
                                 \/ ExitStep(t)
             \/ \E b \in Browsers : PageStep(b) \/ ReplyStep(b)
             \/ \E e \in Ides : ToolStep(e)
             \/ HostStep

BenchSpec == BenchInit /\ [][BenchNext]_benchVars

(* Timers bound every wait: the Ollama provider's connect and inactivity   *)
(* timers and the bridge client's for a chat (Node's fetch has its own for *)
(* the silence of the host bridge), the script's for a task, the bridge    *)
(* client's for a page; a server that got its signal exits.  Nothing is    *)
(* assumed of the operations themselves: a killed command may keep its     *)
(* pipes open for good.  That a model ends its round is assumed: only its  *)
(* silence is timed.                                                       *)
BenchFairness ==
  /\ \A c \in Chats : WF_benchVars(link[c] # "idle" /\ ChatStep(c))
  /\ \A t \in Tasks : /\ WF_benchVars(ScriptStep(t))
                      /\ WF_benchVars(child[t] = "closing" /\ ExitStep(t))
  /\ \A b \in Browsers : WF_benchVars(ReplyStep(b))

FairBenchSpec == BenchSpec /\ BenchFairness

(* Whatever happens to the operations they wait for, a chat's reply that   *)
(* was begun ends, a task's command ends, and a tab that is being saved    *)
(* becomes savable again or is closed (the timers of ollama.provider.ts,   *)
(* workspace-bridge.client.ts and delegate.mjs).                           *)
NobodyWaitsForever ==
  /\ \A c \in Chats : (link[c] # "idle") ~> (link[c] \in Ended)
  /\ \A t \in Tasks : (command[t] # "idle") ~> (command[t] = "ended")
  /\ \A b \in Browsers, p \in Inside :
       [](IsOpen(b, p) /\ tabs[b][p].saving
            => <>(IsOpen(b, p) => ~tabs[b][p].saving))
=============================================================================
