------------------------------ MODULE McpTools ------------------------------
(***************************************************************************)
(* The MCP server as an IDE uses it: the tools local_workspace_read,       *)
(* _write, _list, _search and _exec, each of which runs one operation on   *)
(* the workspace in the server's own process, any number of them at once.  *)
(* A handler never throws: what goes wrong is a result with isError.       *)
(*                                                                         *)
(* local_code_agent is in LocalAgent.  local_model_status only looks.      *)
(***************************************************************************)
EXTENDS HostWorkspace

CONSTANTS Ides,  \* IDEs, each with a server of its own
          Asked  \* bound: the operations that an IDE asks for

ASSUME McpAssumption == Ides \subseteq Callers

VARIABLES server,  \* each IDE's server: "up", "closing", "gone"
          pending, \* jobs whose handler has not returned
          results  \* history: what the IDE was answered: job, error

mcpVars == <<server, pending, results>>

McpTypeOK == /\ server \in [Ides -> {"up", "closing", "gone"}]
             /\ pending \in [Ides -> SUBSET DOMAIN jobs]
             /\ results \in [Ides -> SUBSET [job : DOMAIN jobs,
                                             error : BOOLEAN]]

McpInit == /\ server = [e \in Ides |-> "up"]
           /\ pending = [e \in Ides |-> {}]
           /\ results = [e \in Ides |-> {}]

(* A tools/call whose arguments pass the handler's checks.  One that does  *)
(* not is answered with an error result and changes nothing.               *)
CallWorkspaceTool(e, kind) ==
  /\ server[e] = "up"
  /\ \E ask \in Asked :
       /\ ask.kind = kind
       /\ Submit(e, kind, ask.path, ask.content, ask.command)
  /\ pending' = [pending EXCEPT ![e] = @ \cup {Len(jobs) + 1}]
  /\ UNCHANGED <<server, results, disk>>

localWorkspaceRead(e)   == CallWorkspaceTool(e, "read")
localWorkspaceWrite(e)  == CallWorkspaceTool(e, "write")
localWorkspaceList(e)   == CallWorkspaceTool(e, "list")
localWorkspaceSearch(e) == CallWorkspaceTool(e, "search")
localWorkspaceExec(e)   == CallWorkspaceTool(e, "exec")

(* Mutation: what the operation throws is reported as text.                *)
NeverAnError(i) == jobs[i].state = "lost"

IsToolError(i) == jobs[i].state # "answered"

(* The handler returns, and the answer goes to the IDE.  A closed          *)
(* transport takes no answer: the IDE hears nothing of that operation.     *)
ReturnResult(e) ==
  /\ server[e] # "gone"
  /\ \E i \in pending[e] :
       /\ jobs[i].state \in Over
       /\ pending' = [pending EXCEPT ![e] = @ \ {i}]
       /\ results' = IF server[e] = "up"
                     THEN [results EXCEPT
                             ![e] = @ \cup {[job |-> i,
                                             error |-> IsToolError(i)]}]
                     ELSE results
  /\ UNCHANGED <<server, hostVars>>

(* SIGINT or SIGTERM: the transport is closed, then the process exits,     *)
(* whatever its handlers are doing.                                        *)
Shutdown(e) == /\ server[e] = "up"
               /\ server' = [server EXCEPT ![e] = "closing"]
               /\ UNCHANGED <<pending, results, hostVars>>

ServerGone(e) == /\ server[e] = "closing"
                 /\ server' = [server EXCEPT ![e] = "gone"]
                 /\ pending' = [pending EXCEPT ![e] = {}]
                 /\ LoseJobs(e)
                 /\ UNCHANGED <<results, disk>>

IdeStep(e) == \/ localWorkspaceRead(e) \/ localWorkspaceWrite(e)
              \/ localWorkspaceList(e) \/ localWorkspaceSearch(e)
              \/ localWorkspaceExec(e)
              \/ ReturnResult(e) \/ Shutdown(e) \/ ServerGone(e)

(* An IDE is told the truth about its writes: one that was answered        *)
(* without isError has put its bytes into the file, and one that was       *)
(* answered with isError has not (tools.ts, the handlers' try and catch).  *)
AnsweredWritesLanded ==
  \A e \in Ides : \A r \in results[e] :
    jobs[r.job].kind = "write" => (jobs[r.job].landed <=> ~r.error)
=============================================================================
