---------------------------- MODULE MCWorkbench ----------------------------
(***************************************************************************)
(* Workbench for TLC: an Ollama chat, a Codex chat, a task, two pages and  *)
(* an IDE over one file and a path outside.  Models call for a write, for  *)
(* the same write wrapped in its schema, and for a search without a query; *)
(* commands are run from the page's dock and by the IDE.                   *)
(***************************************************************************)
EXTENDS Workbench, TLC

CONSTANTS c1, c2, t1, b1, b2, e1, file, outside, new, huge, make, ollama, codex

Call(kind, path) == [kind |-> kind, path |-> path, content |-> new,
                     command |-> NoCommand, form |-> "object"]

MCToolCalls == {Call("write", file),
                [Call("write", file) EXCEPT !.form = "envelope"],
                [Call("search", file) EXCEPT !.form = "incomplete"]}
MCCallers   == {c1, c2, t1, b1, b2, e1}
MCProviderOf == [c \in {c1, c2} |-> IF c = c1 THEN ollama ELSE codex]
Crew(budget) == [c \in MCCallers |-> IF c \in DOMAIN budget THEN budget[c] ELSE 0]
MCCrews == {Crew(c1 :> 1), Crew(c2 :> 1), Crew(t1 :> 2), Crew(b1 :> 3),
            Crew(b1 :> 1 @@ b2 :> 1), Crew(e1 :> 2)}

MCAsked == {Call("read", file), Call("write", file), Call("write", outside),
            Call("list", file), Call("search", file),
            [Call("exec", file) EXCEPT !.command = make]}
=============================================================================
