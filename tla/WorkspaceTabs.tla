--------------------------- MODULE WorkspaceTabs ---------------------------
(***************************************************************************)
(* The browser's editor over the host's workspace: WorkspaceStore with its *)
(* open tabs and its file tree, WorkspaceApiService, the backend's         *)
(* WorkspaceController and the bridge client behind it.                    *)
(*                                                                         *)
(* A request of the store is an operation of HostWorkspace, remembered     *)
(* with what the store does when it is answered.  A request that fails, by *)
(* an error or by the bridge client's timer, fails for the store only: the *)
(* operation goes on at the host.  What is left out: which tab has the     *)
(* focus, folders below the root, the search panel, and the panel that     *)
(* says that no workspace is configured.                                   *)
(***************************************************************************)
EXTENDS HostWorkspace

CONSTANTS Browsers,  \* pages that hold a WorkspaceStore
          NoTab      \* the file is not open

ASSUME WorkspaceTabsAssumption == Browsers \subseteq Callers

VARIABLES tabs,  \* the open tab of each file
          tree,  \* the root's DirectoryNode
          asks   \* requests in flight

tabsVars == <<tabs, tree, asks>>

(* A truncated file is read-only in its tab.                               *)
Tab   == [content : Bytes, savedContent : Bytes,
          readOnly : BOOLEAN, saving : BOOLEAN]
Ask   == [by : Browsers, purpose : {"open", "save", "create", "load"},
          path : Inside, job : DOMAIN jobs,
          follow : BOOLEAN]  \* the load of createFile: open the file then
Tree  == [state : {"none", "loading", "loaded", "error"},
          entries : SUBSET Inside]

TabsTypeOK == /\ tabs \in [Browsers -> [Inside -> Tab \cup {NoTab}]]
              /\ tree \in [Browsers -> Tree]
              /\ asks \subseteq Ask

TabsInit == /\ tabs = [b \in Browsers |-> [p \in Inside |-> NoTab]]
            /\ tree = [b \in Browsers |-> [state |-> "none", entries |-> {}]]
            /\ asks = {}

IsOpen(b, p)  == tabs[b][p] # NoTab
IsTabDirty(tab) == tab.content # tab.savedContent
Opening(b, p) == \E a \in asks : a.by = b /\ a.purpose = "open" /\ a.path = p

NewAsk(b, purpose, p, follow) ==
  [by |-> b, purpose |-> purpose, path |-> p, job |-> Len(jobs) + 1,
   follow |-> follow]

(* The request of a purpose, with `rest` the other requests in flight.     *)
Request(b, purpose, p, content, follow, rest) ==
  /\ asks' = rest \cup {NewAsk(b, purpose, p, follow)}
  /\ Submit(b, CASE purpose = "open" -> "read"
                 [] purpose = "load" -> "list"
                 [] OTHER            -> "write", p, content, NoCommand)

(* openFile: an open file gets the focus, one that is being opened nothing.*)
OpenFile(b, p) == /\ ~IsOpen(b, p) /\ ~Opening(b, p)
                  /\ Request(b, "open", p, Empty, FALSE, asks)
                  /\ UNCHANGED <<tabs, tree, disk>>

CloseTab(b, p) == /\ IsOpen(b, p)
                  /\ tabs' = [tabs EXCEPT ![b][p] = NoTab]
                  /\ UNCHANGED <<tree, asks, hostVars>>

(* The user types, or a patch of the AI panel is applied.                  *)
Edit(b, p) == /\ IsOpen(b, p) /\ ~tabs[b][p].readOnly
              /\ \E content \in Contents :
                   tabs' = [tabs EXCEPT ![b][p].content = content]
              /\ UNCHANGED <<tree, asks, hostVars>>

Save(b, p) ==
  LET tab == tabs[b][p] IN
  /\ IsOpen(b, p)
  /\ ~tab.readOnly /\ ~tab.saving /\ IsTabDirty(tab)
  /\ tabs' = [tabs EXCEPT ![b][p].saving = TRUE]
  /\ Request(b, "save", p, tab.content, FALSE, asks)
  /\ UNCHANGED <<tree, disk>>

(* createFile writes an empty file without asking whether there is one.    *)
CreateFile(b, p) == /\ Request(b, "create", p, Empty, FALSE, asks)
                    /\ UNCHANGED <<tabs, tree, disk>>

Loading(node) == [node EXCEPT !.state = "loading"]

LoadDirectory(b, p) == /\ Request(b, "load", p, Empty, FALSE, asks)
                       /\ tree' = [tree EXCEPT ![b] = Loading(@)]
                       /\ UNCHANGED <<tabs, disk>>

(* What the store does with an answer.                                     *)
OpenAnswered(a) ==
  LET content == jobs[a.job].seen IN
  /\ tabs' = IF IsOpen(a.by, a.path) THEN tabs
             ELSE [tabs EXCEPT ![a.by][a.path] =
                     [content |-> content, savedContent |-> content,
                      readOnly |-> content \in Oversized, saving |-> FALSE]]
  /\ asks' = asks \ {a}
  /\ UNCHANGED <<tree, jobs>>

(* Mutation: what the buffer holds by now is taken for saved.              *)
SaveAnsweredLate(a) ==
  /\ tabs' = IF ~IsOpen(a.by, a.path) THEN tabs
             ELSE [tabs EXCEPT ![a.by][a.path].savedContent =
                                  tabs[a.by][a.path].content,
                               ![a.by][a.path].saving = FALSE]
  /\ asks' = asks \ {a}
  /\ UNCHANGED <<tree, jobs>>

(* The answer of a save patches the tab that has the path by then.         *)
SaveAnswered(a) ==
  /\ tabs' = IF ~IsOpen(a.by, a.path) THEN tabs
             ELSE [tabs EXCEPT ![a.by][a.path].savedContent =
                                  jobs[a.job].content,
                               ![a.by][a.path].saving = FALSE]
  /\ asks' = asks \ {a}
  /\ UNCHANGED <<tree, jobs>>

CreateAnswered(a) ==
  /\ Request(a.by, "load", a.path, Empty, TRUE, asks \ {a})
  /\ tree' = [tree EXCEPT ![a.by] = Loading(@)]
  /\ UNCHANGED tabs

ThenOpen(a) ==
  IF a.follow /\ ~IsOpen(a.by, a.path) /\ ~Opening(a.by, a.path)
  THEN Request(a.by, "open", a.path, Empty, FALSE, asks \ {a})
  ELSE asks' = asks \ {a} /\ UNCHANGED jobs

LoadAnswered(a) ==
  /\ tree' = [tree EXCEPT ![a.by] = [state |-> "loaded",
                                     entries |-> jobs[a.job].found]]
  /\ ThenOpen(a)
  /\ UNCHANGED tabs

Settle(a) ==
  /\ jobs[a.job].state = "answered"
  /\ \/ a.purpose = "open" /\ OpenAnswered(a)
     \/ a.purpose = "save" /\ SaveAnswered(a)
     \/ a.purpose = "create" /\ CreateAnswered(a)
     \/ a.purpose = "load" /\ LoadAnswered(a)
  /\ UNCHANGED disk

(* The request fails, because the operation did or although it goes on.    *)
Fail(a) ==
  /\ IF a.purpose = "save" /\ IsOpen(a.by, a.path)
     THEN tabs' = [tabs EXCEPT ![a.by][a.path].saving = FALSE]
     ELSE UNCHANGED tabs
  /\ IF a.purpose = "load"
     THEN /\ tree' = [tree EXCEPT ![a.by].state = "error"]
          /\ ThenOpen(a)
     ELSE asks' = asks \ {a} /\ UNCHANGED <<tree, jobs>>
  /\ UNCHANGED disk

(* WorkspaceController.exec and search on behalf of the dock.              *)
RunInDock(b, command) ==
  /\ \E p \in Inside : Submit(b, "exec", p, Empty, command)
  /\ UNCHANGED <<tabsVars, disk>>

UserStep(b) ==
  \/ \E p \in Inside : \/ OpenFile(b, p) \/ CloseTab(b, p) \/ Edit(b, p)
                       \/ Save(b, p) \/ CreateFile(b, p)
                       \/ LoadDirectory(b, p)
  \/ \E command \in Commands : RunInDock(b, command)

AnswerStep(b) == \E a \in asks : a.by = b /\ (Settle(a) \/ Fail(a))

(* What a tab takes for saved is what an operation of its own page read    *)
(* from the file or put into it, whatever the user typed, closed, reopened *)
(* or saved meanwhile: so text the host has never held is never shown as   *)
(* saved (WorkspaceStore.save takes its snapshot before the round trip).   *)
Carried(b, p, content) ==
  \E i \in DOMAIN jobs :
    /\ jobs[i].by = b /\ jobs[i].path = p /\ jobs[i].state = "answered"
    /\ \/ jobs[i].kind = "read" /\ jobs[i].seen = content
       \/ jobs[i].kind = "write" /\ jobs[i].landed
                                 /\ jobs[i].content = content

SavedReachedDisk ==
  \A b \in Browsers, p \in Inside :
    IsOpen(b, p) => Carried(b, p, tabs[b][p].savedContent)
=============================================================================
