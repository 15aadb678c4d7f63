--------------------------- MODULE HostWorkspace ---------------------------
(***************************************************************************)
(* The workspace directory of the host and the operations on it: the HTTP  *)
(* routes of the host bridge, which the chat's tools and the browser call, *)
(* and the same functions called in process by the MCP server's agent.     *)
(*                                                                         *)
(* An operation is a job.  It runs in Node, so each of its file system     *)
(* calls is a step of its own and other jobs run in between; nobody who    *)
(* gives up waiting for a job stops it.  Modules of the callers extend     *)
(* this one.  File contents are opaque; a write first truncates the file.  *)
(* What is left out: sizes and line numbers in answers, the effect of a    *)
(* command on files, and deletion, which no operation offers.              *)
(***************************************************************************)
EXTENDS Naturals, Sequences, FiniteSets

CONSTANTS Paths,      \* relative paths that callers name
          Escaping,   \* those that resolve outside the workspace root
          Contents,   \* what callers write
          Oversized,  \* contents longer than maxFileBytes
          Absent,     \* no such file
          Empty,      \* a file of no bytes
          Torn,       \* bytes of two contents, or zeros
          Callers,    \* who submits jobs
          Commands,   \* command names that callers ask for
          Allowlist,  \* those in BRIDGE_EXEC_ALLOWLIST
          NoCommand,
          Crews       \* bound: how many jobs each caller may submit, the
                      \* combinations that are looked at

ASSUME HostWorkspaceAssumption ==
  /\ Escaping \subseteq Paths
  /\ Oversized \subseteq Contents
  /\ Allowlist \subseteq Commands
  /\ Torn \notin Contents \cup {Absent, Empty}
  /\ Absent \notin Contents \cup {Empty}
  /\ NoCommand \notin Commands
  /\ Crews \subseteq [Callers -> Nat]

VARIABLES disk,  \* the file at each path inside the root
          jobs,  \* every job ever submitted
          crew   \* bound: the jobs each caller may submit in this behaviour

hostVars == <<disk, jobs>>

Inside == Paths \ Escaping
Files  == Contents \cup {Empty}
Bytes  == Files \cup {Torn}
Kinds  == {"list", "read", "write", "search", "exec"}

(* "received" is parsed and validated; "statted" knows whether the file    *)
(* exists; "open" holds a descriptor; "walking" searches; "running" has a  *)
(* child process and "killed" has outlived its time; the rest are final.   *)
JobState == {"received", "statted", "open", "walking", "running", "killed",
             "answered", "refused", "failed", "lost"}
Over == {"answered", "refused", "failed", "lost"}

Job == [by : Callers, kind : Kinds, path : Paths, content : Bytes,
        command : Commands \cup {NoCommand}, state : JobState,
        seen : Bytes \cup {Absent},        \* what the last call returned
        todo : SUBSET Inside,              \* files a search has still to read
        found : SUBSET Inside,             \* files it reports, or a listing
        landed : BOOLEAN]                  \* history: its bytes were written

HostTypeOK == /\ disk \in [Inside -> Bytes \cup {Absent}]
              /\ jobs \in Seq(Job)
              /\ crew \in Crews

HostInit == /\ disk \in [Inside -> Files \cup {Absent}]
            /\ jobs = <<>>
            /\ crew \in Crews

NewJob(by, kind, path, content, command) ==
  [by |-> by, kind |-> kind, path |-> path, content |-> content,
   command |-> command, state |-> "received", seen |-> Absent,
   todo |-> {}, found |-> {}, landed |-> FALSE]

(* A caller's request reaches the process that executes it.                *)
Submit(by, kind, path, content, command) ==
  /\ Cardinality({i \in DOMAIN jobs : jobs[i].by = by}) < crew[by]
  /\ jobs' = Append(jobs, NewJob(by, kind, path, content, command))

Is(i, kind, state) == jobs[i].kind = kind /\ jobs[i].state = state
Finish(i, state)   == jobs' = [jobs EXCEPT ![i].state = state]

(* Each file is opened and read on its own; nothing is locked.             *)
Present == {p \in Inside : disk[p] # Absent}

Refused(j) == \/ j.path \in Escaping
              \/ j.kind = "write" /\ j.content \in Oversized
              \/ j.kind = "exec" /\ j.command \notin Allowlist

Refuse(i) == /\ jobs[i].state = "received" /\ Refused(jobs[i])
             /\ Finish(i, "refused")
             /\ UNCHANGED disk

(* listDir: readdir, then the size of every entry.                         *)
List(i) == /\ Is(i, "list", "received") /\ ~Refused(jobs[i])
           /\ jobs' = [jobs EXCEPT ![i].state = "answered",
                                   ![i].found = Present]
           /\ UNCHANGED disk

(* readFile takes the length from stat ...                                 *)
ReadStat(i) ==
  /\ Is(i, "read", "received") /\ ~Refused(jobs[i])
  /\ IF disk[jobs[i].path] = Absent
     THEN Finish(i, "failed")
     ELSE jobs' = [jobs EXCEPT ![i].state = "open",
                               ![i].seen = disk[jobs[i].path]]
  /\ UNCHANGED disk

(* ... and reads that many bytes of whatever the file holds by then.       *)
BytesRead(length, file) == IF file = length \/ length = Empty THEN {length}
                           ELSE {Torn} \cup (Contents \cap {file})

ReadBytes(i) ==
  /\ Is(i, "read", "open")
  /\ \E bytes \in BytesRead(jobs[i].seen, disk[jobs[i].path]) :
       jobs' = [jobs EXCEPT ![i].state = "answered", ![i].seen = bytes]
  /\ UNCHANGED disk

(* writeFile: does the file exist, which decides `created`; then mkdir and *)
(* an open that truncates; then the bytes, from the start of the file.  If *)
(* another write put its own there meanwhile, the end of those may remain, *)
(* and all of them if there is nothing to write.                           *)
WriteStat(i) == /\ Is(i, "write", "received") /\ ~Refused(jobs[i])
                /\ jobs' = [jobs EXCEPT ![i].state = "statted",
                                        ![i].seen = disk[jobs[i].path]]
                /\ UNCHANGED disk

WriteOpen(i) == /\ Is(i, "write", "statted")
                /\ disk' = [disk EXCEPT ![jobs[i].path] = Empty]
                /\ Finish(i, "open")

Overwritten(file, content) == IF content = Empty THEN {file}
                              ELSE IF file = Empty THEN {content}
                              ELSE {content, Torn}

WriteBytes(i) ==
  /\ Is(i, "write", "open")
  /\ \E bytes \in Overwritten(disk[jobs[i].path], jobs[i].content) :
       disk' = [disk EXCEPT ![jobs[i].path] = bytes]
  /\ jobs' = [jobs EXCEPT ![i].state = "answered", ![i].landed = TRUE]

(* searchText reads the files one after the other.  Whether one matches is *)
(* open, except that an empty one does not.                                *)
SearchStart(i) == /\ Is(i, "search", "received") /\ ~Refused(jobs[i])
                  /\ jobs' = [jobs EXCEPT ![i].state = "walking",
                                          ![i].todo = Present]
                  /\ UNCHANGED disk

SearchFile(i) ==
  /\ Is(i, "search", "walking")
  /\ \E p \in jobs[i].todo, match \in BOOLEAN :
       /\ match => disk[p] # Empty
       /\ jobs' = [jobs EXCEPT ![i].todo = @ \ {p},
                               ![i].found = IF match THEN @ \cup {p} ELSE @]
  /\ UNCHANGED disk

SearchEnd(i) == /\ Is(i, "search", "walking") /\ jobs[i].todo = {}
                /\ Finish(i, "answered")
                /\ UNCHANGED disk

(* runProcess: spawn, the exit of the child, the timer that kills it.  The *)
(* answer waits for `close` also after the kill.                           *)
Spawn(i) == /\ Is(i, "exec", "received") /\ ~Refused(jobs[i])
            /\ Finish(i, "running")
            /\ UNCHANGED disk

Kill(i) == /\ Is(i, "exec", "running")
           /\ Finish(i, "killed")
           /\ UNCHANGED disk

Close(i) == /\ Is(i, "exec", "running") \/ Is(i, "exec", "killed")
            /\ Finish(i, "answered")
            /\ UNCHANGED disk

(* A file system call throws: a directory in the way, permissions, a full  *)
(* disk.  A file that was truncated stays so.  A child that cannot be      *)
(* spawned is not a failure: runProcess resolves with its error text.      *)
FsError(i) == /\ jobs[i].kind # "exec"
              /\ jobs[i].state \in {"received", "statted", "open", "walking"}
              /\ ~Refused(jobs[i])
              /\ Finish(i, "failed")
              /\ UNCHANGED disk

(* One step of the code that executes a job.                               *)
JobStep(i) == \/ Refuse(i) \/ List(i) \/ ReadStat(i) \/ ReadBytes(i)
              \/ WriteStat(i) \/ WriteOpen(i) \/ WriteBytes(i)
              \/ SearchStart(i) \/ SearchFile(i) \/ SearchEnd(i)
              \/ Spawn(i) \/ Kill(i) \/ Close(i)

HostNext == \E i \in DOMAIN jobs : JobStep(i) \/ FsError(i)

(* The process of a caller dies and its jobs with it.                      *)
LoseJobs(by) ==
  jobs' = [i \in DOMAIN jobs |->
             IF jobs[i].by = by /\ jobs[i].state \notin Over
             THEN [jobs[i] EXCEPT !.state = "lost"] ELSE jobs[i]]
=============================================================================
