-------------------------- MODULE Workbench_proofs --------------------------
(***************************************************************************)
(* Proofs about the workbench, for any number of chats, tasks, IDEs and    *)
(* pages, any files and any number of jobs.                                *)
(*                                                                         *)
(* The parties share nothing but the jobs, and all that any of them relies *)
(* on is that jobs are only added, that nobody changes whose they are and  *)
(* what they ask for, and that a finished one stays as it is (Grows).      *)
(* Every step guarantees that; what one party knows of its own jobs then   *)
(* survives the steps of all the others.                                   *)
(*                                                                         *)
(* The last chapters give everybody's types: of what the parsers find in a *)
(* text, of the host's files and jobs, of chats, tasks, IDEs and pages.    *)
(***************************************************************************)
EXTENDS Workbench, SequenceTheorems, WellFoundedInduction, TLAPS

(* A job is a record of these fields, whatever a model has put into them.  *)
Fields == {"by", "kind", "path", "content", "command", "state", "seen",
           "todo", "found", "landed"}

IsJob(j) == j = [f \in Fields |-> j[f]]

Landed(j) == j.kind = "write" => (j.landed <=> j.state = "answered")

JobsOK == /\ jobs \in Seq({jobs[i] : i \in DOMAIN jobs})
          /\ \A i \in DOMAIN jobs : IsJob(jobs[i]) /\ Landed(jobs[i])

Kept(j, k) == /\ k.by = j.by /\ k.kind = j.kind /\ k.path = j.path
              /\ k.content = j.content
              /\ j.state \in Over => k = j

Grows == \A i \in DOMAIN jobs : i \in DOMAIN jobs' /\ Kept(jobs[i], jobs'[i])

(* What the parties know of the jobs they wait for and were told about.    *)
ChatsKnow ==
  /\ waiting \in [Chats -> Nat]
  /\ \A c \in Chats : waiting[c] # 0 => waiting[c] \in DOMAIN jobs
  /\ told \in [Chats -> SUBSET [job : DOMAIN jobs, ok : BOOLEAN]]
  /\ \A c \in Chats : \A t \in told[c] :
       t.ok => jobs[t.job].kind = "write" /\ jobs[t.job].state = "answered"

IdesKnow ==
  /\ pending \in [Ides -> SUBSET DOMAIN jobs]
  /\ results \in [Ides -> SUBSET [job : DOMAIN jobs, error : BOOLEAN]]
  /\ \A e \in Ides : \A r \in results[e] :
       /\ jobs[r.job].state \in Over
       /\ r.error <=> jobs[r.job].state # "answered"

(* A request of a page and the job that carries it out.                    *)
IsAsk(a) == /\ a.by \in Browsers /\ a.path \in Inside
            /\ a.job \in DOMAIN jobs
            /\ jobs[a.job].by = a.by /\ jobs[a.job].path = a.path
            /\ a.purpose = "open" => jobs[a.job].kind = "read"
            /\ a.purpose = "save" => jobs[a.job].kind = "write"

TabFields == {"content", "savedContent", "readOnly", "saving"}

IsTab(tab) == tab = [f \in TabFields |-> tab[f]]

TabsKnow ==
  /\ tabs = [b \in Browsers |-> tabs[b]]
  /\ \A b \in Browsers : tabs[b] = [p \in Inside |-> tabs[b][p]]
  /\ \A b \in Browsers, p \in Inside : IsOpen(b, p) => IsTab(tabs[b][p])
  /\ SavedReachedDisk

PagesKnow == TabsKnow /\ \A a \in asks : IsAsk(a)

(* A command that has exited with 0 has printed an answer that the agent   *)
(* gave when it was done.                                                  *)
TasksKnow ==
  /\ command \in [Tasks -> Command] /\ exitCode \in [Tasks -> 0 .. 2]
  /\ agent \in [Tasks -> Agent] /\ result \in [Tasks -> Result]
  /\ \A t \in Tasks :
       /\ agent[t] = "answering" => result[t] # "none"
       /\ exitCode[t] = 0 => /\ command[t] \in {"printed", "ended"}
                             /\ agent[t] = "answering"
                             /\ result[t] = "done"

(* As long as a round has not ended nothing of it was taken for calls, and *)
(* text is only shown once the mode says so.                               *)
Unended == {"idle", "connecting", "backoff", "connected"}

Withholds(c) == mode[c] \in {"undecided", "buffering"}

RoundsKnow ==
  /\ link = [c \in Chats |-> link[c]] /\ mode = [c \in Chats |-> mode[c]]
  /\ text = [c \in Chats |-> text[c]] /\ shown = [c \in Chats |-> shown[c]]
  /\ calls = [c \in Chats |-> calls[c]]
  /\ recovered \in [Chats -> BOOLEAN]
  /\ \A c \in Chats :
       link[c] \in Unended => ~recovered[c] /\ (Withholds(c) => shown[c] = 0)
  /\ ShownOrRun

(* A chat awaits an operation only while it runs its tools, and what it    *)
(* neither awaits nor was told of is no write.                             *)
WritesKnow == /\ \A c \in Chats : waiting[c] # 0 => link[c] = "tools"
              /\ EveryWriteTold

BenchInvariant == /\ RoundsKnow /\ JobsOK /\ ChatsKnow /\ WritesKnow
                  /\ IdesKnow /\ PagesKnow /\ TasksKnow
-----------------------------------------------------------------------------
(* A sequence is one of whatever its elements are.                         *)
LEMMA ElementsOf ==
  ASSUME NEW S, NEW s \in Seq(S), NEW R, \A n \in DOMAIN s : s[n] \in R
  PROVE  s \in Seq(R)
<1>1. Len(s) \in Nat /\ DOMAIN s = 1 .. Len(s) /\ s \in [1 .. Len(s) -> S]
  OBVIOUS
<1>2. s \in [1 .. Len(s) -> R]
  BY <1>1
<1> QED BY <1>1, <1>2

(* One job goes on.                                                        *)
LEMMA JobGoesOn ==
  ASSUME JobsOK, NEW i \in DOMAIN jobs, NEW k,
         jobs' = [jobs EXCEPT ![i] = k],
         IsJob(k), Landed(k), Kept(jobs[i], k)
  PROVE  JobsOK' /\ Grows
<1> DEFINE S == {jobs[n] : n \in DOMAIN jobs} \cup {k}
<1>1. jobs \in Seq(S) /\ k \in S
  BY DEF JobsOK
<1> HIDE DEF S
<1>2. /\ Len(jobs') = Len(jobs) /\ DOMAIN jobs' = DOMAIN jobs
      /\ \A n \in DOMAIN jobs : jobs'[n] = IF n = i THEN k ELSE jobs[n]
      /\ jobs' \in Seq(S)
  BY <1>1, ExceptSeq
<1>3. jobs' \in Seq({jobs'[n] : n \in DOMAIN jobs'})
  <2> DEFINE R == {jobs'[n] : n \in DOMAIN jobs'}
  <2>1. \A n \in DOMAIN jobs' : jobs'[n] \in R
    OBVIOUS
  <2> HIDE DEF R
  <2>2. jobs' \in Seq(R)
    BY <1>2, <2>1, ElementsOf
  <2> QED BY <2>2 DEF R
<1>4. \A n \in DOMAIN jobs' : IsJob(jobs'[n]) /\ Landed(jobs'[n])
  BY <1>2 DEF JobsOK
<1>5. Grows
  BY <1>2 DEF Grows, Kept
<1> QED BY <1>3, <1>4, <1>5 DEF JobsOK

(* A job is submitted.                                                     *)
LEMMA JobIsAdded ==
  ASSUME JobsOK, NEW by, NEW kind, NEW path, NEW content, NEW cmd,
         Submit(by, kind, path, content, cmd)
  PROVE  /\ JobsOK' /\ Grows
         /\ Len(jobs) + 1 \in DOMAIN jobs' /\ Len(jobs) + 1 \in Nat
         /\ jobs'[Len(jobs) + 1] = NewJob(by, kind, path, content, cmd)
         /\ DOMAIN jobs' = DOMAIN jobs \cup {Len(jobs) + 1}
<1> DEFINE new == NewJob(by, kind, path, content, cmd)
           S   == {jobs[n] : n \in DOMAIN jobs} \cup {new}
<1>1. jobs \in Seq(S) /\ new \in S
  BY DEF JobsOK
<1>2. jobs' = Append(jobs, new)
  BY DEF Submit
<1> HIDE DEF S
<1>3. /\ jobs' \in Seq(S) /\ Len(jobs) \in Nat
      /\ DOMAIN jobs' = 1 .. Len(jobs) + 1 /\ DOMAIN jobs = 1 .. Len(jobs)
      /\ \A n \in DOMAIN jobs : jobs'[n] = jobs[n]
      /\ jobs'[Len(jobs) + 1] = new
  BY <1>1, <1>2, AppendProperties
<1>4. jobs' \in Seq({jobs'[n] : n \in DOMAIN jobs'})
  <2> DEFINE R == {jobs'[n] : n \in DOMAIN jobs'}
  <2>1. \A n \in DOMAIN jobs' : jobs'[n] \in R
    OBVIOUS
  <2> HIDE DEF R
  <2>2. jobs' \in Seq(R)
    BY <1>3, <2>1, ElementsOf
  <2> QED BY <2>2 DEF R
<1>5. IsJob(new) /\ Landed(new)
  BY DEF IsJob, Fields, Landed, NewJob
<1>6. \A n \in DOMAIN jobs' : IsJob(jobs'[n]) /\ Landed(jobs'[n])
  BY <1>3, <1>5 DEF JobsOK
<1>7. Grows
  BY <1>3 DEF Grows, Kept
<1> QED BY <1>3, <1>4, <1>6, <1>7 DEF JobsOK

(* A process dies.                                                         *)
LEMMA JobsAreLost ==
  ASSUME JobsOK, NEW by, LoseJobs(by)
  PROVE  JobsOK' /\ Grows /\ DOMAIN jobs' = DOMAIN jobs
<1>1. /\ DOMAIN jobs' = DOMAIN jobs
      /\ \A n \in DOMAIN jobs :
           jobs'[n] = IF jobs[n].by = by /\ jobs[n].state \notin Over
                      THEN [jobs[n] EXCEPT !.state = "lost"] ELSE jobs[n]
      /\ jobs' = [n \in DOMAIN jobs |-> jobs'[n]]
  BY DEF LoseJobs
<1>2. Len(jobs) \in Nat /\ DOMAIN jobs = 1 .. Len(jobs)
  BY DEF JobsOK
<1>3. jobs' \in Seq({jobs'[n] : n \in DOMAIN jobs'})
  BY <1>1, <1>2
<1>4. \A n \in DOMAIN jobs : /\ IsJob(jobs'[n]) /\ Landed(jobs'[n])
                             /\ Kept(jobs[n], jobs'[n])
  <2> TAKE n \in DOMAIN jobs
  <2>1. IsJob(jobs[n]) /\ Landed(jobs[n])
    BY DEF JobsOK
  <2>2. CASE jobs[n].by = by /\ jobs[n].state \notin Over
    BY <1>1, <2>1, <2>2 DEF IsJob, Fields, Landed, Kept, Over
  <2>3. CASE ~(jobs[n].by = by /\ jobs[n].state \notin Over)
    BY <1>1, <2>1, <2>3 DEF Kept
  <2> QED BY <2>2, <2>3
<1> QED BY <1>1, <1>3, <1>4 DEF JobsOK, Grows

(* Every step of an operation is one of a job that is not over.            *)
LEMMA JobStepGrows ==
  ASSUME JobsOK, NEW i \in DOMAIN jobs, JobStep(i) \/ FsError(i)
  PROVE  JobsOK' /\ Grows
<1> DEFINE j == jobs[i]
<1>0. IsJob(j) /\ Landed(j)
  BY DEF JobsOK
<1>1. ASSUME NEW state, Finish(i, state), j.state \notin Over,
             j.kind = "write" => ~j.landed /\ state # "answered"
      PROVE  JobsOK' /\ Grows
  <2> DEFINE k == [j EXCEPT !.state = state]
  <2>1. jobs' = [jobs EXCEPT ![i] = k]
    BY <1>1 DEF Finish
  <2>2. IsJob(k) /\ Landed(k) /\ Kept(j, k)
    BY <1>0, <1>1 DEF IsJob, Fields, Landed, Kept
  <2> QED BY <2>1, <2>2, JobGoesOn
<1>2. ASSUME NEW k, jobs' = [jobs EXCEPT ![i] = k], IsJob(k), Landed(k),
             Kept(j, k)
      PROVE  JobsOK' /\ Grows
  BY <1>2, JobGoesOn
<1> USE DEF Is, Over
<1>3. CASE Refuse(i) \/ SearchEnd(i) \/ Spawn(i) \/ Kill(i) \/ Close(i)
  <2>1. PICK state : Finish(i, state) /\ (j.kind = "write" => state # "answered")
    BY <1>3 DEF Refuse, SearchEnd, Spawn, Kill, Close
  <2>2. j.state \notin Over
    BY <1>3 DEF Refuse, SearchEnd, Spawn, Kill, Close
  <2> QED BY <1>0, <1>1, <2>1, <2>2 DEF Landed
<1>4. CASE List(i)
  <2> DEFINE k == [j EXCEPT !.state = "answered", !.found = Present]
  <2>1. jobs' = [jobs EXCEPT ![i] = k]
    BY <1>4 DEF List
  <2>2. IsJob(k) /\ Landed(k) /\ Kept(j, k)
    BY <1>0, <1>4 DEF List, IsJob, Fields, Landed, Kept
  <2> QED BY <1>2, <2>1, <2>2
<1>5. CASE ReadStat(i)
  <2>1. CASE Finish(i, "failed")
    BY <1>0, <1>1, <1>5, <2>1 DEF ReadStat, Landed
  <2>2. CASE ~Finish(i, "failed")
    <3> DEFINE k == [j EXCEPT !.state = "open", !.seen = disk[j.path]]
    <3>1. jobs' = [jobs EXCEPT ![i] = k]
      BY <1>5, <2>2 DEF ReadStat
    <3>2. IsJob(k) /\ Landed(k) /\ Kept(j, k)
      BY <1>0, <1>5 DEF ReadStat, IsJob, Fields, Landed, Kept
    <3> QED BY <1>2, <3>1, <3>2
  <2> QED BY <2>1, <2>2
<1>6. CASE ReadBytes(i)
  <2>1. PICK bytes : jobs' = [jobs EXCEPT ![i].state = "answered",
                                          ![i].seen = bytes]
    BY <1>6 DEF ReadBytes
  <2> DEFINE k == [j EXCEPT !.state = "answered", !.seen = bytes]
  <2>2. jobs' = [jobs EXCEPT ![i] = k]
    BY <2>1
  <2>3. IsJob(k) /\ Landed(k) /\ Kept(j, k)
    BY <1>0, <1>6 DEF ReadBytes, IsJob, Fields, Landed, Kept
  <2> QED BY <1>2, <2>2, <2>3
<1>7. CASE WriteStat(i)
  <2> DEFINE k == [j EXCEPT !.state = "statted", !.seen = disk[j.path]]
  <2>1. jobs' = [jobs EXCEPT ![i] = k]
    BY <1>7 DEF WriteStat
  <2>2. IsJob(k) /\ Landed(k) /\ Kept(j, k)
    BY <1>0, <1>7 DEF WriteStat, IsJob, Fields, Landed, Kept
  <2> QED BY <1>2, <2>1, <2>2
<1>8. CASE WriteOpen(i)
  BY <1>0, <1>1, <1>8 DEF WriteOpen, Landed
<1>9. CASE WriteBytes(i)
  <2> DEFINE k == [j EXCEPT !.state = "answered", !.landed = TRUE]
  <2>1. jobs' = [jobs EXCEPT ![i] = k]
    BY <1>9 DEF WriteBytes
  <2>2. IsJob(k) /\ Landed(k) /\ Kept(j, k)
    BY <1>0, <1>9 DEF WriteBytes, IsJob, Fields, Landed, Kept
  <2> QED BY <1>2, <2>1, <2>2
<1>10. CASE SearchStart(i)
  <2> DEFINE k == [j EXCEPT !.state = "walking", !.todo = Present]
  <2>1. jobs' = [jobs EXCEPT ![i] = k]
    BY <1>10 DEF SearchStart
  <2>2. IsJob(k) /\ Landed(k) /\ Kept(j, k)
    BY <1>0, <1>10 DEF SearchStart, IsJob, Fields, Landed, Kept
  <2> QED BY <1>2, <2>1, <2>2
<1>11. CASE SearchFile(i)
  <2>1. PICK p \in jobs[i].todo, match \in BOOLEAN :
          jobs' = [jobs EXCEPT ![i].todo = @ \ {p},
                               ![i].found = IF match THEN @ \cup {p} ELSE @]
    BY <1>11 DEF SearchFile
  <2> DEFINE k == [j EXCEPT !.todo = @ \ {p},
                            !.found = IF match THEN @ \cup {p} ELSE @]
  <2>2. jobs' = [jobs EXCEPT ![i] = k]
    BY <2>1
  <2>3. IsJob(k) /\ Landed(k) /\ Kept(j, k)
    BY <1>0, <1>11 DEF SearchFile, IsJob, Fields, Landed, Kept
  <2> QED BY <1>2, <2>2, <2>3
<1>12. CASE FsError(i)
  BY <1>0, <1>1, <1>12 DEF FsError, Landed
<1> QED
  BY <1>3, <1>4, <1>5, <1>6, <1>7, <1>8, <1>9, <1>10, <1>11, <1>12 DEF JobStep

LEMMA JobsStayInPlace ==
  ASSUME JobsOK, NEW i \in DOMAIN jobs, JobStep(i) \/ FsError(i)
  PROVE  DOMAIN jobs' = DOMAIN jobs
<1>1. CASE Refuse(i) \/ SearchEnd(i) \/ Spawn(i) \/ Kill(i) \/ Close(i) \/ FsError(i)
  BY <1>1 DEF Refuse, SearchEnd, Spawn, Kill, Close, FsError, Finish
<1>2. CASE List(i) \/ ReadStat(i) \/ ReadBytes(i) \/ SearchStart(i) \/ SearchFile(i)
  BY <1>2 DEF List, ReadStat, ReadBytes, SearchStart, SearchFile, Finish
<1>3. CASE WriteStat(i) \/ WriteOpen(i) \/ WriteBytes(i)
  BY <1>3 DEF WriteStat, WriteOpen, WriteBytes, Finish
<1> QED BY <1>1, <1>2, <1>3 DEF JobStep
-----------------------------------------------------------------------------
(* What a party knows survives every step that leaves the party alone and  *)
(* keeps to Grows.                                                         *)
LEMMA ChatsRely ==
  ASSUME JobsOK, Grows, ChatsKnow, UNCHANGED <<waiting, told>>
  PROVE  ChatsKnow'
<1>1. \A i \in DOMAIN jobs : i \in DOMAIN jobs' /\ Kept(jobs[i], jobs'[i])
  BY DEF Grows
<1>2. told' \in [Chats -> SUBSET [job : DOMAIN jobs', ok : BOOLEAN]]
  BY <1>1 DEF ChatsKnow
<1>3. \A c \in Chats : \A t \in told'[c] :
        t.ok => jobs'[t.job].kind = "write" /\ jobs'[t.job].state = "answered"
  BY <1>1 DEF ChatsKnow, Kept, Over
<1> QED BY <1>1, <1>2, <1>3 DEF ChatsKnow

LEMMA IdesRely ==
  ASSUME JobsOK, Grows, IdesKnow, UNCHANGED <<pending, results>>
  PROVE  IdesKnow'
<1>1. \A i \in DOMAIN jobs : i \in DOMAIN jobs' /\ Kept(jobs[i], jobs'[i])
  BY DEF Grows
<1>2. /\ pending' \in [Ides -> SUBSET DOMAIN jobs']
      /\ results' \in [Ides -> SUBSET [job : DOMAIN jobs', error : BOOLEAN]]
  BY <1>1 DEF IdesKnow
<1>3. \A e \in Ides : \A r \in results'[e] :
        /\ jobs'[r.job].state \in Over
        /\ r.error <=> jobs'[r.job].state # "answered"
  BY <1>1 DEF IdesKnow, Kept
<1> QED BY <1>2, <1>3 DEF IdesKnow

LEMMA AsksRely ==
  ASSUME Grows, \A a \in asks : IsAsk(a)
  PROVE  \A a \in asks : IsAsk(a)'
BY DEF Grows, Kept, IsAsk

LEMMA CarriedRely ==
  ASSUME Grows, NEW b, NEW p, NEW content, Carried(b, p, content)
  PROVE  Carried(b, p, content)'
BY DEF Grows, Kept, Carried, Over

LEMMA TabsRely ==
  ASSUME Grows, TabsKnow, tabs' = tabs
  PROVE  TabsKnow'
<1>1. \A b \in Browsers, p \in Inside :
        IsOpen(b, p) => Carried(b, p, tabs[b][p].savedContent)'
  BY CarriedRely DEF TabsKnow, SavedReachedDisk
<1>2. SavedReachedDisk'
  BY <1>1 DEF SavedReachedDisk, IsOpen, Carried
<1> QED BY <1>2 DEF TabsKnow, IsOpen, IsTab

LEMMA PagesRely ==
  ASSUME Grows, PagesKnow, UNCHANGED <<tabs, asks>>
  PROVE  PagesKnow'
<1>1. \A a \in asks : IsAsk(a)'
  BY AsksRely DEF PagesKnow
<1>2. TabsKnow'
  BY TabsRely DEF PagesKnow
<1> QED BY <1>1, <1>2 DEF PagesKnow, IsAsk

LEMMA TasksRely ==
  ASSUME TasksKnow, UNCHANGED <<command, exitCode, agent, result>>
  PROVE  TasksKnow'
BY DEF TasksKnow
-----------------------------------------------------------------------------
(* The jobs when a step leaves them alone.                                 *)
LEMMA JobsStay ==
  ASSUME JobsOK, jobs' = jobs
  PROVE  JobsOK' /\ Grows
BY DEF JobsOK, Grows, Kept

(* A step of a chat.                                                       *)
LEMMA TurnStepKnows ==
  ASSUME NEW c \in Chats, JobsOK, ChatsKnow, TurnStep(c)
  PROVE  JobsOK' /\ Grows /\ ChatsKnow'
<1>1. CASE Execute(c)
  <2> DEFINE call == calls[c][next[c]]
  <2>1. Submit(c, call.kind, call.path, call.content, call.command)
    BY <1>1 DEF Execute
  <2>2. JobsOK' /\ Grows /\ Len(jobs) + 1 \in DOMAIN jobs' /\ Len(jobs) + 1 \in Nat
    BY <2>1, JobIsAdded
  <2>3. waiting' = [waiting EXCEPT ![c] = Len(jobs) + 1] /\ told' = told
    BY <1>1 DEF Execute
  <2>4. \A i \in DOMAIN jobs : i \in DOMAIN jobs' /\ Kept(jobs[i], jobs'[i])
    BY <2>2 DEF Grows
  <2>5. told' \in [Chats -> SUBSET [job : DOMAIN jobs', ok : BOOLEAN]]
    BY <2>3, <2>4 DEF ChatsKnow
  <2>6. \A d \in Chats : \A t \in told'[d] :
          t.ok => jobs'[t.job].kind = "write" /\ jobs'[t.job].state = "answered"
    BY <2>3, <2>4 DEF ChatsKnow, Kept, Over
  <2>7. /\ waiting' \in [Chats -> Nat]
        /\ \A d \in Chats : waiting'[d] # 0 => waiting'[d] \in DOMAIN jobs'
    BY <2>2, <2>3, <2>4 DEF ChatsKnow
  <2> QED BY <2>2, <2>5, <2>6, <2>7 DEF ChatsKnow
<1>2. CASE Answer(c) \/ GiveUp(c)
  <2>1. PICK ok \in BOOLEAN :
          /\ waiting[c] # 0 /\ Report(c, ok)
          /\ ok => jobs[waiting[c]].state = "answered"
    BY <1>2 DEF Answer, GiveUp, Succeeded
  <2>2. jobs' = jobs /\ waiting' = [waiting EXCEPT ![c] = 0]
    BY <2>1 DEF Report, hostVars
  <2>3. waiting[c] \in DOMAIN jobs
    BY <2>1 DEF ChatsKnow
  <2>4. CASE jobs[waiting[c]].kind = "write"
    <3> DEFINE new == [job |-> waiting[c], ok |-> ok]
    <3>1. told' = [told EXCEPT ![c] = @ \cup {new}]
      BY <2>1, <2>4 DEF Report
    <3>2. new \in [job : DOMAIN jobs, ok : BOOLEAN]
      BY <2>3
    <3>3. told' \in [Chats -> SUBSET [job : DOMAIN jobs, ok : BOOLEAN]]
      BY <3>1, <3>2 DEF ChatsKnow
    <3>4. \A d \in Chats : \A t \in told'[d] :
            t.ok => jobs[t.job].kind = "write" /\ jobs[t.job].state = "answered"
      BY <2>1, <2>4, <3>1 DEF ChatsKnow
    <3> QED BY <2>2, <3>3, <3>4, JobsStay DEF ChatsKnow
  <2>5. CASE jobs[waiting[c]].kind # "write"
    <3>1. told' = told
      BY <2>1, <2>5 DEF Report
    <3> QED BY <2>2, <3>1, JobsStay DEF ChatsKnow
  <2> QED BY <2>4, <2>5
<1>3. CASE ~(Execute(c) \/ Answer(c) \/ GiveUp(c))
  <2>1. UNCHANGED <<jobs, waiting, told>>
    <3>1. CASE \/ EmitText(c) \/ EmitCall(c) \/ EndRound(c) \/ BreakRound(c)
               \/ HaltBetweenCalls(c) \/ Decline(c)
      BY <3>1 DEF EmitText, EmitCall, EndRound, BreakRound, HaltBetweenCalls,
                  Decline, hostVars, turnVars
    <3>2. CASE NextRound(c) \/ Connection(c)
      BY <3>2 DEF NextRound, Connection, hostVars
    <3> QED BY <1>3, <3>1, <3>2 DEF TurnStep
  <2> QED BY <2>1, JobsStay, ChatsRely
<1> QED BY <1>1, <1>2, <1>3

(* A step of an IDE or of its server.                                      *)
LEMMA IdeStepKnows ==
  ASSUME NEW e \in Ides, JobsOK, IdesKnow, IdeStep(e)
  PROVE  JobsOK' /\ Grows /\ IdesKnow'
<1>1. ASSUME NEW kind, CallWorkspaceTool(e, kind)
      PROVE  JobsOK' /\ Grows /\ IdesKnow'
  <2>1. PICK ask \in Asked : Submit(e, kind, ask.path, ask.content, ask.command)
    BY <1>1 DEF CallWorkspaceTool
  <2>2. /\ JobsOK' /\ Grows
        /\ DOMAIN jobs' = DOMAIN jobs \cup {Len(jobs) + 1}
    BY <2>1, JobIsAdded
  <2>3. results' = results /\ pending' = [pending EXCEPT
                                            ![e] = @ \cup {Len(jobs) + 1}]
    BY <1>1 DEF CallWorkspaceTool
  <2>4. \A i \in DOMAIN jobs : Kept(jobs[i], jobs'[i])
    BY <2>2 DEF Grows
  <2>5. /\ pending' \in [Ides -> SUBSET DOMAIN jobs']
        /\ results' \in [Ides -> SUBSET [job : DOMAIN jobs', error : BOOLEAN]]
    BY <2>2, <2>3 DEF IdesKnow
  <2>6. \A d \in Ides : \A r \in results'[d] :
          /\ jobs'[r.job].state \in Over
          /\ r.error <=> jobs'[r.job].state # "answered"
    BY <2>3, <2>4 DEF IdesKnow, Kept
  <2> QED BY <2>2, <2>5, <2>6 DEF IdesKnow
<1>2. CASE ReturnResult(e)
  <2>1. PICK i \in pending[e] :
          /\ jobs[i].state \in Over
          /\ pending' = [pending EXCEPT ![e] = @ \ {i}]
          /\ \/ results' = [results EXCEPT
                   ![e] = @ \cup {[job |-> i, error |-> IsToolError(i)]}]
             \/ results' = results
    BY <1>2 DEF ReturnResult
  <2>2. i \in DOMAIN jobs /\ jobs' = jobs
    BY <1>2 DEF ReturnResult, hostVars, IdesKnow
  <2>3. [job |-> i, error |-> IsToolError(i)] \in [job : DOMAIN jobs, error : BOOLEAN]
    BY <2>2 DEF IsToolError
  <2>4. /\ pending' \in [Ides -> SUBSET DOMAIN jobs]
        /\ results' \in [Ides -> SUBSET [job : DOMAIN jobs, error : BOOLEAN]]
    BY <2>1, <2>3 DEF IdesKnow
  <2>5. \A d \in Ides : \A r \in results'[d] :
          /\ jobs[r.job].state \in Over
          /\ r.error <=> jobs[r.job].state # "answered"
    <3> SUFFICES ASSUME NEW d \in Ides, NEW r \in results'[d]
                 PROVE  /\ jobs[r.job].state \in Over
                        /\ r.error <=> jobs[r.job].state # "answered"
      OBVIOUS
    <3>1. CASE r \in results[d]
      BY <3>1 DEF IdesKnow
    <3>2. CASE r \notin results[d]
      <4>1. r = [job |-> i, error |-> IsToolError(i)]
        BY <2>1, <3>2 DEF IdesKnow
      <4>2. r.job = i /\ r.error = IsToolError(i)
        BY <4>1
      <4>3. r.error <=> jobs[i].state # "answered"
        BY <4>2 DEF IsToolError
      <4> QED BY <2>1, <4>2, <4>3
    <3> QED BY <3>1, <3>2
  <2> QED BY <2>2, <2>4, <2>5, JobsStay DEF IdesKnow
<1>3. CASE Shutdown(e)
  BY <1>3, JobsStay, IdesRely DEF Shutdown, hostVars
<1>4. CASE ServerGone(e)
  <2>1. JobsOK' /\ Grows /\ DOMAIN jobs' = DOMAIN jobs
    BY <1>4, JobsAreLost DEF ServerGone
  <2>2. results' = results /\ pending' = [pending EXCEPT ![e] = {}]
    BY <1>4 DEF ServerGone
  <2>3. \A i \in DOMAIN jobs : Kept(jobs[i], jobs'[i])
    BY <2>1 DEF Grows
  <2>4. /\ pending' \in [Ides -> SUBSET DOMAIN jobs']
        /\ results' \in [Ides -> SUBSET [job : DOMAIN jobs', error : BOOLEAN]]
    BY <2>1, <2>2 DEF IdesKnow
  <2>5. \A d \in Ides : \A r \in results'[d] :
          /\ jobs'[r.job].state \in Over
          /\ r.error <=> jobs'[r.job].state # "answered"
    BY <2>2, <2>3 DEF IdesKnow, Kept
  <2> QED BY <2>1, <2>4, <2>5 DEF IdesKnow
<1> QED BY <1>1, <1>2, <1>3, <1>4
        DEF IdeStep, localWorkspaceRead, localWorkspaceWrite,
            localWorkspaceList, localWorkspaceSearch, localWorkspaceExec

(* The jobs it adds are its own.                                           *)
LEMMA IdeAdds ==
  ASSUME NEW e \in Ides, JobsOK, IdeStep(e)
  PROVE  \A i \in DOMAIN jobs' \ DOMAIN jobs : jobs'[i].by = e
<1>1. ASSUME NEW kind, CallWorkspaceTool(e, kind)
      PROVE  \A i \in DOMAIN jobs' \ DOMAIN jobs : jobs'[i].by = e
  <2>1. PICK path, content, cmd : Submit(e, kind, path, content, cmd)
    BY <1>1 DEF CallWorkspaceTool
  <2>2. /\ jobs'[Len(jobs) + 1] = NewJob(e, kind, path, content, cmd)
        /\ DOMAIN jobs' = DOMAIN jobs \cup {Len(jobs) + 1}
    BY <2>1, JobIsAdded
  <2> QED BY <2>2 DEF NewJob
<1>2. CASE ReturnResult(e) \/ Shutdown(e)
  BY <1>2 DEF ReturnResult, Shutdown, hostVars
<1>3. CASE ServerGone(e)
  BY <1>3, JobsAreLost DEF ServerGone
<1> QED BY <1>1, <1>2, <1>3
        DEF IdeStep, localWorkspaceRead, localWorkspaceWrite,
            localWorkspaceList, localWorkspaceSearch, localWorkspaceExec

(* A step of a task: of the command, of the server or of the agent.        *)
TaskAction(t) == \/ Launch(t) \/ RefuseLaunch(t) \/ AgentStep(t)
                 \/ CommandStep(t) \/ Interrupt(t) \/ ServerExits(t)

LEMMA TaskJobs ==
  ASSUME NEW t \in Tasks, JobsOK, TaskAction(t)
  PROVE  /\ JobsOK' /\ Grows
         /\ \A i \in DOMAIN jobs' \ DOMAIN jobs : jobs'[i].by = t
<1>1. CASE RunTool(t)
  <2>1. CASE jobs' = jobs
    BY <2>1, JobsStay
  <2>2. CASE jobs' # jobs
    <3>1. PICK kind, path, content, cmd : Submit(t, kind, path, content, cmd)
      BY <1>1, <2>2 DEF RunTool
    <3>2. /\ JobsOK' /\ Grows
          /\ jobs'[Len(jobs) + 1] = NewJob(t, kind, path, content, cmd)
          /\ DOMAIN jobs' = DOMAIN jobs \cup {Len(jobs) + 1}
      BY <3>1, JobIsAdded
    <3> QED BY <3>2 DEF NewJob
  <2> QED BY <2>1, <2>2
<1>2. CASE ServerExits(t)
  BY <1>2, JobsAreLost DEF ServerExits
<1>3. CASE ~(RunTool(t) \/ ServerExits(t))
  <2>1. jobs' = jobs
    <3>1. CASE Launch(t) \/ RefuseLaunch(t) \/ CommandStep(t) \/ Interrupt(t)
      BY <3>1 DEF Launch, RefuseLaunch, CommandStep, Interrupt, CallTool,
                  PrintResult, TimeOut, End, hostVars
    <3>2. CASE AgentStep(t)
      BY <1>3, <3>2 DEF AgentStep, RefuseTask, PickModel, EnterLoop, ChatFails,
                        ChatOnce, ToolEnds, TurnEnds, hostVars
    <3> QED BY <1>3, <3>1, <3>2 DEF TaskAction
  <2> QED BY <2>1, JobsStay
<1> QED BY <1>1, <1>2, <1>3

LEMMA TaskStepKnows ==
  ASSUME NEW t \in Tasks, TasksKnow, TaskAction(t)
  PROVE  TasksKnow'
<1> USE DEF TasksKnow, Command, Agent, Result
<1>1. CASE Launch(t) \/ RefuseLaunch(t) \/ CallTool(t)
  BY <1>1 DEF Launch, RefuseLaunch, CallTool, agentVars
<1>2. CASE RefuseTask(t) \/ PickModel(t) \/ EnterLoop(t) \/ ChatFails(t)
  BY <1>2 DEF RefuseTask, PickModel, EnterLoop, ChatFails, Conclude, NextTurn,
              commandVars
<1>3. CASE ChatOnce(t)
  <2>1. /\ agent[t] = "chatting" /\ UNCHANGED <<command, exitCode>>
        /\ \/ /\ agent' = [agent EXCEPT ![t] = "tools"]
              /\ result' = result
           \/ NextTurn(t) \/ Conclude(t, "done")
    BY <1>3 DEF ChatOnce, RunCalls, ReplyWithoutCalls, commandVars
  <2> QED BY <2>1 DEF NextTurn, Conclude
<1>4. CASE RunTool(t) \/ ToolEnds(t) \/ TurnEnds(t)
  BY <1>4 DEF RunTool, ToolEnds, TurnEnds, NextTurn, Conclude, commandVars
<1>5. CASE PrintResult(t)
  BY <1>5 DEF PrintResult, agentVars, Unsuccessful, IsErrorResult, StoppedLine
<1>6. CASE TimeOut(t) \/ End(t) \/ Interrupt(t)
  BY <1>6 DEF TimeOut, End, Interrupt, agentVars
<1>7. CASE ServerExits(t)
  BY <1>7 DEF ServerExits
<1> QED BY <1>1, <1>2, <1>3, <1>4, <1>5, <1>6, <1>7
        DEF TaskAction, AgentStep, CommandStep

(* One tab changes.                                                        *)
LEMMA TabChanges ==
  ASSUME Grows, TabsKnow, NEW b \in Browsers, NEW p \in Inside, NEW tab,
         tabs' = [tabs EXCEPT ![b][p] = tab],
         tab # NoTab => IsTab(tab) /\ Carried(b, p, tab.savedContent)'
  PROVE  TabsKnow'
<1>1. /\ tabs' = [d \in Browsers |-> tabs'[d]]
      /\ \A d \in Browsers : tabs'[d] = [q \in Inside |-> tabs'[d][q]]
      /\ \A d \in Browsers, q \in Inside :
           tabs'[d][q] = IF d = b /\ q = p THEN tab ELSE tabs[d][q]
  BY DEF TabsKnow
<1>2. ASSUME NEW d \in Browsers, NEW q \in Inside, IsOpen(d, q)'
      PROVE  IsTab(tabs[d][q])' /\ Carried(d, q, tabs[d][q].savedContent)'
  <2>1. CASE d = b /\ q = p
    <3>1. tabs'[d][q] = tab /\ tab # NoTab
      BY <1>1, <1>2, <2>1 DEF IsOpen
    <3> QED BY <2>1, <3>1 DEF IsTab, Carried
  <2>2. CASE ~(d = b /\ q = p)
    <3>1. tabs'[d][q] = tabs[d][q] /\ IsOpen(d, q)
      BY <1>1, <1>2, <2>2 DEF IsOpen
    <3>2. IsTab(tabs[d][q]) /\ Carried(d, q, tabs[d][q].savedContent)
      BY <3>1 DEF TabsKnow, SavedReachedDisk
    <3>3. PICK saved : saved = tabs[d][q].savedContent
      OBVIOUS
    <3>4. Carried(d, q, saved)'
      BY <3>2, <3>3, CarriedRely
    <3> QED BY <3>1, <3>2, <3>3, <3>4 DEF IsTab, Carried
  <2> QED BY <2>1, <2>2
<1>3. SavedReachedDisk'
  BY <1>2 DEF SavedReachedDisk
<1> QED BY <1>1, <1>2, <1>3 DEF TabsKnow

(* A request of a page.                                                    *)
LEMMA RequestKnows ==
  ASSUME JobsOK, \A a \in asks : IsAsk(a), NEW b \in Browsers,
         NEW purpose \in {"open", "save", "create", "load"},
         NEW p \in Inside, NEW content, NEW follow, NEW rest \in SUBSET asks,
         Request(b, purpose, p, content, follow, rest)
  PROVE  /\ JobsOK' /\ Grows
         /\ \A i \in DOMAIN jobs' \ DOMAIN jobs : jobs'[i].by = b
         /\ \A a \in asks' : IsAsk(a)'
<1>0. PICK new : new = NewAsk(b, purpose, p, follow)
  OBVIOUS
<1>1. PICK kind : /\ Submit(b, kind, p, content, NoCommand)
                  /\ purpose = "open" => kind = "read"
                  /\ purpose = "save" => kind = "write"
  BY DEF Request
<1>2. /\ JobsOK' /\ Grows
      /\ Len(jobs) + 1 \in DOMAIN jobs'
      /\ jobs'[Len(jobs) + 1] = NewJob(b, kind, p, content, NoCommand)
      /\ DOMAIN jobs' = DOMAIN jobs \cup {Len(jobs) + 1}
  BY <1>1, JobIsAdded
<1>3. asks' = rest \cup {new}
  BY <1>0 DEF Request
<1>4. IsAsk(new)'
  BY <1>0, <1>1, <1>2 DEF IsAsk, NewAsk, NewJob
<1>5. \A a \in rest : IsAsk(a)'
  BY <1>2, AsksRely
<1>6. \A a \in asks' : IsAsk(a)'
  BY <1>3, <1>4, <1>5
<1> QED BY <1>2, <1>6 DEF NewJob

(* A step of a page.                                                       *)
LEMMA UserStepKnows ==
  ASSUME NEW b \in Browsers, JobsOK, PagesKnow, UserStep(b)
  PROVE  /\ JobsOK' /\ Grows /\ PagesKnow'
         /\ \A i \in DOMAIN jobs' \ DOMAIN jobs : jobs'[i].by = b
<1> USE DEF PagesKnow
<1>1. CASE \E cmd \in Commands : RunInDock(b, cmd)
  <2>1. PICK cmd \in Commands, p \in Inside : Submit(b, "exec", p, Empty, cmd)
    BY <1>1 DEF RunInDock
  <2>2. /\ JobsOK' /\ Grows
        /\ jobs'[Len(jobs) + 1] = NewJob(b, "exec", p, Empty, cmd)
        /\ DOMAIN jobs' = DOMAIN jobs \cup {Len(jobs) + 1}
    BY <2>1, JobIsAdded
  <2>3. PagesKnow'
    BY <1>1, <2>2, PagesRely DEF RunInDock, tabsVars
  <2> QED BY <2>2, <2>3 DEF NewJob
<1>2. CASE \E p \in Inside : \/ OpenFile(b, p) \/ CreateFile(b, p)
                             \/ LoadDirectory(b, p)
  <2>1. PICK p \in Inside :
          /\ \/ Request(b, "open", p, Empty, FALSE, asks)
             \/ Request(b, "create", p, Empty, FALSE, asks)
             \/ Request(b, "load", p, Empty, FALSE, asks)
          /\ tabs' = tabs
    BY <1>2 DEF OpenFile, CreateFile, LoadDirectory
  <2>2. /\ JobsOK' /\ Grows /\ \A a \in asks' : IsAsk(a)'
        /\ \A i \in DOMAIN jobs' \ DOMAIN jobs : jobs'[i].by = b
    BY <2>1, RequestKnows
  <2> QED BY <2>1, <2>2, TabsRely
<1>3. ASSUME NEW p \in Inside, Save(b, p)
      PROVE  /\ JobsOK' /\ Grows /\ PagesKnow'
             /\ \A i \in DOMAIN jobs' \ DOMAIN jobs : jobs'[i].by = b
  <2>0. PICK tab : tab = [tabs[b][p] EXCEPT !.saving = TRUE]
    OBVIOUS
  <2>1. PICK content : Request(b, "save", p, content, FALSE, asks)
    BY <1>3 DEF Save
  <2>2. /\ JobsOK' /\ Grows /\ \A a \in asks' : IsAsk(a)'
        /\ \A i \in DOMAIN jobs' \ DOMAIN jobs : jobs'[i].by = b
    BY <2>1, RequestKnows
  <2>3. tabs' = [tabs EXCEPT ![b][p] = tab]
    BY <1>3, <2>0 DEF Save
  <2>4. IsTab(tabs[b][p]) /\ Carried(b, p, tabs[b][p].savedContent)
    BY <1>3 DEF Save, TabsKnow, SavedReachedDisk
  <2>5. IsTab(tab) /\ tab.savedContent = tabs[b][p].savedContent
    BY <2>0, <2>4 DEF IsTab, TabFields
  <2>6. Carried(b, p, tab.savedContent)'
    BY <2>2, <2>4, <2>5, CarriedRely
  <2> QED BY <2>2, <2>3, <2>5, <2>6, TabChanges
<1>4. ASSUME NEW p \in Inside, CloseTab(b, p) \/ Edit(b, p)
      PROVE  JobsOK' /\ Grows /\ PagesKnow' /\ jobs' = jobs
  <2>1. jobs' = jobs /\ asks' = asks
    BY <1>4 DEF CloseTab, Edit, hostVars
  <2>2. JobsOK' /\ Grows
    BY <2>1, JobsStay
  <2>3. \A a \in asks' : IsAsk(a)'
    BY <2>1 DEF IsAsk
  <2>4. CASE CloseTab(b, p)
    BY <2>1, <2>2, <2>3, <2>4, TabChanges DEF CloseTab
  <2>5. CASE Edit(b, p)
    <3>1. PICK content : tabs' = [tabs EXCEPT ![b][p].content = content]
      BY <2>5 DEF Edit
    <3>0. PICK tab : tab = [tabs[b][p] EXCEPT !.content = content]
      OBVIOUS
    <3>2. tabs' = [tabs EXCEPT ![b][p] = tab]
      BY <3>0, <3>1
    <3>3. IsTab(tabs[b][p]) /\ Carried(b, p, tabs[b][p].savedContent)
      BY <2>5 DEF Edit, TabsKnow, SavedReachedDisk
    <3>4. IsTab(tab) /\ tab.savedContent = tabs[b][p].savedContent
      BY <3>0, <3>3 DEF IsTab, TabFields
    <3>5. Carried(b, p, tab.savedContent)'
      BY <2>2, <3>3, <3>4, CarriedRely
    <3> QED BY <2>1, <2>2, <2>3, <3>2, <3>4, <3>5, TabChanges
  <2> QED BY <1>4, <2>1, <2>2, <2>4, <2>5
<1> QED BY <1>1, <1>2, <1>3, <1>4 DEF UserStep

LEMMA AnswerStepKnows ==
  ASSUME NEW b \in Browsers, JobsOK, PagesKnow, AnswerStep(b)
  PROVE  /\ JobsOK' /\ Grows /\ PagesKnow'
         /\ \A i \in DOMAIN jobs' \ DOMAIN jobs : jobs'[i].by = b
<1> USE DEF PagesKnow
<1>1. PICK a \in asks : a.by = b /\ (Settle(a) \/ Fail(a))
  BY DEF AnswerStep
<1>2. IsAsk(a)
  BY DEF PagesKnow
<1>3. ASSUME jobs' = jobs, asks' = asks \ {a}
      PROVE  JobsOK' /\ Grows /\ (\A k \in asks' : IsAsk(k)')
  BY <1>3, JobsStay, AsksRely
<1>4. ASSUME jobs' = jobs, asks' = asks \ {a}, NEW tab, IsTab(tab),
             Carried(b, a.path, tab.savedContent),
             tabs' = [tabs EXCEPT ![b][a.path] = tab]
      PROVE  JobsOK' /\ Grows /\ PagesKnow'
  <2>1. Grows
    BY <1>3, <1>4
  <2>2. PICK p \in Inside : p = a.path
    BY <1>2 DEF IsAsk
  <2>3. Carried(b, p, tab.savedContent)'
    BY <1>4, <2>1, <2>2, CarriedRely
  <2>4. TabsKnow'
    BY <1>4, <2>1, <2>2, <2>3, TabChanges
  <2> QED BY <1>3, <1>4, <2>4
<1>5. ASSUME jobs' = jobs, asks' = asks \ {a}, tabs' = tabs
      PROVE  JobsOK' /\ Grows /\ PagesKnow'
  BY <1>3, <1>5, TabsRely
<1>6. ASSUME NEW purpose \in {"open", "load"}, NEW follow,
             Request(b, purpose, a.path, Empty, follow, asks \ {a}),
             tabs' = tabs
      PROVE  /\ JobsOK' /\ Grows /\ PagesKnow'
             /\ \A i \in DOMAIN jobs' \ DOMAIN jobs : jobs'[i].by = b
  <2>1. PICK rest \in SUBSET asks : rest = asks \ {a}
    OBVIOUS
  <2>2. /\ JobsOK' /\ Grows /\ \A k \in asks' : IsAsk(k)'
        /\ \A i \in DOMAIN jobs' \ DOMAIN jobs : jobs'[i].by = b
    BY <1>2, <1>6, <2>1, RequestKnows DEF IsAsk
  <2> QED BY <1>6, <2>2, TabsRely
<1>7. ASSUME ThenOpen(a), tabs' = tabs
      PROVE  /\ JobsOK' /\ Grows /\ PagesKnow'
             /\ \A i \in DOMAIN jobs' \ DOMAIN jobs : jobs'[i].by = b
  BY <1>1, <1>5, <1>6, <1>7 DEF ThenOpen
<1>8. CASE Settle(a) /\ a.purpose = "open"
  <2>1. OpenAnswered(a) /\ jobs[a.job].state = "answered"
    BY <1>8 DEF Settle
  <2>2. jobs' = jobs /\ asks' = asks \ {a}
    BY <2>1 DEF OpenAnswered
  <2>3. CASE tabs' = tabs
    BY <1>5, <2>2, <2>3
  <2>4. CASE tabs' # tabs
    <3>1. PICK tab : /\ tab = [content |-> jobs[a.job].seen,
                               savedContent |-> jobs[a.job].seen,
                               readOnly |-> jobs[a.job].seen \in Oversized,
                               saving |-> FALSE]
                     /\ tabs' = [tabs EXCEPT ![a.by][a.path] = tab]
      BY <2>1, <2>4 DEF OpenAnswered
    <3>2. IsTab(tab) /\ tab.savedContent = jobs[a.job].seen
      BY <3>1 DEF IsTab, TabFields
    <3>3. Carried(b, a.path, tab.savedContent)
      BY <1>1, <1>2, <1>8, <2>1, <3>2 DEF IsAsk, Carried
    <3> QED BY <1>1, <1>4, <2>2, <3>1, <3>2, <3>3
  <2> QED BY <2>2, <2>3, <2>4
<1>9. CASE Settle(a) /\ a.purpose = "save"
  <2>1. SaveAnswered(a) /\ jobs[a.job].state = "answered"
    BY <1>9 DEF Settle
  <2>2. jobs' = jobs /\ asks' = asks \ {a}
    BY <2>1 DEF SaveAnswered
  <2>3. CASE ~IsOpen(b, a.path)
    BY <1>1, <1>5, <2>1, <2>2, <2>3 DEF SaveAnswered
  <2>4. CASE IsOpen(b, a.path)
    <3>1. PICK tab : tab = [tabs[b][a.path] EXCEPT
                              !.savedContent = jobs[a.job].content,
                              !.saving = FALSE]
      OBVIOUS
    <3>2. tabs' = [tabs EXCEPT ![b][a.path] = tab]
      BY <1>1, <2>1, <2>4, <3>1 DEF SaveAnswered
    <3>3. IsTab(tabs[b][a.path])
      BY <1>2, <2>4 DEF IsAsk, TabsKnow
    <3>4. IsTab(tab) /\ tab.savedContent = jobs[a.job].content
      BY <3>1, <3>3 DEF IsTab, TabFields
    <3>5. jobs[a.job].kind = "write" /\ jobs[a.job].landed
      BY <1>2, <1>9, <2>1 DEF IsAsk, JobsOK, Landed
    <3>6. Carried(b, a.path, tab.savedContent)
      BY <1>1, <1>2, <2>1, <3>4, <3>5 DEF IsAsk, Carried
    <3> QED BY <1>4, <2>2, <3>2, <3>4, <3>6
  <2> QED BY <2>2, <2>3, <2>4
<1>10. CASE Settle(a) /\ a.purpose \notin {"open", "save"}
  <2>1. CASE CreateAnswered(a)
    BY <1>1, <1>6, <2>1 DEF CreateAnswered
  <2>2. CASE LoadAnswered(a)
    BY <1>7, <2>2 DEF LoadAnswered
  <2> QED BY <1>10, <2>1, <2>2 DEF Settle
<1>11. CASE Fail(a)
  <2>1. CASE a.purpose = "load"
    BY <1>7, <1>11, <2>1 DEF Fail
  <2>2. CASE a.purpose # "load"
    <3>1. jobs' = jobs /\ asks' = asks \ {a}
      BY <1>11, <2>2 DEF Fail
    <3>2. CASE ~(a.purpose = "save" /\ IsOpen(b, a.path))
      BY <1>1, <1>5, <1>11, <3>1, <3>2 DEF Fail
    <3>3. CASE a.purpose = "save" /\ IsOpen(b, a.path)
      <4>1. PICK tab : tab = [tabs[b][a.path] EXCEPT !.saving = FALSE]
        OBVIOUS
      <4>2. tabs' = [tabs EXCEPT ![b][a.path] = tab]
        BY <1>1, <1>11, <3>3, <4>1 DEF Fail
      <4>3. /\ IsTab(tabs[b][a.path])
            /\ Carried(b, a.path, tabs[b][a.path].savedContent)
        BY <1>2, <3>3 DEF IsAsk, TabsKnow, SavedReachedDisk
      <4>4. IsTab(tab) /\ tab.savedContent = tabs[b][a.path].savedContent
        BY <4>1, <4>3 DEF IsTab, TabFields
      <4> QED BY <1>4, <3>1, <4>2, <4>3, <4>4
    <3> QED BY <3>1, <3>2, <3>3
  <2> QED BY <2>1, <2>2
<1> QED BY <1>1, <1>8, <1>9, <1>10, <1>11

(* What has been shown of a round.                                         *)
LEMMA RoundsRely ==
  ASSUME RoundsKnow, UNCHANGED <<link, text, shown, mode, calls, recovered>>
  PROVE  RoundsKnow'
BY DEF RoundsKnow, ShownOrRun, Withholds

LEMMA TurnStepShows ==
  ASSUME NEW c \in Chats, RoundsKnow, TurnStep(c)
  PROVE  RoundsKnow'
<1> USE DEF RoundsKnow, ShownOrRun, Unended, Goto, Withholds
<1>1. CASE EmitText(c)
  <2>1. PICK decided :
          /\ link[c] = "connected"
          /\ text' = [text EXCEPT ![c] = text'[c]]
          /\ mode' = [mode EXCEPT ![c] = decided]
          /\ decided = "buffering" => Withholds(c)
          /\ decided \in {"undecided", "buffering"} => decided = "buffering"
          /\ shown' = [shown EXCEPT ![c] = IF decided # "buffering"
                                           THEN Len(text[c]) + 1 ELSE @]
          /\ link' = link /\ recovered' = recovered /\ calls' = calls
    BY <1>1 DEF EmitText, Streaming, connectionVars
  <2> QED BY <2>1
<1>2. CASE EndRound(c)
  <2>1. PICK recover \in BOOLEAN, to \in {"done", "tools"} :
          /\ link[c] = "connected"
          /\ recover => mode[c] = "buffering"
          /\ recover => Spoiled(text[c]) \/ calls'[c] = CallsIn(text[c])
          /\ calls' = [calls EXCEPT ![c] = calls'[c]]
          /\ recovered' = [recovered EXCEPT ![c] = recover]
          /\ shown' = [shown EXCEPT ![c] = IF recover THEN @ ELSE Len(text[c])]
          /\ link' = [link EXCEPT ![c] = to]
          /\ text' = text /\ mode' = mode
    BY <1>2 DEF EndRound, Streaming, TakesText, ParseTextToolCalls
  <2> QED BY <2>1
<1>3. CASE NextRound(c)
  <2>1. PICK to \in {"connecting", "errored"} :
          /\ link' = [link EXCEPT ![c] = to]
          /\ text' = [text EXCEPT ![c] = <<>>]
          /\ shown' = [shown EXCEPT ![c] = 0]
          /\ mode' = [mode EXCEPT ![c] = mode'[c]]
          /\ calls' = [calls EXCEPT ![c] = <<>>]
          /\ recovered' = [recovered EXCEPT ![c] = FALSE]
    BY <1>3 DEF NextRound, Dial
  <2> QED BY <2>1
<1>4. CASE BreakRound(c) \/ HaltBetweenCalls(c)
  BY <1>4 DEF BreakRound, HaltBetweenCalls, turnVars
<1>5. CASE Connection(c)
  <2>1. /\ UNCHANGED <<text, shown, calls, recovered>>
        /\ mode' = mode \/ mode' = [mode EXCEPT ![c] = "inert"]
    BY <1>5 DEF Connection
  <2>2. CASE BridgeBody(c)
    BY <2>1, <2>2 DEF BridgeBody
  <2>3. CASE ~BridgeBody(c)
    <3>1. PICK to \in Unended \cup {"halted", "errored"} :
            link[c] \in Unended /\ link' = [link EXCEPT ![c] = to]
      BY <1>5, <2>3 DEF Connection, ConnectionStep, Blocked, Begin, Dial,
             Connect, Transient, Redial, Reject, Unreachable, HaltConnecting
    <3> QED BY <2>1, <3>1
  <2> QED BY <2>2, <2>3
<1>6. CASE Execute(c) \/ Decline(c) \/ Answer(c) \/ GiveUp(c)
  <2>1. UNCHANGED <<link, text, shown, mode, calls, recovered>>
    BY <1>6 DEF Execute, Decline, Answer, GiveUp, Report, connectionVars,
                roundVars
  <2> QED BY <2>1, RoundsRely
<1>7. CASE EmitCall(c)
  <2>1. /\ link[c] = "connected"
        /\ calls' = [calls EXCEPT ![c] = calls'[c]]
        /\ UNCHANGED <<link, text, shown, mode, recovered>>
    BY <1>7 DEF EmitCall, Streaming, connectionVars
  <2> QED BY <2>1
<1> QED BY <1>1, <1>2, <1>3, <1>4, <1>5, <1>6, <1>7 DEF TurnStep
-----------------------------------------------------------------------------
(* What is told of writes.  Nobody else adds a write of a chat.            *)
LEMMA WritesRely ==
  ASSUME JobsOK, Grows, WritesKnow, UNCHANGED <<link, waiting, told>>,
         \A i \in DOMAIN jobs' \ DOMAIN jobs : jobs'[i].by \notin Chats
  PROVE  WritesKnow'
<1>1. ASSUME NEW c \in Chats, NEW i \in DOMAIN jobs', jobs'[i].by = c,
             jobs'[i].kind = "write"
      PROVE  i \in DOMAIN jobs /\ jobs[i].by = c /\ jobs[i].kind = "write"
  BY <1>1 DEF Grows, Kept
<1>2. \A c \in Chats : \A i : /\ Awaited(c, i)' <=> Awaited(c, i)
                             /\ Reports(c, i)' = Reports(c, i)
  BY DEF Awaited, Reports
<1>3. EveryWriteTold'
  BY <1>1, <1>2 DEF WritesKnow, EveryWriteTold
<1> QED BY <1>3 DEF WritesKnow

LEMMA CallIsHanded ==
  ASSUME NEW c \in Chats, JobsOK, ChatsKnow, WritesKnow, Execute(c)
  PROVE  WritesKnow'
<1>1. PICK kind, path, content, cmd : Submit(c, kind, path, content, cmd)
  BY DEF Execute
<1>2. PICK new \in Nat : new = Len(jobs) + 1
  BY <1>1, JobIsAdded
<1>3. /\ DOMAIN jobs' = DOMAIN jobs \cup {new} /\ new \notin DOMAIN jobs
      /\ Grows /\ jobs'[new].by = c /\ new # 0
  <2>1. jobs \in Seq({jobs[i] : i \in DOMAIN jobs})
    BY DEF JobsOK
  <2>2. Len(jobs) + 1 \notin DOMAIN jobs /\ Len(jobs) + 1 # 0
    BY <2>1
  <2>3. /\ Grows /\ DOMAIN jobs' = DOMAIN jobs \cup {new}
        /\ jobs'[new] = NewJob(c, kind, path, content, cmd)
    BY <1>1, <1>2, JobIsAdded
  <2>4. NewJob(c, kind, path, content, cmd).by = c
    BY DEF NewJob
  <2> QED BY <1>2, <2>2, <2>3, <2>4
<1>4. /\ waiting[c] = 0 /\ link[c] = "tools" /\ link' = link /\ told' = told
      /\ waiting' = [waiting EXCEPT ![c] = new]
  BY <1>2 DEF Execute, MayCall, AtCall, connectionVars
<1>5. \A d \in Chats : waiting'[d] # 0 => link'[d] = "tools"
  BY <1>4 DEF ChatsKnow, WritesKnow
<1>6. ASSUME NEW d \in Chats, NEW i \in DOMAIN jobs, jobs'[i].by = d,
             jobs'[i].kind = "write"
      PROVE  IF Awaited(d, i)' THEN Reports(d, i)' = {}
             ELSE \E ok \in BOOLEAN : Reports(d, i)' = {[job |-> i, ok |-> ok]}
  <2>1. jobs[i].by = d /\ jobs[i].kind = "write"
    BY <1>3, <1>6 DEF Grows, Kept
  <2>2. i # new /\ i # 0
    BY <1>3 DEF JobsOK
  <2>3. Awaited(d, i)' <=> Awaited(d, i)
    BY <1>4, <2>2 DEF Awaited, ChatsKnow
  <2>4. Reports(d, i)' = Reports(d, i)
    BY <1>4 DEF Reports
  <2> QED BY <2>1, <2>3, <2>4 DEF WritesKnow, EveryWriteTold
<1>7. Awaited(c, new)' /\ Reports(c, new)' = {}
  <2>1. \A t \in told[c] : t.job # new
    BY <1>3 DEF ChatsKnow
  <2> QED BY <1>4, <2>1 DEF Awaited, Reports, ChatsKnow
<1>8. EveryWriteTold'
  BY <1>3, <1>6, <1>7 DEF EveryWriteTold
<1> QED BY <1>5, <1>8 DEF WritesKnow

LEMMA CallIsReported ==
  ASSUME NEW c \in Chats, JobsOK, ChatsKnow, WritesKnow, NEW result_ok \in BOOLEAN,
         waiting[c] # 0, link[c] = "tools", Report(c, result_ok)
  PROVE  WritesKnow'
<1> DEFINE now == waiting[c]
           new == [job |-> now, ok |-> result_ok]
<1>1. /\ jobs' = jobs /\ link' = link
      /\ waiting' = [waiting EXCEPT ![c] = 0]
      /\ told' = IF jobs[now].kind = "write"
                 THEN [told EXCEPT ![c] = @ \cup {new}] ELSE told
  BY DEF Report, hostVars, connectionVars
<1>2. \A d \in Chats : waiting'[d] # 0 => link'[d] = "tools"
  BY <1>1 DEF ChatsKnow, WritesKnow
<1>3. ASSUME NEW d \in Chats, NEW i \in DOMAIN jobs, jobs[i].by = d,
             jobs[i].kind = "write"
      PROVE  IF Awaited(d, i)' THEN Reports(d, i)' = {}
             ELSE \E ok \in BOOLEAN : Reports(d, i)' = {[job |-> i, ok |-> ok]}
  <2>0. i # 0 /\ new.job = now
    BY DEF JobsOK
  <2>1. CASE d # c \/ i # now
    <3>1. Awaited(d, i)' <=> Awaited(d, i)
      BY <1>1, <2>0, <2>1 DEF Awaited, ChatsKnow
    <3>2. Reports(d, i)' = Reports(d, i)
      BY <1>1, <2>0, <2>1 DEF Reports, ChatsKnow
    <3> QED BY <1>3, <3>1, <3>2 DEF WritesKnow, EveryWriteTold
  <2>2. CASE d = c /\ i = now
    <3>1. Reports(c, now) = {}
      BY <1>3, <2>2 DEF WritesKnow, EveryWriteTold, Awaited
    <3>2. told'[c] = told[c] \cup {new}
      BY <1>1, <1>3, <2>2 DEF ChatsKnow
    <3>3. {t \in told'[c] : t.job = now} = {new}
      BY <2>0, <3>1, <3>2 DEF Reports
    <3>4. waiting'[c] # now
      BY <1>1 DEF ChatsKnow
    <3>5. ~(waiting'[d] = i /\ link'[d] = "tools")
      BY <2>2, <3>4
    <3>6. {t \in told'[d] : t.job = i} = {[job |-> i, ok |-> result_ok]}
      BY <2>2, <3>3
    <3> QED BY <3>5, <3>6 DEF Awaited, Reports
  <2> QED BY <2>1, <2>2
<1>4. EveryWriteTold'
  BY <1>1, <1>3 DEF EveryWriteTold
<1> QED BY <1>2, <1>4 DEF WritesKnow

(* A chat that goes elsewhere awaits nothing.                              *)
LEMMA LinkIsLeft ==
  ASSUME NEW c \in Chats, JobsOK, ChatsKnow, WritesKnow,
         UNCHANGED <<jobs, waiting, told>>, waiting[c] = 0,
         \A d \in Chats \ {c} : link'[d] = link[d]
  PROVE  WritesKnow'
<1>1. ASSUME NEW d \in Chats, NEW i \in DOMAIN jobs
      PROVE  /\ Awaited(d, i)' <=> Awaited(d, i)
             /\ Reports(d, i)' = Reports(d, i)
  <2>1. i # 0
    BY DEF JobsOK
  <2> QED BY <2>1 DEF Awaited, Reports
<1>2. EveryWriteTold'
  BY <1>1 DEF WritesKnow, EveryWriteTold
<1> QED BY <1>2 DEF WritesKnow

LEMMA TurnStepTells ==
  ASSUME NEW c \in Chats, JobsOK, RoundsKnow, ChatsKnow, WritesKnow, TurnStep(c)
  PROVE  WritesKnow'
<1>1. CASE Execute(c)
  BY <1>1, CallIsHanded
<1>2. CASE Answer(c) \/ GiveUp(c)
  <2>1. PICK ok \in BOOLEAN :
          waiting[c] # 0 /\ link[c] = "tools" /\ Report(c, ok)
    BY <1>2 DEF Answer, GiveUp, Succeeded
  <2> QED BY <2>1, CallIsReported
<1>3. CASE EndRound(c) \/ BreakRound(c) \/ HaltBetweenCalls(c) \/ NextRound(c)
  <2>1. PICK to : link' = [link EXCEPT ![c] = to]
    BY <1>3 DEF EndRound, BreakRound, HaltBetweenCalls, NextRound, Goto, Dial
  <2>2. UNCHANGED <<jobs, waiting, told>>
    BY <1>3 DEF EndRound, BreakRound, HaltBetweenCalls, NextRound, hostVars,
                turnVars
  <2>3. waiting[c] = 0
    BY <1>3 DEF EndRound, BreakRound, HaltBetweenCalls, NextRound, AtCall,
                Streaming, WritesKnow
  <2>4. \A d \in Chats \ {c} : link'[d] = link[d]
    BY <2>1 DEF RoundsKnow
  <2> QED BY <2>2, <2>3, <2>4, LinkIsLeft
<1>4. CASE Connection(c)
  <2>1. UNCHANGED <<jobs, waiting, told>>
    BY <1>4 DEF Connection, hostVars
  <2>2. link[c] # "tools" /\ \E to : link' = [link EXCEPT ![c] = to]
    <3>1. CASE BridgeBody(c)
      BY <3>1 DEF BridgeBody, Goto
    <3>2. CASE ~BridgeBody(c)
      BY <1>4, <3>2 DEF Connection, ConnectionStep, Blocked, Begin, Dial, Goto,
             Connect, Transient, Redial, Reject, Unreachable, HaltConnecting
    <3> QED BY <3>1, <3>2
  <2>3. waiting[c] = 0
    BY <2>2 DEF WritesKnow
  <2>4. \A d \in Chats \ {c} : link'[d] = link[d]
    BY <2>2 DEF RoundsKnow
  <2> QED BY <2>1, <2>3, <2>4, LinkIsLeft
<1>5. CASE EmitText(c) \/ EmitCall(c) \/ Decline(c)
  <2>1. UNCHANGED <<jobs, link, waiting, told>>
    BY <1>5 DEF EmitText, EmitCall, Decline, hostVars, connectionVars
  <2> QED BY <2>1, WritesRely, JobsStay
<1> QED BY <1>1, <1>2, <1>3, <1>4, <1>5 DEF TurnStep

(* The invariant holds at the start and every step keeps it.               *)
LEMMA BenchInitKnows ==
  ASSUME BenchInit
  PROVE  BenchInvariant
<1> USE DEF BenchInit, HostInit, TurnInit, AgentInit, TabsInit, McpInit
<1>1. JobsOK
  BY DEF JobsOK
<1>2. ChatsKnow
  BY DEF ChatsKnow
<1>3. IdesKnow
  BY DEF IdesKnow
<1>4. PagesKnow
  BY DEF PagesKnow, TabsKnow, SavedReachedDisk, IsOpen
<1>5. TasksKnow
  BY DEF TasksKnow, Command, Agent, Result
<1>6. RoundsKnow
  BY DEF RoundsKnow, ShownOrRun, Unended, Withholds, ConnectionInit
<1>7. WritesKnow
  BY DEF WritesKnow, EveryWriteTold
<1> QED BY <1>1, <1>2, <1>3, <1>4, <1>5, <1>6, <1>7 DEF BenchInvariant

LEMMA BenchStepKnows ==
  ASSUME BenchInvariant, [BenchNext]_benchVars
  PROVE  BenchInvariant' /\ Grows
<1> DEFINE ChatsRest == UNCHANGED <<waiting, told>>
           IdesRest  == UNCHANGED <<pending, results>>
           PagesRest == UNCHANGED <<tabs, asks>>
           TasksRest == UNCHANGED <<command, exitCode, agent, result>>
           RoundsRest == UNCHANGED <<link, text, shown, mode, calls, recovered>>
           Adds(by)  == \A i \in DOMAIN jobs' \ DOMAIN jobs : jobs'[i].by = by
           NoneOfAChat == \A i \in DOMAIN jobs' \ DOMAIN jobs :
                            jobs'[i].by \notin Chats
<1> USE DEF BenchInvariant
<1>1. ASSUME JobsOK', Grows, ChatsKnow' \/ ChatsRest, IdesKnow' \/ IdesRest,
             PagesKnow' \/ PagesRest, TasksKnow' \/ TasksRest,
             RoundsKnow' \/ RoundsRest,
             WritesKnow' \/ (ChatsRest /\ RoundsRest /\ NoneOfAChat)
      PROVE  BenchInvariant' /\ Grows
  BY <1>1, ChatsRely, IdesRely, PagesRely, TasksRely, RoundsRely, WritesRely
<1>2. ASSUME NEW by, by \notin Chats, Adds(by)
      PROVE  NoneOfAChat
  BY <1>2
<1>3. ASSUME NEW c \in Chats, ChatStep(c)
      PROVE  BenchInvariant' /\ Grows
  <2>1. TurnStep(c) /\ IdesRest /\ PagesRest /\ TasksRest
    BY <1>3 DEF ChatStep, taskVars, commandVars, agentVars, tabsVars, restVars,
                mcpVars
  <2>2. JobsOK' /\ Grows /\ ChatsKnow'
    BY <2>1, TurnStepKnows
  <2>3. RoundsKnow'
    BY <2>1, TurnStepShows
  <2>4. WritesKnow'
    BY <2>1, TurnStepTells
  <2> QED BY <1>1, <2>1, <2>2, <2>3, <2>4
<1>4. CASE OutsideStep
  <2>1. /\ jobs' = jobs
        /\ ChatsRest /\ IdesRest /\ PagesRest /\ TasksRest /\ RoundsRest
    BY <1>4 DEF OutsideStep, Outside, Stop, Cool, hostVars, turnVars, taskVars,
                commandVars, agentVars, tabsVars, restVars, mcpVars
  <2> QED BY <1>1, <2>1, JobsStay
<1>5. ASSUME NEW t \in Tasks, \/ LaunchStep(t) \/ LoopStep(t) \/ ScriptStep(t)
                              \/ InterruptStep(t) \/ ExitStep(t)
      PROVE  BenchInvariant' /\ Grows
  <2>1. /\ TaskAction(t)
        /\ ChatsRest /\ IdesRest /\ PagesRest /\ RoundsRest
    BY <1>5 DEF LaunchStep, LoopStep, ScriptStep, InterruptStep, ExitStep,
                TaskAction, chatVars, connectionVars, turnVars, tabsVars, restVars, mcpVars
  <2>2. JobsOK' /\ Grows /\ Adds(t)
    BY <2>1, TaskJobs
  <2>3. TasksKnow'
    BY <2>1, TaskStepKnows
  <2>4. t \notin Chats
    BY WorkbenchAssumption
  <2> QED BY <1>1, <1>2, <2>1, <2>2, <2>3, <2>4
<1>6. ASSUME NEW b \in Browsers, PageStep(b) \/ ReplyStep(b)
      PROVE  BenchInvariant' /\ Grows
  <2>1. /\ UserStep(b) \/ AnswerStep(b)
        /\ ChatsRest /\ IdesRest /\ TasksRest /\ RoundsRest
    BY <1>6 DEF PageStep, ReplyStep, chatVars, connectionVars, turnVars, taskVars, commandVars,
                agentVars, restVars, mcpVars
  <2>2. JobsOK' /\ Grows /\ PagesKnow' /\ Adds(b)
    BY <2>1, UserStepKnows, AnswerStepKnows
  <2>3. b \notin Chats
    BY WorkbenchAssumption
  <2> QED BY <1>1, <1>2, <2>1, <2>2, <2>3
<1>7. ASSUME NEW e \in Ides, ToolStep(e)
      PROVE  BenchInvariant' /\ Grows
  <2>1. /\ IdeStep(e)
        /\ ChatsRest /\ PagesRest /\ TasksRest /\ RoundsRest
    BY <1>7 DEF ToolStep, chatVars, connectionVars, turnVars, taskVars, commandVars,
                agentVars, tabsVars
  <2>2. JobsOK' /\ Grows /\ IdesKnow'
    BY <2>1, IdeStepKnows
  <2>3. Adds(e)
    BY <2>1, IdeAdds
  <2>4. e \notin Chats
    BY WorkbenchAssumption
  <2> QED BY <1>1, <1>2, <2>1, <2>2, <2>3, <2>4
<1>8. CASE HostStep
  <2>1. /\ \E i \in DOMAIN jobs : JobStep(i) \/ FsError(i)
        /\ ChatsRest /\ IdesRest /\ PagesRest /\ TasksRest /\ RoundsRest
    BY <1>8 DEF HostStep, HostNext, chatVars, connectionVars, turnVars, taskVars, commandVars,
                agentVars, tabsVars, restVars, mcpVars
  <2>2. JobsOK' /\ Grows
    BY <2>1, JobStepGrows
  <2>3. DOMAIN jobs' = DOMAIN jobs
    BY <2>1, JobsStayInPlace
  <2> QED BY <1>1, <2>1, <2>2, <2>3
<1>9. CASE UNCHANGED benchVars
  <2>1. /\ jobs' = jobs
        /\ ChatsRest /\ IdesRest /\ PagesRest /\ TasksRest /\ RoundsRest
    BY <1>9 DEF benchVars, hostVars, chatVars, connectionVars, turnVars, taskVars, commandVars,
                agentVars, tabsVars, restVars, mcpVars
  <2> QED BY <1>1, <2>1, JobsStay
<1> QED BY <1>3, <1>4, <1>5, <1>6, <1>7, <1>8, <1>9 DEF BenchNext
-----------------------------------------------------------------------------
(* The invariant of the workbench: nobody's knowledge of the jobs is ever  *)
(* wrong, whoever else works on the same host.                             *)
THEOREM BenchInvariantHolds == BenchSpec => []BenchInvariant
<1>1. BenchInit => BenchInvariant
  BY BenchInitKnows
<1>2. BenchInvariant /\ [BenchNext]_benchVars => BenchInvariant'
  BY BenchStepKnows
<1> QED BY <1>1, <1>2, PTL DEF BenchSpec

(* An operation that was handed to the host is never taken back, keeps     *)
(* whose it is and what it asks for, and once over keeps its outcome, also *)
(* when processes die around it (workspace-routes.ts and mcp/tools.ts pass *)
(* no cancellation on).                                                    *)
THEOREM OperationsAreFinal == BenchSpec => [][Grows]_jobs
<1>1. BenchInvariant /\ [BenchNext]_benchVars => [Grows]_jobs
  BY BenchStepKnows
<1> QED BY <1>1, BenchInvariantHolds, PTL DEF BenchSpec

(* A write the model was told is done has put its bytes into the file      *)
(* (workspace-tools.service.ts, the answers of the host bridge).           *)
THEOREM ToldWritesLandedHolds == BenchSpec => []ToldWritesLanded
<1>1. BenchInvariant => ToldWritesLanded
  BY DEF BenchInvariant, ChatsKnow, JobsOK, Landed, ToldWritesLanded
<1> QED BY <1>1, BenchInvariantHolds, PTL

(* An IDE that was answered without isError has its bytes in the file, and *)
(* one that was answered with isError has not (tools.ts).                  *)
THEOREM AnsweredWritesLandedHolds == BenchSpec => []AnsweredWritesLanded
<1>1. BenchInvariant => AnsweredWritesLanded
  BY DEF BenchInvariant, IdesKnow, JobsOK, Landed, AnsweredWritesLanded
<1> QED BY <1>1, BenchInvariantHolds, PTL

(* A command that exits with 0 ran an agent that finished (delegate.mjs).  *)
THEOREM ExitTellsOutcomeHolds == BenchSpec => []ExitTellsOutcome
<1>1. BenchInvariant => ExitTellsOutcome
  BY DEF BenchInvariant, TasksKnow, ExitTellsOutcome
<1> QED BY <1>1, BenchInvariantHolds, PTL

(* A tab never takes for saved what its page has neither read from the     *)
(* file nor written to it (WorkspaceStore).                                *)
THEOREM SavedReachedDiskHolds == BenchSpec => []SavedReachedDisk
<1>1. BenchInvariant => SavedReachedDisk
  BY DEF BenchInvariant, PagesKnow, TabsKnow
<1> QED BY <1>1, BenchInvariantHolds, PTL

(* No text of a round is both run and shown; what is not run was shown, or *)
(* its calls are run: all of them if all of it parses (ollama.provider.ts, *)
(* finalizeContent).                                                       *)
THEOREM ShownOrRunHolds == BenchSpec => []ShownOrRun
<1>1. BenchInvariant => ShownOrRun
  BY DEF BenchInvariant, RoundsKnow
<1> QED BY <1>1, BenchInvariantHolds, PTL

(* Every write a chat handed to the host is awaited, or was reported once, *)
(* also when the chat was stopped or gave up waiting before it landed      *)
(* (ollama.provider.ts, the line after each call).                         *)
THEOREM EveryWriteToldHolds == BenchSpec => []EveryWriteTold
<1>1. BenchInvariant => EveryWriteTold
  BY DEF BenchInvariant, WritesKnow
<1> QED BY <1>1, BenchInvariantHolds, PTL
-----------------------------------------------------------------------------
(* What the parsers find in a text are calls of offered tools.  That the   *)
(* recursive function exists, and what it yields, is shown by looking at   *)
(* the least number of pieces for which it would not.                      *)
LEMMA LeastNumber ==
  ASSUME NEW S, S \subseteq Nat, S # {}
  PROVE  \E least \in S : \A n \in S : least <= n
<1> DEFINE R == {p \in Nat \X Nat : p[1] < p[2]}
<1>1. IsWellFoundedOn(R, Nat)
  BY NatLessThanWellFounded DEF R, OpToRel
<1>2. PICK least \in S : \A n \in S : ~(<<n, least>> \in R)
  <2> HIDE DEF R
  <2> QED BY <1>1, WFMin
<1>3. \A n \in S : n \in Nat /\ least \in Nat /\ ~(n < least)
  BY <1>2
<1> QED BY <1>3

IsFound(found, pieces, N) ==
  found = [n \in 0 .. N |-> IF n = 0 THEN <<>>
                            ELSE IF pieces[n] \in ToolCalls
                            THEN Append(found[n - 1], pieces[n])
                            ELSE found[n - 1]]

LEMMA FoundTyped ==
  ASSUME NEW pieces, NEW N \in Nat, NEW f, IsFound(f, pieces, N)
  PROVE  \A n \in 0 .. N : f[n] \in Seq(ToolCalls)
<1> DEFINE Bad == {n \in 0 .. N : f[n] \notin Seq(ToolCalls)}
<1>1. CASE Bad = {}
  BY <1>1
<1>2. CASE Bad # {}
  <2>1. PICK k \in Bad : \A i \in Bad : k <= i
    <3>1. Bad \subseteq Nat
      OBVIOUS
    <3> HIDE DEF Bad
    <3> QED BY <1>2, <3>1, LeastNumber
  <2>2. f[k] = IF k = 0 THEN <<>>
               ELSE IF pieces[k] \in ToolCalls THEN Append(f[k - 1], pieces[k])
               ELSE f[k - 1]
    BY DEF IsFound
  <2>3. k # 0
    <3>1. <<>> \in Seq(ToolCalls)
      OBVIOUS
    <3>2. k = 0 => f[k] \in Seq(ToolCalls)
      BY <2>2, <3>1
    <3> QED BY <3>2
  <2>4. k - 1 \in 0 .. N /\ ~(k <= k - 1)
    BY <2>3
  <2>5. k - 1 \notin Bad
    <3> HIDE DEF Bad
    <3> QED BY <2>1, <2>4
  <2>6. f[k - 1] \in Seq(ToolCalls)
    BY <2>4, <2>5
  <2>7. f[k] \in Seq(ToolCalls)
    BY <2>2, <2>3, <2>6
  <2> QED BY <2>7
<1> QED BY <1>1, <1>2

LEMMA OneMoreFound ==
  ASSUME NEW pieces, NEW j \in Nat, NEW f, IsFound(f, pieces, j)
  PROVE  \E g : IsFound(g, pieces, j + 1)
<1>1. PICK k \in Nat : k = j + 1 /\ k # 0
  OBVIOUS
<1>2. PICK last : last = IF pieces[k] \in ToolCalls THEN Append(f[j], pieces[k])
                         ELSE f[j]
  OBVIOUS
<1>3. PICK g : g = [n \in 0 .. k |-> IF n = k THEN last ELSE f[n]]
  OBVIOUS
<1>4. ASSUME NEW n \in 0 .. k
      PROVE  g[n] = IF n = 0 THEN <<>>
                    ELSE IF pieces[n] \in ToolCalls THEN Append(g[n - 1], pieces[n])
                    ELSE g[n - 1]
  <2>1. CASE n = k
    <3>1. n - 1 = j /\ n - 1 \in 0 .. k /\ n - 1 # k /\ n # 0
      BY <1>1, <2>1
    <3>2. g[n - 1] = f[j] /\ g[n] = last
      BY <1>3, <2>1, <3>1
    <3> QED BY <1>2, <2>1, <3>1, <3>2
  <2>2. CASE n # k
    <3>1. n \in 0 .. j /\ g[n] = f[n]
      BY <1>1, <1>3, <2>2
    <3>2. f[n] = IF n = 0 THEN <<>>
                 ELSE IF pieces[n] \in ToolCalls THEN Append(f[n - 1], pieces[n])
                 ELSE f[n - 1]
      BY <3>1 DEF IsFound
    <3>3. n # 0 => n - 1 \in 0 .. k /\ n - 1 # k
      BY <1>1, <3>1
    <3>4. n # 0 => g[n - 1] = f[n - 1]
      BY <1>3, <3>3
    <3> QED BY <3>1, <3>2, <3>4
  <2> QED BY <2>1, <2>2
<1>5. g = [n \in 0 .. k |-> g[n]]
  BY <1>3
<1>6. g = [n \in 0 .. k |-> IF n = 0 THEN <<>>
                            ELSE IF pieces[n] \in ToolCalls
                            THEN Append(g[n - 1], pieces[n])
                            ELSE g[n - 1]]
  BY <1>4, <1>5
<1>7. IsFound(g, pieces, k)
  BY <1>6 DEF IsFound
<1> QED BY <1>1, <1>7

LEMMA FoundExists ==
  ASSUME NEW pieces, NEW N \in Nat
  PROVE  \E f : IsFound(f, pieces, N)
<1> DEFINE Bad == {k \in Nat : ~ \E f : IsFound(f, pieces, k)}
<1>1. CASE Bad = {}
  BY <1>1
<1>2. CASE Bad # {}
  <2>1. PICK k \in Bad : \A i \in Bad : k <= i
    <3>1. Bad \subseteq Nat
      OBVIOUS
    <3> HIDE DEF Bad
    <3> QED BY <1>2, <3>1, LeastNumber
  <2>2. k # 0
    <3>1. PICK f : f = [n \in 0 .. 0 |-> <<>>]
      OBVIOUS
    <3>2. [n \in 0 .. 0 |-> <<>>] = [n \in 0 .. 0 |-> IF n = 0 THEN <<>>
                                       ELSE IF pieces[n] \in ToolCalls
                                       THEN Append(f[n - 1], pieces[n])
                                       ELSE f[n - 1]]
      OBVIOUS
    <3>3. IsFound(f, pieces, 0)
      BY <3>1, <3>2 DEF IsFound
    <3> QED BY <3>3
  <2>3. PICK j \in Nat : k = j + 1 /\ ~(k <= j)
    <3>1. k - 1 \in Nat /\ k = (k - 1) + 1 /\ ~(k <= k - 1)
      BY <2>2
    <3> QED BY <3>1
  <2>4. j \notin Bad
    <3> HIDE DEF Bad
    <3> QED BY <2>1, <2>3
  <2>5. PICK f : IsFound(f, pieces, j)
    BY <2>4
  <2>6. \E g : IsFound(g, pieces, j + 1)
    BY <2>5, OneMoreFound
  <2> QED BY <2>1, <2>3, <2>6
<1> QED BY <1>1, <1>2

LEMMA CallsTyped ==
  ASSUME NEW S, NEW pieces \in Seq(S)
  PROVE  CallsIn(pieces) \in Seq(ToolCalls)
<1>1. PICK N \in Nat : N = Len(pieces)
  OBVIOUS
<1>2. PICK g : g = CHOOSE found : IsFound(found, pieces, N)
  OBVIOUS
<1>3. IsFound(g, pieces, N)
  BY <1>2, FoundExists
<1>4. CallsIn(pieces) = g[N]
  BY <1>1, <1>2 DEF CallsIn, IsFound
<1> QED BY <1>3, <1>4, FoundTyped

LEMMA ParsedTyped ==
  ASSUME NEW S, NEW pieces \in Seq(S), NEW found \in ParseTextToolCalls(pieces)
  PROVE  found \in Seq(ToolCalls)
<1>1. ASSUME NEW part \in Parts(pieces)
      PROVE  part \in Seq(S)
  <2>1. PICK i \in DOMAIN pieces, j \in DOMAIN pieces : part = SubSeq(pieces, i, j)
    BY DEF Parts
  <2>2. i \in 1 .. Len(pieces) + 1 /\ j \in 0 .. Len(pieces)
    OBVIOUS
  <2> QED BY <2>1, <2>2, SubSeqProperties
<1>2. \/ found = CallsIn(pieces) \/ found = <<>>
      \/ \E part \in Parts(pieces) : found = CallsIn(part)
  BY DEF ParseTextToolCalls
<1>3. \A part \in Seq(S) : CallsIn(part) \in Seq(ToolCalls)
  BY CallsTyped
<1>4. <<>> \in Seq(ToolCalls)
  OBVIOUS
<1> QED BY <1>1, <1>2, <1>3, <1>4
-----------------------------------------------------------------------------
(* The types of the host.  Only a read that found its file is opened, so   *)
(* what an answered read has seen are bytes.                               *)
JobTyped(j) ==
  /\ j.by \in Callers /\ j.kind \in Kinds /\ j.path \in Paths
  /\ j.content \in Bytes /\ j.command \in Commands \cup {NoCommand}
  /\ j.state \in JobState /\ j.seen \in Bytes \cup {Absent}
  /\ j.todo \in SUBSET Inside /\ j.found \in SUBSET Inside
  /\ j.landed \in BOOLEAN
  /\ j.kind = "read" /\ j.state \in {"open", "answered"} => j.seen \in Bytes

JobsTyped == \A i \in DOMAIN jobs : JobTyped(jobs[i])
HostTyped == /\ disk \in [Inside -> Bytes \cup {Absent}]
             /\ JobsTyped /\ crew \in Crews

LEMMA TypedJobIsJob ==
  ASSUME NEW j, IsJob(j), JobTyped(j)
  PROVE  j \in Job
<1>1. j = [by |-> j.by, kind |-> j.kind, path |-> j.path,
           content |-> j.content, command |-> j.command, state |-> j.state,
           seen |-> j.seen, todo |-> j.todo, found |-> j.found,
           landed |-> j.landed]
  BY DEF IsJob, Fields
<1> QED BY <1>1 DEF Job, JobTyped

LEMMA HostIsTyped ==
  ASSUME JobsOK, HostTyped
  PROVE  HostTypeOK
<1>1. \A n \in DOMAIN jobs : jobs[n] \in Job
  BY TypedJobIsJob DEF JobsOK, HostTyped, JobsTyped
<1>2. jobs \in Seq(Job)
  BY <1>1, ElementsOf DEF JobsOK
<1> QED BY <1>2 DEF HostTyped, HostTypeOK

LEMMA JobGoesOnTyped ==
  ASSUME JobsOK, JobsTyped, NEW i \in DOMAIN jobs, NEW k, JobTyped(k),
         jobs' = [jobs EXCEPT ![i] = k]
  PROVE  JobsTyped'
<1>1. /\ DOMAIN jobs' = DOMAIN jobs
      /\ \A n \in DOMAIN jobs : jobs'[n] = IF n = i THEN k ELSE jobs[n]
  BY ExceptSeq DEF JobsOK
<1>2. \A n \in DOMAIN jobs' : JobTyped(jobs'[n])
  BY <1>1 DEF JobsTyped
<1> QED BY <1>2 DEF JobsTyped, JobTyped

LEMMA JobIsAddedTyped ==
  ASSUME JobsOK, JobsTyped, NEW by \in Callers, NEW kind \in Kinds,
         NEW path \in Paths, NEW content \in Bytes,
         NEW cmd \in Commands \cup {NoCommand},
         Submit(by, kind, path, content, cmd)
  PROVE  JobsTyped'
<1>1. PICK new : new = NewJob(by, kind, path, content, cmd)
  OBVIOUS
<1>2. JobTyped(new)
  BY <1>1 DEF NewJob, JobTyped, JobState
<1>3. jobs' = Append(jobs, new)
  BY <1>1 DEF Submit
<1>4. \A n \in DOMAIN jobs' : jobs'[n] = new \/ (n \in DOMAIN jobs /\ jobs'[n] = jobs[n])
  <2>1. /\ DOMAIN jobs' = DOMAIN jobs \cup {Len(jobs) + 1}
        /\ jobs'[Len(jobs) + 1] = new /\ Grows
    BY <1>1, JobIsAdded
  <2>2. \A n \in DOMAIN jobs : jobs'[n] = jobs[n]
    BY <1>3 DEF JobsOK
  <2> QED BY <2>1, <2>2
<1>5. \A n \in DOMAIN jobs' : JobTyped(jobs'[n])
  BY <1>2, <1>4 DEF JobsTyped
<1> QED BY <1>5 DEF JobsTyped, JobTyped

LEMMA JobsAreLostTyped ==
  ASSUME JobsOK, JobsTyped, NEW by, LoseJobs(by)
  PROVE  JobsTyped'
<1>1. /\ DOMAIN jobs' = DOMAIN jobs
      /\ \A n \in DOMAIN jobs :
           jobs'[n] = IF jobs[n].by = by /\ jobs[n].state \notin Over
                      THEN [jobs[n] EXCEPT !.state = "lost"] ELSE jobs[n]
  BY DEF LoseJobs
<1>2. \A n \in DOMAIN jobs : JobTyped(jobs'[n])
  <2> TAKE n \in DOMAIN jobs
  <2>1. IsJob(jobs[n]) /\ JobTyped(jobs[n])
    BY DEF JobsOK, JobsTyped
  <2>2. JobTyped([jobs[n] EXCEPT !.state = "lost"])
    BY <2>1 DEF IsJob, Fields, JobTyped, JobState
  <2> QED BY <1>1, <2>1, <2>2
<1>3. \A n \in DOMAIN jobs' : JobTyped(jobs'[n])
  BY <1>1, <1>2
<1> QED BY <1>3 DEF JobsTyped, JobTyped

LEMMA JobsStayTyped ==
  ASSUME JobsTyped, jobs' = jobs
  PROVE  JobsTyped'
BY DEF JobsTyped, JobTyped

LEMMA HostStepTyped ==
  ASSUME JobsOK, HostTyped, NEW i \in DOMAIN jobs, JobStep(i) \/ FsError(i),
         crew' = crew
  PROVE  HostTyped'
<1> DEFINE j == jobs[i]
           DiskTyped == disk \in [Inside -> Bytes \cup {Absent}]
<1>0. IsJob(j) /\ JobTyped(j) /\ JobsTyped /\ DiskTyped
  BY DEF JobsOK, HostTyped, JobsTyped
<1>1. ASSUME NEW k, JobTyped(k), jobs' = [jobs EXCEPT ![i] = k], DiskTyped'
      PROVE  HostTyped'
  <2>1. JobsTyped'
    BY <1>0, <1>1, JobGoesOnTyped
  <2> QED BY <1>1, <2>1 DEF HostTyped
<1>2. ASSUME NEW state \in JobState, Finish(i, state), DiskTyped',
             j.kind = "read" => state \notin {"open", "answered"}
      PROVE  HostTyped'
  <2> DEFINE k == [j EXCEPT !.state = state]
  <2>1. jobs' = [jobs EXCEPT ![i] = k]
    BY <1>2 DEF Finish
  <2>2. JobTyped(k)
    BY <1>0, <1>2 DEF IsJob, Fields, JobTyped
  <2> HIDE DEF k
  <2> QED BY <1>1, <1>2, <2>1, <2>2
<1>3. Present \in SUBSET Inside
  BY DEF Present
<1>4. j.state = "received" /\ ~Refused(j) => j.path \in Inside
  BY <1>0 DEF Refused, JobTyped, Inside
<1>5. CASE UNCHANGED disk
  <2>0. DiskTyped'
    BY <1>0, <1>5
  <2>1. CASE Refuse(i) \/ SearchEnd(i) \/ Spawn(i) \/ Kill(i) \/ Close(i) \/ FsError(i)
    <3>1. PICK state \in JobState :
            Finish(i, state) /\ (j.kind = "read" => state \notin {"open", "answered"})
      BY <2>1 DEF Refuse, SearchEnd, Spawn, Kill, Close, FsError, Is, JobState
    <3> QED BY <1>2, <2>0, <3>1
  <2>2. CASE List(i)
    <3> DEFINE k == [j EXCEPT !.state = "answered", !.found = Present]
    <3>1. jobs' = [jobs EXCEPT ![i] = k] /\ j.kind = "list"
      BY <2>2 DEF List, Is
    <3>2. JobTyped(k)
      BY <1>0, <1>3, <3>1 DEF IsJob, Fields, JobTyped, JobState
    <3> HIDE DEF k
    <3> QED BY <1>1, <2>0, <3>1, <3>2
  <2>3. CASE ReadStat(i)
    <3>1. CASE disk[j.path] = Absent
      <4>1. Finish(i, "failed") /\ "failed" \in JobState
        BY <2>3, <3>1 DEF ReadStat, JobState
      <4> QED BY <1>2, <2>0, <4>1
    <3>2. CASE disk[j.path] # Absent
      <4> DEFINE k == [j EXCEPT !.state = "open", !.seen = disk[j.path]]
      <4>1. jobs' = [jobs EXCEPT ![i] = k] /\ j.path \in Inside
        BY <1>4, <2>3, <3>2 DEF ReadStat, Is
      <4>2. disk[j.path] \in Bytes
        BY <1>0, <3>2, <4>1
      <4>3. JobTyped(k)
        BY <1>0, <4>2 DEF IsJob, Fields, JobTyped, JobState
      <4> HIDE DEF k
      <4> QED BY <1>1, <2>0, <4>1, <4>3
    <3> QED BY <3>1, <3>2
  <2>4. CASE ReadBytes(i)
    <3>1. PICK bytes \in BytesRead(j.seen, disk[j.path]) :
            jobs' = [jobs EXCEPT ![i].state = "answered", ![i].seen = bytes]
      BY <2>4 DEF ReadBytes
    <3>2. j.seen \in Bytes
      BY <1>0, <2>4 DEF ReadBytes, Is, JobTyped
    <3>3. bytes \in Bytes
      BY <3>1, <3>2 DEF BytesRead, Bytes, Files
    <3> DEFINE k == [j EXCEPT !.state = "answered", !.seen = bytes]
    <3>4. jobs' = [jobs EXCEPT ![i] = k]
      BY <3>1
    <3>5. JobTyped(k)
      BY <1>0, <3>3 DEF IsJob, Fields, JobTyped, JobState
    <3> HIDE DEF k
    <3> QED BY <1>1, <2>0, <3>4, <3>5
  <2>5. CASE WriteStat(i)
    <3> DEFINE k == [j EXCEPT !.state = "statted", !.seen = disk[j.path]]
    <3>1. /\ jobs' = [jobs EXCEPT ![i] = k] /\ j.path \in Inside
          /\ j.kind = "write"
      BY <1>4, <2>5 DEF WriteStat, Is
    <3>2. disk[j.path] \in Bytes \cup {Absent}
      BY <1>0, <3>1
    <3>3. JobTyped(k)
      BY <1>0, <3>1, <3>2 DEF IsJob, Fields, JobTyped, JobState
    <3> HIDE DEF k
    <3> QED BY <1>1, <2>0, <3>1, <3>3
  <2>6. CASE SearchStart(i)
    <3> DEFINE k == [j EXCEPT !.state = "walking", !.todo = Present]
    <3>1. jobs' = [jobs EXCEPT ![i] = k]
      BY <2>6 DEF SearchStart
    <3>2. JobTyped(k)
      BY <1>0, <1>3 DEF IsJob, Fields, JobTyped, JobState
    <3> HIDE DEF k
    <3> QED BY <1>1, <2>0, <3>1, <3>2
  <2>7. CASE SearchFile(i)
    <3>1. PICK p \in j.todo, match \in BOOLEAN :
            jobs' = [jobs EXCEPT ![i].todo = @ \ {p},
                                 ![i].found = IF match THEN @ \cup {p} ELSE @]
      BY <2>7 DEF SearchFile
    <3> DEFINE k == [j EXCEPT !.todo = @ \ {p},
                              !.found = IF match THEN @ \cup {p} ELSE @]
    <3>2. jobs' = [jobs EXCEPT ![i] = k]
      BY <3>1
    <3>3. p \in Inside /\ j.kind = "search"
      BY <1>0, <2>7, <3>1 DEF JobTyped, SearchFile, Is
    <3>4. JobTyped(k)
      BY <1>0, <3>3 DEF IsJob, Fields, JobTyped
    <3> HIDE DEF k
    <3> QED BY <1>1, <2>0, <3>2, <3>4
  <2>8. CASE WriteOpen(i)
    <3>1. Finish(i, "open") /\ "open" \in JobState /\ j.kind = "write"
      BY <2>8 DEF WriteOpen, Is, JobState
    <3> QED BY <1>2, <2>0, <3>1
  <2>9. CASE WriteBytes(i)
    <3> DEFINE k == [j EXCEPT !.state = "answered", !.landed = TRUE]
    <3>1. jobs' = [jobs EXCEPT ![i] = k] /\ j.kind = "write"
      BY <2>9 DEF WriteBytes, Is
    <3>2. JobTyped(k)
      BY <1>0, <3>1 DEF IsJob, Fields, JobTyped, JobState
    <3> HIDE DEF k
    <3> QED BY <1>1, <2>0, <3>1, <3>2
  <2> QED BY <2>1, <2>2, <2>3, <2>4, <2>5, <2>6, <2>7, <2>8, <2>9 DEF JobStep
<1>6. CASE WriteOpen(i)
  <2>1. Finish(i, "open") /\ "open" \in JobState /\ j.kind = "write"
    BY <1>6 DEF WriteOpen, Is, JobState
  <2>2. disk' = [disk EXCEPT ![j.path] = Empty] /\ Empty \in Bytes
    BY <1>6 DEF WriteOpen, Bytes, Files
  <2>3. DiskTyped'
    BY <1>0, <2>2
  <2> QED BY <1>2, <2>1, <2>3
<1>7. CASE WriteBytes(i)
  <2> DEFINE k == [j EXCEPT !.state = "answered", !.landed = TRUE]
  <2>1. jobs' = [jobs EXCEPT ![i] = k] /\ j.kind = "write"
    BY <1>7 DEF WriteBytes, Is
  <2>2. JobTyped(k)
    BY <1>0, <2>1 DEF IsJob, Fields, JobTyped, JobState
  <2>3. PICK bytes \in Overwritten(disk[j.path], j.content) :
          disk' = [disk EXCEPT ![j.path] = bytes]
    BY <1>7 DEF WriteBytes
  <2>4. ASSUME j.path \in Inside
        PROVE  DiskTyped'
    <3>1. disk[j.path] \in Bytes \cup {Absent} /\ j.content \in Bytes
      BY <1>0, <2>4 DEF JobTyped
    <3>2. bytes \in Bytes \cup {Absent}
      BY <2>3, <3>1 DEF Overwritten, Bytes
    <3> QED BY <1>0, <2>3, <3>2
  <2>5. ASSUME j.path \notin Inside
        PROVE  DiskTyped'
    BY <1>0, <2>3, <2>5
  <2>6. DiskTyped'
    BY <2>4, <2>5
  <2> HIDE DEF k
  <2> QED BY <1>1, <2>1, <2>2, <2>6
<1>8. UNCHANGED disk \/ WriteOpen(i) \/ WriteBytes(i)
  BY DEF JobStep, Refuse, List, ReadStat, ReadBytes, WriteStat, SearchStart,
         SearchFile, SearchEnd, Spawn, Kill, Close, FsError
<1> QED BY <1>5, <1>6, <1>7, <1>8
-----------------------------------------------------------------------------
(* The types of the chats.  A wait for a further attempt has one left, and *)
(* the text of a round is within the bound on what a model emits.          *)
LinksTyped == ConnectionTypeOK
              /\ \A c \in Chats : link[c] = "backoff" => attempt[c] < MaxAttempts

RoundsTyped ==
  /\ round \in [Chats -> 0 .. MaxRounds]
  /\ text \in [Chats -> Seq(Pieces)]
  /\ \A c \in Chats : Len(text[c]) <= MaxPieces
  /\ shown \in [Chats -> 0 .. MaxPieces]
  /\ mode \in [Chats -> Modes]
  /\ calls \in [Chats -> Seq(ToolCalls)]
  /\ structured \in [Chats -> BOOLEAN]
  /\ recovered \in [Chats -> BOOLEAN]
  /\ next \in [Chats -> Nat \ {0}]

LEMMA LinkChanges ==
  ASSUME LinksTyped, NEW c \in Chats, NEW to \in Link,
         link' = [link EXCEPT ![c] = to],
         to = "backoff" => attempt'[c] < MaxAttempts,
         \/ attempt' = attempt
         \/ \E n \in 0 .. MaxAttempts : attempt' = [attempt EXCEPT ![c] = n],
         failures' \in [Providers -> Nat], circuit' \in [Providers -> Circuit],
         stopped' = stopped
  PROVE  LinksTyped'
<1>1. /\ link \in [Chats -> Link] /\ attempt \in [Chats -> 0 .. MaxAttempts]
      /\ stopped \in [Chats -> BOOLEAN]
      /\ \A d \in Chats : link[d] = "backoff" => attempt[d] < MaxAttempts
  BY DEF LinksTyped, ConnectionTypeOK
<1>2. attempt' \in [Chats -> 0 .. MaxAttempts]
  BY <1>1
<1>3. link' \in [Chats -> Link]
  BY <1>1
<1>4. \A d \in Chats : link'[d] = "backoff" => attempt'[d] < MaxAttempts
  <2> TAKE d \in Chats
  <2>1. CASE d = c
    BY <1>1, <2>1
  <2>2. CASE d # c
    <3>1. link'[d] = link[d] /\ attempt'[d] = attempt[d]
      BY <1>1, <2>2
    <3> QED BY <1>1, <3>1
  <2> QED BY <2>1, <2>2
<1> QED BY <1>1, <1>2, <1>3, <1>4 DEF LinksTyped, ConnectionTypeOK

LEMMA Recorded ==
  ASSUME LinksTyped, NEW p \in Providers,
         RecordFailure(p) \/ RecordSuccess(p) \/ Unrecorded
  PROVE  failures' \in [Providers -> Nat] /\ circuit' \in [Providers -> Circuit]
<1>1. failures \in [Providers -> Nat] /\ circuit \in [Providers -> Circuit]
  BY DEF LinksTyped, ConnectionTypeOK
<1>2. CASE RecordFailure(p)
  BY <1>1, <1>2 DEF RecordFailure, Circuit
<1>3. CASE RecordSuccess(p)
  BY <1>1, <1>3 DEF RecordSuccess, Circuit
<1>4. CASE Unrecorded
  BY <1>1, <1>4 DEF Unrecorded
<1> QED BY <1>2, <1>3, <1>4

LEMMA ConnectionStepTyped ==
  ASSUME LinksTyped, NEW c \in Chats, ConnectionStep(c)
  PROVE  LinksTyped'
<1> DEFINE p == ProviderOf[c]
<1>1. /\ p \in Providers /\ 1 \in 0 .. MaxAttempts /\ MaxAttempts \in Nat \ {0}
      /\ link \in [Chats -> Link] /\ attempt \in [Chats -> 0 .. MaxAttempts]
  BY ProviderConnectionAssumption DEF LinksTyped, ConnectionTypeOK
<1> USE DEF Goto, Link
<1>2. CASE Blocked(c) \/ Transient(c) \/ HaltConnecting(c) \/ BridgeBody(c)
  <2>1. PICK to \in Link :
          /\ link' = [link EXCEPT ![c] = to]
          /\ to = "backoff" => attempt[c] < MaxAttempts
          /\ UNCHANGED <<failures, circuit, attempt, stopped>>
    BY <1>2 DEF Blocked, Transient, HaltConnecting, BridgeBody, CodexEvent,
                ClaudeEvent
  <2>2. Unrecorded
    BY <2>1 DEF Unrecorded
  <2>3. failures' \in [Providers -> Nat] /\ circuit' \in [Providers -> Circuit]
    BY <1>1, <2>2, Recorded
  <2> QED BY <2>1, <2>3, LinkChanges
<1>3. CASE Begin(c)
  <2>1. /\ RecordSuccess(p) \/ Unrecorded
        /\ link' = [link EXCEPT ![c] = "connecting"]
        /\ attempt' = [attempt EXCEPT ![c] = 1] /\ stopped' = stopped
    BY <1>3 DEF Begin, Dial
  <2>2. failures' \in [Providers -> Nat] /\ circuit' \in [Providers -> Circuit]
    BY <1>1, <2>1, Recorded
  <2> QED BY <1>1, <2>1, <2>2, LinkChanges
<1>4. CASE Connect(c) \/ Reject(c) \/ Unreachable(c)
  <2>1. PICK to \in {"connected", "errored"} :
          /\ RecordFailure(p) \/ RecordSuccess(p) \/ Unrecorded
          /\ link' = [link EXCEPT ![c] = to]
          /\ UNCHANGED <<attempt, stopped>>
    BY <1>4 DEF Connect, Reject, Unreachable
  <2>2. failures' \in [Providers -> Nat] /\ circuit' \in [Providers -> Circuit]
    BY <1>1, <2>1, Recorded
  <2>3. to \in Link /\ to # "backoff"
    OBVIOUS
  <2> QED BY <2>1, <2>2, <2>3, LinkChanges
<1>5. CASE Redial(c)
  <2>1. /\ link[c] = "backoff" /\ link' = [link EXCEPT ![c] = "connecting"]
        /\ attempt' = [attempt EXCEPT ![c] = attempt[c] + 1]
        /\ UNCHANGED <<failures, circuit, stopped>>
    BY <1>5 DEF Redial
  <2>2. attempt[c] + 1 \in 0 .. MaxAttempts
    BY <1>1, <2>1 DEF LinksTyped
  <2>3. failures' \in [Providers -> Nat] /\ circuit' \in [Providers -> Circuit]
    BY <2>1 DEF LinksTyped, ConnectionTypeOK
  <2> QED BY <2>1, <2>2, <2>3, LinkChanges
<1> QED BY <1>2, <1>3, <1>4, <1>5 DEF ConnectionStep

LEMMA LinkMoves ==
  ASSUME LinksTyped, NEW c \in Chats, NEW to \in Link, to # "backoff",
         Goto(c, to), UNCHANGED <<failures, circuit, stopped>>,
         attempt' = attempt \/ attempt' = [attempt EXCEPT ![c] = 1]
  PROVE  LinksTyped'
<1>1. /\ failures' \in [Providers -> Nat] /\ circuit' \in [Providers -> Circuit]
      /\ 1 \in 0 .. MaxAttempts
  BY ProviderConnectionAssumption DEF LinksTyped, ConnectionTypeOK
<1> QED BY <1>1, LinkChanges DEF Goto

LEMMA LinksStayTyped ==
  ASSUME LinksTyped, UNCHANGED connectionVars
  PROVE  LinksTyped'
BY DEF LinksTyped, ConnectionTypeOK, connectionVars

LEMMA TurnStepLinks ==
  ASSUME LinksTyped, NEW c \in Chats, TurnStep(c)
  PROVE  LinksTyped'
<1>1. CASE EmitText(c) \/ EmitCall(c) \/ Execute(c) \/ Decline(c) \/ Answer(c) \/ GiveUp(c)
  BY <1>1, LinksStayTyped DEF EmitText, EmitCall, Execute, Decline, Answer,
                              GiveUp, Report
<1>2. CASE EndRound(c) \/ BreakRound(c) \/ HaltBetweenCalls(c) \/ NextRound(c)
  <2>1. PICK to \in {"done", "tools", "halted", "errored", "connecting"} :
          /\ Goto(c, to) /\ UNCHANGED <<failures, circuit, stopped>>
          /\ attempt' = attempt \/ attempt' = [attempt EXCEPT ![c] = 1]
    BY <1>2 DEF EndRound, BreakRound, HaltBetweenCalls, NextRound, Dial
  <2>2. to \in Link /\ to # "backoff"
    BY DEF Link
  <2> QED BY <2>1, <2>2, LinkMoves
<1>3. CASE Connection(c)
  BY <1>3, ConnectionStepTyped DEF Connection
<1> QED BY <1>1, <1>2, <1>3 DEF TurnStep

LEMMA OutsideLinks ==
  ASSUME LinksTyped, Outside
  PROVE  LinksTyped'
<1>1. CASE \E c \in Chats : Stop(c)
  BY <1>1 DEF LinksTyped, ConnectionTypeOK, Stop
<1>2. CASE \E p \in Providers : Cool(p)
  BY <1>2 DEF LinksTyped, ConnectionTypeOK, Cool, Circuit
<1> QED BY <1>1, <1>2 DEF Outside

LEMMA RoundsStayTyped ==
  ASSUME RoundsTyped, UNCHANGED <<round, roundVars, next>>
  PROVE  RoundsTyped'
BY DEF RoundsTyped, roundVars

LEMMA TurnStepRounds ==
  ASSUME RoundsTyped, NEW c \in Chats, TurnStep(c)
  PROVE  RoundsTyped'
<1>0. /\ text[c] \in Seq(Pieces) /\ calls[c] \in Seq(ToolCalls)
      /\ Len(text[c]) \in Nat /\ Len(calls[c]) \in Nat /\ MaxPieces \in Nat
      /\ MaxRounds \in Nat \ {0}
  BY ToolTurnAssumption DEF RoundsTyped
<1>1. CASE EmitText(c)
  <2>1. PICK piece \in Pieces, decided \in Modes :
          /\ text' = [text EXCEPT ![c] = Append(text[c], piece)]
          /\ mode' = [mode EXCEPT ![c] = decided]
          /\ \/ shown' = [shown EXCEPT ![c] = Len(text[c]) + 1]
             \/ shown' = shown
    BY <1>1 DEF EmitText, RoundsTyped, Modes
  <2>2. UNCHANGED <<round, calls, structured, recovered, next>>
    BY <1>1 DEF EmitText
  <2>3. Len(text[c]) < MaxPieces
    <3>1. PICK more \in Nat : Emitted(c) = Len(text[c]) + more
      <4>1. CASE structured[c]
        BY <1>0, <4>1 DEF Emitted
      <4>2. CASE ~structured[c]
        BY <4>2 DEF Emitted
      <4> QED BY <4>1, <4>2
    <3>2. Emitted(c) < MaxPieces
      BY <1>1 DEF EmitText
    <3> HIDE DEF Emitted
    <3> QED BY <1>0, <3>1, <3>2
  <2>4. Append(text[c], piece) \in Seq(Pieces) /\ Len(Append(text[c], piece)) = Len(text[c]) + 1
    BY <1>0
  <2>5. Len(text[c]) + 1 \in 0 .. MaxPieces
    BY <1>0, <2>3
  <2>6. /\ text' \in [Chats -> Seq(Pieces)]
        /\ \A d \in Chats : Len(text'[d]) <= MaxPieces
    BY <2>1, <2>4, <2>5 DEF RoundsTyped
  <2>7. shown' \in [Chats -> 0 .. MaxPieces] /\ mode' \in [Chats -> Modes]
    BY <2>1, <2>5 DEF RoundsTyped
  <2> QED BY <2>2, <2>6, <2>7 DEF RoundsTyped
<1>2. CASE EmitCall(c)
  <2>1. PICK call \in ToolCalls : calls' = [calls EXCEPT ![c] = Append(calls[c], call)]
    BY <1>2 DEF EmitCall
  <2>2. /\ structured' = [structured EXCEPT ![c] = TRUE]
        /\ UNCHANGED <<round, text, shown, mode, recovered, next>>
    BY <1>2 DEF EmitCall
  <2>3. Append(calls[c], call) \in Seq(ToolCalls)
    BY <1>0
  <2>4. calls' \in [Chats -> Seq(ToolCalls)] /\ structured' \in [Chats -> BOOLEAN]
    BY <2>1, <2>2, <2>3 DEF RoundsTyped
  <2> QED BY <2>2, <2>4 DEF RoundsTyped
<1>3. CASE EndRound(c)
  <2>1. PICK parsed \in ParseTextToolCalls(text[c]), recover \in BOOLEAN :
          /\ calls' = [calls EXCEPT ![c] = IF recover THEN parsed ELSE calls[c]]
          /\ recovered' = [recovered EXCEPT ![c] = recover]
          /\ shown' = [shown EXCEPT ![c] = IF recover THEN shown[c]
                                           ELSE Len(text[c])]
    BY <1>3 DEF EndRound, TakesText
  <2>2. /\ next' = [next EXCEPT ![c] = 1]
        /\ UNCHANGED <<round, text, mode, structured>>
    BY <1>3 DEF EndRound
  <2>3. parsed \in Seq(ToolCalls)
    BY <1>0, <2>1, ParsedTyped
  <2>4. Len(text[c]) \in 0 .. MaxPieces /\ shown[c] \in 0 .. MaxPieces
    BY <1>0 DEF RoundsTyped
  <2>5. /\ calls' \in [Chats -> Seq(ToolCalls)]
        /\ recovered' \in [Chats -> BOOLEAN]
        /\ shown' \in [Chats -> 0 .. MaxPieces] /\ next' \in [Chats -> Nat \ {0}]
    BY <1>0, <2>1, <2>2, <2>3, <2>4 DEF RoundsTyped
  <2> QED BY <2>2, <2>5 DEF RoundsTyped
<1>4. CASE BreakRound(c) \/ HaltBetweenCalls(c) \/ Execute(c)
  BY <1>4, RoundsStayTyped DEF BreakRound, HaltBetweenCalls, Execute, turnVars,
                               roundVars
<1>5. CASE Decline(c) \/ Answer(c) \/ GiveUp(c)
  <2>1. next' = [next EXCEPT ![c] = next[c] + 1] /\ UNCHANGED <<round, roundVars>>
    BY <1>5 DEF Decline, Answer, GiveUp, Report
  <2>2. next' \in [Chats -> Nat \ {0}]
    BY <2>1 DEF RoundsTyped
  <2> QED BY <2>1, <2>2 DEF RoundsTyped, roundVars
<1>6. CASE NextRound(c)
  <2>1. \/ /\ round[c] < MaxRounds
           /\ round' = [round EXCEPT ![c] = round[c] + 1]
        \/ round' = round
    BY <1>6 DEF NextRound, RoundsLeft
  <2>2. round' \in [Chats -> 0 .. MaxRounds]
    <3>1. round \in [Chats -> 0 .. MaxRounds] /\ MaxRounds \in Nat
      BY <1>0 DEF RoundsTyped
    <3>2. round[c] < MaxRounds => round[c] + 1 \in 0 .. MaxRounds
      BY <3>1
    <3> QED BY <2>1, <3>1, <3>2
  <2>3. /\ text' = [text EXCEPT ![c] = <<>>]
        /\ shown' = [shown EXCEPT ![c] = 0]
        /\ mode' = [mode EXCEPT ![c] = IF mode[c] = "inert" THEN mode[c]
                                       ELSE "undecided"]
        /\ calls' = [calls EXCEPT ![c] = <<>>]
        /\ structured' = [structured EXCEPT ![c] = FALSE]
        /\ recovered' = [recovered EXCEPT ![c] = FALSE]
        /\ next' = [next EXCEPT ![c] = 1]
    BY <1>6 DEF NextRound
  <2>4. <<>> \in Seq(Pieces) /\ <<>> \in Seq(ToolCalls) /\ Len(<<>>) = 0
    OBVIOUS
  <2>5. /\ text' \in [Chats -> Seq(Pieces)]
        /\ \A d \in Chats : Len(text'[d]) <= MaxPieces
    BY <1>0, <2>3, <2>4 DEF RoundsTyped
  <2>6. /\ shown' \in [Chats -> 0 .. MaxPieces] /\ mode' \in [Chats -> Modes]
        /\ calls' \in [Chats -> Seq(ToolCalls)]
    BY <1>0, <2>3, <2>4 DEF RoundsTyped, Modes
  <2>7. /\ structured' \in [Chats -> BOOLEAN] /\ recovered' \in [Chats -> BOOLEAN]
        /\ next' \in [Chats -> Nat \ {0}]
    BY <2>3 DEF RoundsTyped
  <2> QED BY <2>2, <2>5, <2>6, <2>7 DEF RoundsTyped
<1>7. CASE Connection(c)
  <2>1. round' = [round EXCEPT ![c] = 1] \/ round' = round
    BY <1>7 DEF Connection, RoundsTyped
  <2>2. round' \in [Chats -> 0 .. MaxRounds]
    <3>1. round \in [Chats -> 0 .. MaxRounds] /\ 1 \in 0 .. MaxRounds
      BY <1>0 DEF RoundsTyped
    <3> QED BY <2>1, <3>1
  <2>3. mode' \in [Chats -> Modes]
    BY <1>7 DEF RoundsTyped, Connection, Modes
  <2> QED BY <1>7, <2>2, <2>3 DEF RoundsTyped, Connection
<1> QED BY <1>1, <1>2, <1>3, <1>4, <1>5, <1>6, <1>7 DEF TurnStep

(* What a chat submits is a call of a tool with arguments of their types.  *)
LEMMA TurnStepJobsTyped ==
  ASSUME JobsOK, JobsTyped, RoundsTyped, NEW c \in Chats, TurnStep(c)
  PROVE  JobsTyped' /\ disk' = disk
<1>1. CASE Execute(c)
  <2>1. PICK call : call = calls[c][next[c]]
    OBVIOUS
  <2>2. /\ Submit(c, call.kind, call.path, call.content, call.command)
        /\ next[c] <= Len(calls[c]) /\ call.kind \in Kinds /\ Readable(call)
        /\ disk' = disk
    BY <1>1, <2>1 DEF Execute, MayCall, AtCall, Acceptable
  <2>3. call \in ToolCalls
    BY <2>1, <2>2 DEF RoundsTyped
  <2>4. /\ call.path \in Paths /\ call.content \in Bytes
        /\ call.command \in Commands \cup {NoCommand}
    BY <2>2, <2>3, WorkbenchAssumption DEF ReadableByAgent
  <2>5. c \in Callers
    BY WorkbenchAssumption
  <2>6. call.kind \in Kinds
    BY <2>2
  <2> QED BY <2>2, <2>4, <2>5, <2>6, JobIsAddedTyped
<1>2. CASE ~Execute(c)
  <2>1. jobs' = jobs /\ disk' = disk
    <3>1. CASE \/ EmitText(c) \/ EmitCall(c) \/ EndRound(c) \/ BreakRound(c)
               \/ HaltBetweenCalls(c) \/ Decline(c)
      BY <3>1 DEF EmitText, EmitCall, EndRound, BreakRound, HaltBetweenCalls,
                  Decline, hostVars
    <3>2. CASE Answer(c) \/ GiveUp(c) \/ NextRound(c) \/ Connection(c)
      BY <3>2 DEF Answer, GiveUp, Report, NextRound, Connection, hostVars
    <3> QED BY <1>2, <3>1, <3>2 DEF TurnStep
  <2> QED BY <2>1, JobsStayTyped
<1> QED BY <1>1, <1>2
-----------------------------------------------------------------------------
(* The types of the tasks.  The call whose operation is awaited is still   *)
(* at the head of those to run.                                            *)
AgentsTyped ==
  /\ timedOut \in [Tasks -> BOOLEAN] /\ child \in [Tasks -> Child]
  /\ turn \in [Tasks -> 0 .. MaxTurns] /\ retries \in [Tasks -> 0 .. MaxRetries]
  /\ todo \in [Tasks -> Seq(ToolCalls)] /\ job \in [Tasks -> Nat]
  /\ \A t \in Tasks : job[t] # 0 => todo[t] # <<>> /\ job[t] \in DOMAIN jobs

LEMMA AgentsRely ==
  ASSUME Grows, AgentsTyped,
         UNCHANGED <<timedOut, child, turn, retries, todo, job>>
  PROVE  AgentsTyped'
<1>1. \A i \in DOMAIN jobs : i \in DOMAIN jobs'
  BY DEF Grows
<1> QED BY <1>1 DEF AgentsTyped

(* A task takes another turn, or has no further one.                       *)
LEMMA TurnsTyped ==
  ASSUME AgentsTyped, NEW t \in Tasks, NextTurn(t) \/ turn' = turn
  PROVE  turn' \in [Tasks -> 0 .. MaxTurns]
<1>1. turn \in [Tasks -> 0 .. MaxTurns] /\ MaxTurns \in Nat
  BY LocalAgentAssumption DEF AgentsTyped
<1>2. CASE turn' = turn
  BY <1>1, <1>2
<1>3. CASE turn' # turn
  <2>1. turn[t] < MaxTurns /\ turn' = [turn EXCEPT ![t] = turn[t] + 1]
    BY <1>3 DEF NextTurn
  <2>2. turn[t] + 1 \in 0 .. MaxTurns
    BY <1>1, <2>1
  <2> QED BY <1>1, <2>1, <2>2
<1> QED BY <1>2, <1>3

LEMMA ChatOnceTyped ==
  ASSUME AgentsTyped, NEW t \in Tasks, ChatOnce(t)
  PROVE  AgentsTyped'
<1>1. /\ todo \in [Tasks -> Seq(ToolCalls)] /\ retries \in [Tasks -> 0 .. MaxRetries]
      /\ MaxReply \in Nat /\ MaxRetries \in Nat
  BY LocalAgentAssumption DEF AgentsTyped
<1>2. UNCHANGED <<timedOut, child, job, jobs>>
  BY DEF ChatOnce, commandVars, hostVars
<1>3. ASSUME NEW found \in Seq(ToolCalls), found # <<>>, RunCalls(t, found)
      PROVE  AgentsTyped'
  <2>1. todo' = [todo EXCEPT ![t] = found] /\ UNCHANGED <<turn, retries>>
    BY <1>3 DEF RunCalls
  <2>2. todo' \in [Tasks -> Seq(ToolCalls)]
    BY <1>1, <2>1
  <2>3. \A d \in Tasks : job[d] # 0 => todo'[d] # <<>> /\ job[d] \in DOMAIN jobs
    BY <1>1, <1>3, <2>1 DEF AgentsTyped
  <2> QED BY <1>2, <2>1, <2>2, <2>3 DEF AgentsTyped
<1>4. ASSUME NEW reply, ReplyWithoutCalls(t, reply)
      PROVE  AgentsTyped'
  <2>1. /\ todo' = todo
        /\ \/ /\ retries[t] < MaxRetries /\ NextTurn(t)
              /\ retries' = [retries EXCEPT ![t] = retries[t] + 1]
           \/ UNCHANGED <<turn, retries>>
    BY <1>4 DEF ReplyWithoutCalls
  <2>2. turn' \in [Tasks -> 0 .. MaxTurns]
    BY <2>1, TurnsTyped
  <2>3. retries' \in [Tasks -> 0 .. MaxRetries]
    <3>1. retries[t] < MaxRetries => retries[t] + 1 \in 0 .. MaxRetries
      BY <1>1
    <3> QED BY <1>1, <2>1, <3>1
  <2> QED BY <1>2, <2>1, <2>2, <2>3 DEF AgentsTyped
<1>5. CASE \E found \in StructuredCalls : RunCalls(t, found)
  <2>0. PICK found \in StructuredCalls : RunCalls(t, found)
    BY <1>5
  <2>1. PICK n \in 1 .. MaxReply : found \in [1 .. n -> ToolCalls]
    BY DEF StructuredCalls
  <2>2. found \in Seq(ToolCalls) /\ Len(found) = n
    BY <1>1, <2>1
  <2>3. found # <<>>
    BY <2>1, <2>2
  <2> QED BY <1>3, <2>0, <2>2, <2>3
<1>6. CASE \E reply \in Replies : \E found \in ParseTextToolCalls(reply) :
             IF found # <<>> THEN RunCalls(t, found) ELSE ReplyWithoutCalls(t, reply)
  <2>0. PICK reply \in Replies : \E found \in ParseTextToolCalls(reply) :
          IF found # <<>> THEN RunCalls(t, found) ELSE ReplyWithoutCalls(t, reply)
    BY <1>6
  <2>1. PICK found \in ParseTextToolCalls(reply) :
          IF found # <<>> THEN RunCalls(t, found) ELSE ReplyWithoutCalls(t, reply)
    BY <2>0
  <2>2. reply \in Seq(Pieces)
    <3>1. PICK n \in 0 .. MaxReply : reply \in [1 .. n -> Pieces]
      BY DEF Replies
    <3> QED BY <1>1, <3>1
  <2>3. found \in Seq(ToolCalls)
    BY <2>1, <2>2, ParsedTyped
  <2> QED BY <1>3, <1>4, <2>1, <2>3
<1> QED BY <1>5, <1>6 DEF ChatOnce

LEMMA TaskStepTyped ==
  ASSUME JobsOK, JobsTyped, AgentsTyped, NEW t \in Tasks, TaskAction(t)
  PROVE  AgentsTyped' /\ JobsTyped' /\ disk' = disk
<1>1. CASE Launch(t) \/ RefuseLaunch(t) \/ CommandStep(t) \/ Interrupt(t)
  <2>1. UNCHANGED <<jobs, disk, turn, retries, todo, job>>
    BY <1>1 DEF Launch, RefuseLaunch, CommandStep, CallTool, PrintResult,
                TimeOut, End, Interrupt, agentVars, hostVars
  <2>2. child' \in [Tasks -> Child]
    BY <1>1 DEF Launch, RefuseLaunch, CommandStep, CallTool, PrintResult,
                TimeOut, End, Interrupt, AgentsTyped, Child
  <2>3. timedOut' \in [Tasks -> BOOLEAN]
    BY <1>1 DEF Launch, RefuseLaunch, CommandStep, CallTool, PrintResult,
                TimeOut, End, Interrupt, AgentsTyped
  <2> QED BY <2>1, <2>2, <2>3, JobsStayTyped DEF AgentsTyped
<1>2. CASE RefuseTask(t) \/ PickModel(t) \/ EnterLoop(t) \/ ChatFails(t) \/ TurnEnds(t)
  <2>1. /\ UNCHANGED <<jobs, disk, timedOut, child, retries, todo, job>>
        /\ NextTurn(t) \/ turn' = turn
    BY <1>2 DEF RefuseTask, PickModel, EnterLoop, ChatFails, TurnEnds,
                commandVars, hostVars
  <2>2. turn' \in [Tasks -> 0 .. MaxTurns]
    BY <2>1, TurnsTyped
  <2> QED BY <2>1, <2>2, JobsStayTyped DEF AgentsTyped
<1>3. CASE ChatOnce(t)
  BY <1>3, ChatOnceTyped, JobsStayTyped DEF ChatOnce, hostVars
<1>4. CASE ServerExits(t)
  <2>1. JobsTyped' /\ Grows
    BY <1>4, JobsAreLostTyped, JobsAreLost DEF ServerExits
  <2>2. child' \in [Tasks -> Child]
    BY <1>4 DEF ServerExits, AgentsTyped, Child
  <2>3. UNCHANGED <<timedOut, turn, retries, todo, job, disk>>
    BY <1>4 DEF ServerExits
  <2>4. \A i \in DOMAIN jobs : i \in DOMAIN jobs'
    BY <2>1 DEF Grows
  <2> QED BY <2>1, <2>2, <2>3, <2>4 DEF AgentsTyped
<1>5. CASE RunTool(t)
  <2>1. /\ todo[t] # <<>> /\ job[t] = 0 /\ todo[t] \in Seq(ToolCalls)
        /\ todo \in [Tasks -> Seq(ToolCalls)] /\ job \in [Tasks -> Nat]
    BY <1>5 DEF RunTool, AgentsTyped
  <2>2. UNCHANGED <<timedOut, child, turn, retries, disk>>
    BY <1>5 DEF RunTool, commandVars
  <2>3. PICK call \in ToolCalls : call = Head(todo[t])
    BY <2>1
  <2>4. CASE UNCHANGED <<jobs, job>> /\ todo' = [todo EXCEPT ![t] = Tail(todo[t])]
    <3>1. Tail(todo[t]) \in Seq(ToolCalls)
      BY <2>1
    <3>2. todo' \in [Tasks -> Seq(ToolCalls)]
      BY <2>1, <2>4, <3>1
    <3>3. \A d \in Tasks : job'[d] # 0 => todo'[d] # <<>> /\ job'[d] \in DOMAIN jobs'
      BY <2>1, <2>4 DEF AgentsTyped
    <3> QED BY <2>2, <2>4, <3>2, <3>3, JobsStayTyped DEF AgentsTyped
  <2>5. CASE /\ call.kind \in Kinds /\ ReadableByAgent(call)
             /\ Submit(t, call.kind, call.path, call.content, call.command)
             /\ job' = [job EXCEPT ![t] = Len(jobs) + 1] /\ todo' = todo
    <3>1. /\ call.path \in Paths /\ call.content \in Bytes
          /\ call.command \in Commands \cup {NoCommand}
      BY <2>5, WorkbenchAssumption
    <3>2. t \in Callers /\ call.kind \in Kinds
      BY <2>5, WorkbenchAssumption
    <3>3. JobsTyped'
      BY <2>5, <3>1, <3>2, JobIsAddedTyped
    <3>4. /\ DOMAIN jobs' = DOMAIN jobs \cup {Len(jobs) + 1}
          /\ Len(jobs) + 1 \in Nat
      BY <2>5, JobIsAdded
    <3>5. job' \in [Tasks -> Nat]
      BY <2>1, <2>5, <3>4
    <3>6. \A d \in Tasks : job'[d] # 0 => todo'[d] # <<>> /\ job'[d] \in DOMAIN jobs'
      BY <2>1, <2>5, <3>4 DEF AgentsTyped
    <3> QED BY <2>2, <2>5, <3>3, <3>5, <3>6 DEF AgentsTyped
  <2> QED BY <1>5, <2>3, <2>4, <2>5 DEF RunTool
<1>6. CASE ToolEnds(t)
  <2>1. /\ todo[t] # <<>> /\ todo[t] \in Seq(ToolCalls)
        /\ todo \in [Tasks -> Seq(ToolCalls)] /\ job \in [Tasks -> Nat]
    BY <1>6 DEF ToolEnds, AgentsTyped
  <2>2. /\ UNCHANGED <<jobs, disk, timedOut, child, turn, retries>>
        /\ todo' = [todo EXCEPT ![t] = Tail(todo[t])]
        /\ job' = [job EXCEPT ![t] = 0]
    BY <1>6 DEF ToolEnds, commandVars, hostVars
  <2>3. Tail(todo[t]) \in Seq(ToolCalls)
    BY <2>1
  <2>4. todo' \in [Tasks -> Seq(ToolCalls)] /\ job' \in [Tasks -> Nat]
    BY <2>1, <2>2, <2>3
  <2>5. \A d \in Tasks : job'[d] # 0 => todo'[d] # <<>> /\ job'[d] \in DOMAIN jobs'
    BY <2>1, <2>2 DEF AgentsTyped
  <2> QED BY <2>2, <2>4, <2>5, JobsStayTyped DEF AgentsTyped
<1> QED BY <1>1, <1>2, <1>3, <1>4, <1>5, <1>6 DEF TaskAction, AgentStep

(* The types of the IDEs.                                                  *)
ServersTyped == server \in [Ides -> {"up", "closing", "gone"}]

LEMMA IdeStepTyped ==
  ASSUME JobsOK, JobsTyped, ServersTyped, NEW e \in Ides, IdeStep(e)
  PROVE  ServersTyped' /\ JobsTyped' /\ disk' = disk
<1>1. ASSUME NEW kind \in Kinds, CallWorkspaceTool(e, kind)
      PROVE  ServersTyped' /\ JobsTyped' /\ disk' = disk
  <2>1. PICK ask \in Asked : Submit(e, kind, ask.path, ask.content, ask.command)
    BY <1>1 DEF CallWorkspaceTool
  <2>2. /\ ask.path \in Paths /\ ask.content \in Bytes
        /\ ask.command \in Commands \cup {NoCommand} /\ e \in Callers
    BY WorkbenchAssumption
  <2>3. JobsTyped'
    BY <2>1, <2>2, JobIsAddedTyped
  <2> QED BY <1>1, <2>3 DEF CallWorkspaceTool, ServersTyped
<1>2. CASE ReturnResult(e) \/ Shutdown(e)
  <2>1. UNCHANGED <<jobs, disk>> /\ ServersTyped'
    BY <1>2 DEF ReturnResult, Shutdown, hostVars, ServersTyped
  <2> QED BY <2>1, JobsStayTyped
<1>3. CASE ServerGone(e)
  BY <1>3, JobsAreLostTyped DEF ServerGone, ServersTyped
<1>4. {"read", "write", "list", "search", "exec"} \subseteq Kinds
  BY DEF Kinds
<1> QED BY <1>1, <1>2, <1>3, <1>4
        DEF IdeStep, localWorkspaceRead, localWorkspaceWrite,
            localWorkspaceList, localWorkspaceSearch, localWorkspaceExec
-----------------------------------------------------------------------------
(* The types of the pages.                                                 *)
Purposes == {"open", "save", "create", "load"}

AskTyped(a) == /\ a = [by |-> a.by, purpose |-> a.purpose, path |-> a.path,
                       job |-> a.job, follow |-> a.follow]
               /\ a.purpose \in Purposes /\ a.follow \in BOOLEAN

TabTyped(tab) == /\ tab.content \in Bytes /\ tab.savedContent \in Bytes
                 /\ tab.readOnly \in BOOLEAN /\ tab.saving \in BOOLEAN

TabsTyped == \A b \in Browsers, p \in Inside :
               IsOpen(b, p) => TabTyped(tabs[b][p])
AsksTyped == \A a \in asks : AskTyped(a)
PagesTyped == TabsTyped /\ AsksTyped /\ tree \in [Browsers -> Tree]

LEMMA TabChangesTyped ==
  ASSUME TabsKnow, TabsTyped, NEW b \in Browsers, NEW p \in Inside, NEW tab,
         tabs' = [tabs EXCEPT ![b][p] = tab], tab # NoTab => TabTyped(tab)
  PROVE  TabsTyped'
<1>1. \A d \in Browsers, q \in Inside :
        tabs'[d][q] = IF d = b /\ q = p THEN tab ELSE tabs[d][q]
  BY DEF TabsKnow
<1>2. \A d \in Browsers, q \in Inside : tabs'[d][q] # NoTab => TabTyped(tabs'[d][q])
  BY <1>1 DEF TabsTyped, IsOpen
<1> QED BY <1>2 DEF TabsTyped, IsOpen, TabTyped

LEMMA TabsStayTyped ==
  ASSUME TabsTyped, tabs' = tabs
  PROVE  TabsTyped'
BY DEF TabsTyped, IsOpen, TabTyped

LEMMA AsksShrinkTyped ==
  ASSUME AsksTyped, asks' \subseteq asks
  PROVE  AsksTyped'
BY DEF AsksTyped, AskTyped

LEMMA InsidePaths ==
  /\ Inside \subseteq Paths /\ Empty \in Bytes /\ Contents \subseteq Bytes
  /\ NoCommand \in Commands \cup {NoCommand} /\ Browsers \subseteq Callers
BY WorkbenchAssumption DEF Inside, Bytes, Files

LEMMA RequestTyped ==
  ASSUME JobsOK, JobsTyped, AsksTyped, NEW b \in Browsers,
         NEW purpose \in Purposes, NEW p \in Inside, NEW content \in Bytes,
         NEW follow \in BOOLEAN, NEW rest \in SUBSET asks,
         Request(b, purpose, p, content, follow, rest)
  PROVE  JobsTyped' /\ AsksTyped'
<1>1. PICK kind \in Kinds : Submit(b, kind, p, content, NoCommand)
  BY DEF Request, Kinds
<1>2. b \in Callers /\ p \in Paths /\ NoCommand \in Commands \cup {NoCommand}
  BY InsidePaths
<1>3. JobsTyped'
  BY <1>1, <1>2, JobIsAddedTyped
<1>4. PICK new : new = NewAsk(b, purpose, p, follow)
  OBVIOUS
<1>5. AskTyped(new)
  BY <1>4 DEF AskTyped, NewAsk
<1>6. asks' = rest \cup {new}
  BY <1>4 DEF Request
<1>7. \A a \in asks' : AskTyped(a)
  BY <1>5, <1>6 DEF AsksTyped
<1> QED BY <1>3, <1>7 DEF AsksTyped, AskTyped

LEMMA LoadingTyped ==
  ASSUME NEW node \in Tree
  PROVE  Loading(node) \in Tree
BY DEF Loading, Tree

LEMMA UserStepTyped ==
  ASSUME JobsOK, JobsTyped, PagesKnow, PagesTyped, NEW b \in Browsers, UserStep(b)
  PROVE  JobsTyped' /\ PagesTyped' /\ disk' = disk
<1>0. TabsKnow /\ TabsTyped /\ AsksTyped /\ tree \in [Browsers -> Tree]
  BY DEF PagesKnow, PagesTyped
<1>1. CASE \E cmd \in Commands : RunInDock(b, cmd)
  <2>1. PICK cmd \in Commands, p \in Inside : Submit(b, "exec", p, Empty, cmd)
    BY <1>1 DEF RunInDock
  <2>2. /\ b \in Callers /\ "exec" \in Kinds /\ p \in Paths /\ Empty \in Bytes
        /\ cmd \in Commands \cup {NoCommand}
    BY InsidePaths DEF Kinds
  <2>3. JobsTyped'
    BY <2>1, <2>2, JobIsAddedTyped
  <2>4. UNCHANGED <<tabs, tree, asks, disk>>
    BY <1>1 DEF RunInDock, tabsVars
  <2> QED BY <1>0, <2>3, <2>4, TabsStayTyped, AsksShrinkTyped DEF PagesTyped
<1>2. CASE \E p \in Inside : \/ OpenFile(b, p) \/ CreateFile(b, p)
                             \/ LoadDirectory(b, p)
  <2>1. PICK p \in Inside, purpose \in Purposes :
          Request(b, purpose, p, Empty, FALSE, asks)
    BY <1>2 DEF OpenFile, CreateFile, LoadDirectory, Purposes
  <2>2. /\ tabs' = tabs /\ disk' = disk
        /\ tree' = tree \/ tree' = [tree EXCEPT ![b] = Loading(tree[b])]
    BY <1>2 DEF OpenFile, CreateFile, LoadDirectory
  <2>3. PICK rest \in SUBSET asks : rest = asks
    OBVIOUS
  <2>4. Empty \in Bytes /\ FALSE \in BOOLEAN
    BY InsidePaths
  <2>5. JobsTyped' /\ AsksTyped'
    BY <1>0, <2>1, <2>3, <2>4, RequestTyped
  <2>6. Loading(tree[b]) \in Tree
    BY <1>0, LoadingTyped
  <2>7. tree' \in [Browsers -> Tree]
    BY <1>0, <2>2, <2>6
  <2> QED BY <1>0, <2>2, <2>5, <2>7, TabsStayTyped DEF PagesTyped
<1>3. ASSUME NEW p \in Inside, Save(b, p)
      PROVE  JobsTyped' /\ PagesTyped' /\ disk' = disk
  <2>1. IsTab(tabs[b][p]) /\ TabTyped(tabs[b][p])
    BY <1>0, <1>3 DEF Save, TabsKnow, TabsTyped
  <2>2. PICK tab : tab = [tabs[b][p] EXCEPT !.saving = TRUE]
    OBVIOUS
  <2>3. TabTyped(tab)
    BY <2>1, <2>2 DEF IsTab, TabFields, TabTyped
  <2>4. /\ tabs' = [tabs EXCEPT ![b][p] = tab] /\ UNCHANGED <<tree, disk>>
        /\ Request(b, "save", p, tabs[b][p].content, FALSE, asks)
    BY <1>3, <2>2 DEF Save
  <2>5. TabsTyped'
    BY <1>0, <2>3, <2>4, TabChangesTyped
  <2>6. PICK rest \in SUBSET asks, content \in Bytes :
          rest = asks /\ content = tabs[b][p].content
    BY <2>1 DEF TabTyped
  <2>7. "save" \in Purposes /\ FALSE \in BOOLEAN
    BY DEF Purposes
  <2>8. JobsTyped' /\ AsksTyped'
    BY <1>0, <2>4, <2>6, <2>7, RequestTyped
  <2> QED BY <1>0, <2>4, <2>5, <2>8 DEF PagesTyped
<1>4. ASSUME NEW p \in Inside, CloseTab(b, p) \/ Edit(b, p)
      PROVE  JobsTyped' /\ PagesTyped' /\ disk' = disk
  <2>1. UNCHANGED <<jobs, disk, asks, tree>>
    BY <1>4 DEF CloseTab, Edit, hostVars
  <2>2. CASE CloseTab(b, p)
    <3>1. tabs' = [tabs EXCEPT ![b][p] = NoTab]
      BY <2>2 DEF CloseTab
    <3>2. TabsTyped'
      BY <1>0, <3>1, TabChangesTyped
    <3> QED BY <1>0, <2>1, <3>2, JobsStayTyped, AsksShrinkTyped DEF PagesTyped
  <2>3. CASE Edit(b, p)
    <3>1. PICK content \in Contents : tabs' = [tabs EXCEPT ![b][p].content = content]
      BY <2>3 DEF Edit
    <3>2. PICK tab : tab = [tabs[b][p] EXCEPT !.content = content]
      OBVIOUS
    <3>3. IsTab(tabs[b][p]) /\ TabTyped(tabs[b][p]) /\ content \in Bytes
      BY <1>0, <2>3, InsidePaths DEF Edit, TabsKnow, TabsTyped
    <3>4. TabTyped(tab)
      BY <3>2, <3>3 DEF IsTab, TabFields, TabTyped
    <3>5. tabs' = [tabs EXCEPT ![b][p] = tab]
      BY <3>1, <3>2
    <3>6. TabsTyped'
      BY <1>0, <3>4, <3>5, TabChangesTyped
    <3> QED BY <1>0, <2>1, <3>6, JobsStayTyped, AsksShrinkTyped DEF PagesTyped
  <2> QED BY <1>4, <2>2, <2>3
<1> QED BY <1>1, <1>2, <1>3, <1>4 DEF UserStep

LEMMA AnswerStepTyped ==
  ASSUME JobsOK, JobsTyped, PagesKnow, PagesTyped, NEW b \in Browsers, AnswerStep(b)
  PROVE  JobsTyped' /\ PagesTyped' /\ disk' = disk
<1>0. TabsKnow /\ TabsTyped /\ AsksTyped /\ tree \in [Browsers -> Tree]
  BY DEF PagesKnow, PagesTyped
<1>1. PICK a \in asks : a.by = b /\ (Settle(a) \/ Fail(a))
  BY DEF AnswerStep
<1>2. PICK p \in Inside : p = a.path
  BY DEF PagesKnow, IsAsk
<1>3. /\ a.job \in DOMAIN jobs /\ JobTyped(jobs[a.job])
      /\ a.purpose = "open" => jobs[a.job].kind = "read"
  BY DEF PagesKnow, IsAsk, JobsTyped
<1>4. disk' = disk
  BY <1>1 DEF Settle, Fail
<1>5. PICK rest \in SUBSET asks : rest = asks \ {a}
  OBVIOUS
<1>6. ASSUME asks' = asks \ {a}, UNCHANGED jobs
      PROVE  JobsTyped' /\ AsksTyped'
  BY <1>0, <1>6, JobsStayTyped, AsksShrinkTyped
<1>7. ASSUME NEW purpose \in Purposes, NEW follow \in BOOLEAN,
             Request(b, purpose, p, Empty, follow, rest)
      PROVE  JobsTyped' /\ AsksTyped'
  BY <1>0, <1>7, InsidePaths, RequestTyped
<1>8. ASSUME ThenOpen(a)
      PROVE  JobsTyped' /\ AsksTyped'
  <2>1. \/ Request(b, "open", p, Empty, FALSE, rest)
        \/ asks' = asks \ {a} /\ UNCHANGED jobs
    BY <1>1, <1>2, <1>5, <1>8 DEF ThenOpen
  <2>2. "open" \in Purposes
    BY DEF Purposes
  <2> QED BY <1>6, <1>7, <2>1, <2>2
<1>9. ASSUME NEW tab, TabTyped(tab), tabs' = [tabs EXCEPT ![b][p] = tab]
      PROVE  TabsTyped'
  BY <1>0, <1>9, TabChangesTyped
<1>10. CASE Settle(a) /\ a.purpose = "open"
  <2>1. OpenAnswered(a) /\ jobs[a.job].state = "answered"
    BY <1>10 DEF Settle
  <2>2. UNCHANGED <<jobs, tree>> /\ asks' = asks \ {a}
    BY <2>1 DEF OpenAnswered
  <2>3. TabsTyped'
    <3>1. CASE tabs' = tabs
      BY <1>0, <3>1, TabsStayTyped
    <3>2. CASE tabs' # tabs
      <4>1. PICK tab : /\ tab = [content |-> jobs[a.job].seen,
                                 savedContent |-> jobs[a.job].seen,
                                 readOnly |-> jobs[a.job].seen \in Oversized,
                                 saving |-> FALSE]
                       /\ tabs' = [tabs EXCEPT ![a.by][a.path] = tab]
        BY <2>1, <3>2 DEF OpenAnswered
      <4>2. jobs[a.job].seen \in Bytes
        BY <1>3, <1>10, <2>1 DEF JobTyped
      <4>3. TabTyped(tab)
        BY <4>1, <4>2 DEF TabTyped
      <4> QED BY <1>1, <1>2, <1>9, <4>1, <4>3
    <3> QED BY <3>1, <3>2
  <2> QED BY <1>0, <1>4, <1>6, <2>2, <2>3 DEF PagesTyped
<1>11. CASE Settle(a) /\ a.purpose = "save"
  <2>1. SaveAnswered(a)
    BY <1>11 DEF Settle
  <2>2. UNCHANGED <<jobs, tree>> /\ asks' = asks \ {a}
    BY <2>1 DEF SaveAnswered
  <2>3. TabsTyped'
    <3>1. CASE ~IsOpen(b, p)
      <4>1. tabs' = tabs
        BY <1>1, <1>2, <2>1, <3>1 DEF SaveAnswered
      <4> QED BY <1>0, <4>1, TabsStayTyped
    <3>2. CASE IsOpen(b, p)
      <4>1. PICK tab : tab = [tabs[b][p] EXCEPT
                                !.savedContent = jobs[a.job].content,
                                !.saving = FALSE]
        OBVIOUS
      <4>2. tabs' = [tabs EXCEPT ![b][p] = tab]
        BY <1>1, <1>2, <2>1, <3>2, <4>1 DEF SaveAnswered
      <4>3. /\ IsTab(tabs[b][p]) /\ TabTyped(tabs[b][p])
            /\ jobs[a.job].content \in Bytes
        BY <1>0, <1>3, <3>2 DEF TabsKnow, TabsTyped, JobTyped
      <4>4. TabTyped(tab)
        BY <4>1, <4>3 DEF IsTab, TabFields, TabTyped
      <4> QED BY <1>9, <4>2, <4>4
    <3> QED BY <3>1, <3>2
  <2> QED BY <1>0, <1>4, <1>6, <2>2, <2>3 DEF PagesTyped
<1>12. CASE Settle(a) /\ a.purpose \notin {"open", "save"}
  <2>1. tabs' = tabs
    BY <1>12 DEF Settle, CreateAnswered, LoadAnswered
  <2>2. CASE CreateAnswered(a)
    <3>1. Request(b, "load", p, Empty, TRUE, rest) /\ "load" \in Purposes
      BY <1>1, <1>2, <1>5, <2>2 DEF CreateAnswered, Purposes
    <3>2. tree' = [tree EXCEPT ![b] = Loading(tree[b])]
      BY <1>1, <2>2 DEF CreateAnswered
    <3>3. Loading(tree[b]) \in Tree
      BY <1>0, LoadingTyped
    <3>4. tree' \in [Browsers -> Tree]
      BY <1>0, <3>2, <3>3
    <3> QED BY <1>0, <1>4, <1>7, <2>1, <3>1, <3>4, TabsStayTyped DEF PagesTyped
  <2>3. CASE LoadAnswered(a)
    <3>1. PICK node : /\ node = [state |-> "loaded", entries |-> jobs[a.job].found]
                      /\ tree' = [tree EXCEPT ![b] = node]
      BY <1>1, <2>3 DEF LoadAnswered
    <3>2. node \in Tree
      BY <1>3, <3>1 DEF Tree, JobTyped
    <3>3. tree' \in [Browsers -> Tree] /\ ThenOpen(a)
      BY <1>0, <2>3, <3>1, <3>2 DEF LoadAnswered
    <3> QED BY <1>0, <1>4, <1>8, <2>1, <3>3, TabsStayTyped DEF PagesTyped
  <2> QED BY <1>12, <2>2, <2>3 DEF Settle
<1>13. CASE Fail(a)
  <2>1. TabsTyped'
    <3>1. CASE ~(a.purpose = "save" /\ IsOpen(b, p))
      <4>1. tabs' = tabs
        BY <1>1, <1>2, <1>13, <3>1 DEF Fail
      <4> QED BY <1>0, <4>1, TabsStayTyped
    <3>2. CASE a.purpose = "save" /\ IsOpen(b, p)
      <4>1. PICK tab : tab = [tabs[b][p] EXCEPT !.saving = FALSE]
        OBVIOUS
      <4>2. tabs' = [tabs EXCEPT ![b][p] = tab]
        BY <1>1, <1>2, <1>13, <3>2, <4>1 DEF Fail
      <4>3. IsTab(tabs[b][p]) /\ TabTyped(tabs[b][p])
        BY <1>0, <3>2 DEF TabsKnow, TabsTyped
      <4>4. TabTyped(tab)
        BY <4>1, <4>3 DEF IsTab, TabFields, TabTyped
      <4> QED BY <1>9, <4>2, <4>4
    <3> QED BY <3>1, <3>2
  <2>2. CASE a.purpose = "load"
    <3>1. ThenOpen(a) /\ tree' = [tree EXCEPT ![b].state = "error"]
      BY <1>1, <1>13, <2>2 DEF Fail
    <3>2. PICK node : node = [tree[b] EXCEPT !.state = "error"]
      OBVIOUS
    <3>3. node \in Tree
      BY <1>0, <3>2 DEF Tree
    <3>4. tree' = [tree EXCEPT ![b] = node]
      BY <3>1, <3>2
    <3>5. tree' \in [Browsers -> Tree]
      BY <1>0, <3>3, <3>4
    <3> QED BY <1>4, <1>8, <2>1, <3>1, <3>5 DEF PagesTyped
  <2>3. CASE a.purpose # "load"
    <3>1. UNCHANGED <<jobs, tree>> /\ asks' = asks \ {a}
      BY <1>13, <2>3 DEF Fail
    <3> QED BY <1>0, <1>4, <1>6, <2>1, <3>1 DEF PagesTyped
  <2> QED BY <2>2, <2>3
<1> QED BY <1>1, <1>10, <1>11, <1>12, <1>13

(* The invariant that the types of the whole bench follow from.            *)
BenchTyped == /\ BenchInvariant
              /\ HostTyped /\ LinksTyped /\ RoundsTyped /\ AgentsTyped
              /\ ServersTyped /\ PagesTyped

LEMMA PagesAreTyped ==
  ASSUME PagesKnow, PagesTyped
  PROVE  TabsTypeOK
<1>1. ASSUME NEW b \in Browsers, NEW p \in Inside
      PROVE  tabs[b][p] \in Tab \cup {NoTab}
  <2>1. CASE IsOpen(b, p)
    <3>1. PICK tab : tab = tabs[b][p] /\ IsTab(tab) /\ TabTyped(tab)
      BY <2>1 DEF PagesKnow, PagesTyped, TabsKnow, TabsTyped
    <3>2. tab = [content |-> tab.content, savedContent |-> tab.savedContent,
                 readOnly |-> tab.readOnly, saving |-> tab.saving]
      BY <3>1 DEF IsTab, TabFields
    <3> QED BY <3>1, <3>2 DEF Tab, TabTyped
  <2>2. CASE ~IsOpen(b, p)
    BY <2>2 DEF IsOpen
  <2> QED BY <2>1, <2>2
<1>2. tabs \in [Browsers -> [Inside -> Tab \cup {NoTab}]]
  <2>1. \A b \in Browsers : tabs[b] \in [Inside -> Tab \cup {NoTab}]
    BY <1>1 DEF PagesKnow, TabsKnow
  <2> QED BY <2>1 DEF PagesKnow, TabsKnow
<1>3. \A a \in asks : a \in Ask
  <2> TAKE a \in asks
  <2>1. IsAsk(a) /\ AskTyped(a)
    BY DEF PagesKnow, PagesTyped, AsksTyped
  <2> QED BY <2>1 DEF IsAsk, AskTyped, Ask, Purposes
<1> QED BY <1>2, <1>3 DEF TabsTypeOK, PagesTyped

LEMMA BenchIsTyped ==
  ASSUME BenchTyped
  PROVE  BenchTypeOK
<1>1. HostTypeOK
  BY HostIsTyped DEF BenchTyped, BenchInvariant
<1>2. Len(jobs) \in Nat /\ DOMAIN jobs = 1 .. Len(jobs)
  BY DEF BenchTyped, BenchInvariant, JobsOK
<1>3. TurnTypeOK
  <2>1. waiting \in [Chats -> 0 .. Len(jobs)]
    BY <1>2 DEF BenchTyped, BenchInvariant, ChatsKnow
  <2>2. told \in [Chats -> SUBSET [job : DOMAIN jobs, ok : BOOLEAN]]
    BY DEF BenchTyped, BenchInvariant, ChatsKnow
  <2>3. next \in [Chats -> Nat]
    BY DEF BenchTyped, RoundsTyped
  <2> QED BY <1>1, <2>1, <2>2, <2>3
          DEF BenchTyped, LinksTyped, RoundsTyped, TurnTypeOK
<1>4. AgentTypeOK
  <2>1. job \in [Tasks -> 0 .. Len(jobs)]
    BY <1>2 DEF BenchTyped, AgentsTyped
  <2> QED BY <1>1, <2>1
          DEF BenchTyped, AgentsTyped, BenchInvariant, TasksKnow, AgentTypeOK
<1>5. McpTypeOK
  BY DEF BenchTyped, BenchInvariant, IdesKnow, ServersTyped, McpTypeOK
<1>6. TabsTypeOK
  BY PagesAreTyped DEF BenchTyped, BenchInvariant
<1> QED BY <1>3, <1>4, <1>5, <1>6 DEF BenchTypeOK

LEMMA BenchInitTyped ==
  ASSUME BenchInit
  PROVE  BenchTyped
<1> USE DEF BenchInit
<1>1. HostTyped
  BY DEF HostInit, HostTyped, JobsTyped, Bytes
<1>2. LinksTyped
  BY ProviderConnectionAssumption
     DEF TurnInit, ConnectionInit, LinksTyped, ConnectionTypeOK, Circuit, Link
<1>3. RoundsTyped
  <2>1. <<>> \in Seq(Pieces) /\ <<>> \in Seq(ToolCalls) /\ Len(<<>>) = 0
    OBVIOUS
  <2> QED BY <2>1, ToolTurnAssumption DEF TurnInit, RoundsTyped, Modes
<1>4. AgentsTyped
  <2>1. <<>> \in Seq(ToolCalls)
    OBVIOUS
  <2> QED BY <2>1, LocalAgentAssumption DEF AgentInit, AgentsTyped, Child
<1>5. ServersTyped
  BY DEF McpInit, ServersTyped
<1>6. PagesTyped
  BY DEF TabsInit, PagesTyped, TabsTyped, AsksTyped, IsOpen, Tree
<1> QED BY <1>1, <1>2, <1>3, <1>4, <1>5, <1>6, BenchInitKnows DEF BenchTyped

LEMMA BenchStepTyped ==
  ASSUME BenchTyped, [BenchNext]_benchVars
  PROVE  BenchTyped'
<1> DEFINE LinksRest  == UNCHANGED connectionVars
           RoundsRest == UNCHANGED <<round, roundVars, next>>
           AgentsRest == UNCHANGED <<timedOut, child, turn, retries, todo, job>>
           PagesRest  == UNCHANGED <<tabs, tree, asks>>
<1>0. /\ BenchInvariant /\ JobsOK /\ PagesKnow
      /\ HostTyped /\ JobsTyped /\ LinksTyped /\ RoundsTyped /\ AgentsTyped
      /\ ServersTyped /\ PagesTyped
  BY DEF BenchTyped, BenchInvariant, HostTyped
<1>1. BenchInvariant'
  BY <1>0, BenchStepKnows
<1>2. PagesRest => PagesTyped'
  BY <1>0, TabsStayTyped, AsksShrinkTyped DEF PagesTyped
<1>3. ASSUME HostTyped' \/ (JobsTyped' /\ UNCHANGED <<disk, crew>>),
             LinksTyped' \/ LinksRest, RoundsTyped' \/ RoundsRest,
             AgentsTyped' \/ (Grows /\ AgentsRest), ServersTyped' \/ server' = server,
             PagesTyped' \/ PagesRest
      PROVE  BenchTyped'
  <2>1. HostTyped'
    BY <1>0, <1>3 DEF HostTyped
  <2>2. ServersTyped'
    BY <1>0, <1>3 DEF ServersTyped
  <2>3. LinksTyped' /\ RoundsTyped' /\ AgentsTyped'
    BY <1>0, <1>3, LinksStayTyped, RoundsStayTyped, AgentsRely
  <2>4. PagesTyped'
    BY <1>2, <1>3
  <2> QED BY <1>1, <2>1, <2>2, <2>3, <2>4 DEF BenchTyped
<1> HIDE DEF LinksRest, RoundsRest, AgentsRest, PagesRest
<1>4. ASSUME NEW c \in Chats, ChatStep(c)
      PROVE  BenchTyped'
  <2>1. TurnStep(c) /\ AgentsRest /\ PagesRest /\ UNCHANGED <<server, crew>>
    BY <1>4 DEF ChatStep, taskVars, commandVars, agentVars, tabsVars, restVars,
                mcpVars, AgentsRest, PagesRest
  <2>2. JobsTyped' /\ disk' = disk /\ LinksTyped' /\ RoundsTyped'
    BY <1>0, <2>1, TurnStepJobsTyped, TurnStepLinks, TurnStepRounds
  <2>3. Grows
    BY <1>0, <2>1, TurnStepKnows DEF BenchInvariant
  <2> QED BY <1>3, <2>1, <2>2, <2>3
<1>5. CASE OutsideStep
  <2>1. /\ Outside /\ UNCHANGED <<jobs, disk, crew, server>>
        /\ RoundsRest /\ AgentsRest /\ PagesRest
    BY <1>5 DEF OutsideStep, Outside, hostVars, turnVars, roundVars, taskVars,
                commandVars, agentVars, tabsVars, restVars, mcpVars,
                RoundsRest, AgentsRest, PagesRest
  <2>2. JobsTyped' /\ Grows
    BY <1>0, <2>1, JobsStayTyped, JobsStay
  <2> QED BY <1>0, <1>3, <2>1, <2>2, OutsideLinks
<1>6. ASSUME NEW t \in Tasks, \/ LaunchStep(t) \/ LoopStep(t) \/ ScriptStep(t)
                              \/ InterruptStep(t) \/ ExitStep(t)
      PROVE  BenchTyped'
  <2>1. /\ TaskAction(t)
        /\ LinksRest /\ RoundsRest /\ PagesRest /\ UNCHANGED <<server, crew>>
    BY <1>6 DEF LaunchStep, LoopStep, ScriptStep, InterruptStep, ExitStep,
                TaskAction, chatVars, turnVars, roundVars, tabsVars, restVars,
                mcpVars, LinksRest, RoundsRest, PagesRest
  <2>2. AgentsTyped' /\ JobsTyped' /\ disk' = disk
    BY <1>0, <2>1, TaskStepTyped
  <2> QED BY <1>3, <2>1, <2>2
<1>7. ASSUME NEW b \in Browsers, PageStep(b) \/ ReplyStep(b)
      PROVE  BenchTyped'
  <2>1. /\ UserStep(b) \/ AnswerStep(b)
        /\ LinksRest /\ RoundsRest /\ AgentsRest /\ UNCHANGED <<server, crew>>
    BY <1>7 DEF PageStep, ReplyStep, chatVars, turnVars, roundVars, taskVars,
                commandVars, agentVars, restVars, mcpVars, LinksRest,
                RoundsRest, AgentsRest
  <2>2. PagesTyped' /\ JobsTyped' /\ disk' = disk
    BY <1>0, <2>1, UserStepTyped, AnswerStepTyped
  <2>3. Grows
    BY <1>0, <2>1, UserStepKnows, AnswerStepKnows
  <2> QED BY <1>3, <2>1, <2>2, <2>3
<1>8. ASSUME NEW e \in Ides, ToolStep(e)
      PROVE  BenchTyped'
  <2>1. /\ IdeStep(e) /\ crew' = crew
        /\ LinksRest /\ RoundsRest /\ AgentsRest /\ PagesRest
    BY <1>8 DEF ToolStep, chatVars, turnVars, roundVars, taskVars, commandVars,
                agentVars, tabsVars, LinksRest, RoundsRest, AgentsRest, PagesRest
  <2>2. ServersTyped' /\ JobsTyped' /\ disk' = disk
    BY <1>0, <2>1, IdeStepTyped
  <2>3. Grows
    BY <1>0, <2>1, IdeStepKnows DEF BenchInvariant
  <2> QED BY <1>3, <2>1, <2>2, <2>3
<1>9. CASE HostStep
  <2>1. PICK i \in DOMAIN jobs : JobStep(i) \/ FsError(i)
    BY <1>9 DEF HostStep, HostNext
  <2>2. /\ LinksRest /\ RoundsRest /\ AgentsRest /\ PagesRest
        /\ UNCHANGED <<server, crew>>
    BY <1>9 DEF HostStep, chatVars, turnVars, roundVars, taskVars, commandVars,
                agentVars, tabsVars, restVars, mcpVars, LinksRest, RoundsRest,
                AgentsRest, PagesRest
  <2>3. HostTyped' /\ Grows
    BY <1>0, <2>1, <2>2, HostStepTyped, JobStepGrows
  <2> QED BY <1>3, <2>2, <2>3
<1>10. CASE UNCHANGED benchVars
  <2>1. /\ LinksRest /\ RoundsRest /\ AgentsRest /\ PagesRest
        /\ UNCHANGED <<jobs, disk, server, crew>>
    BY <1>10 DEF benchVars, hostVars, chatVars, turnVars, roundVars, taskVars,
                 commandVars, agentVars, tabsVars, restVars, mcpVars, LinksRest,
                 RoundsRest, AgentsRest, PagesRest
  <2>2. JobsTyped' /\ Grows
    BY <1>0, <2>1, JobsStayTyped, JobsStay
  <2> QED BY <1>3, <2>1, <2>2
<1> QED BY <1>4, <1>5, <1>6, <1>7, <1>8, <1>9, <1>10 DEF BenchNext

(* Everybody at the workbench keeps to the types, also the bound on tool   *)
(* rounds, turns, retries and attempts, and no text shown is longer than   *)
(* what the model emitted (ollama.provider.ts, ollama-agent.ts,            *)
(* workspace.store.ts and the host bridge).                                *)
THEOREM BenchTypeCorrect == BenchSpec => []BenchTypeOK
<1>1. BenchInit => BenchTyped
  BY BenchInitTyped
<1>2. BenchTyped /\ [BenchNext]_benchVars => BenchTyped'
  BY BenchStepTyped
<1>3. BenchTyped => BenchTypeOK
  BY BenchIsTyped
<1> QED BY <1>1, <1>2, <1>3, PTL DEF BenchSpec
=============================================================================
