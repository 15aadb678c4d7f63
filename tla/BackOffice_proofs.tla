------------------------- MODULE BackOffice_proofs -------------------------
(***************************************************************************)
(* Proofs about the back office and the memory of a user, for any number   *)
(* of users, requests, extractions and notes.  Administration: the         *)
(* invariant says what a request past its checks may still rely on:        *)
(* nothing, as soon as another request runs beside it; everything its      *)
(* checks saw, as long as it ran alone.  Memory: ids are ages, and as long *)
(* as the notes are over the cap a job is left that will evict enough.     *)
(***************************************************************************)
EXTENDS BackOffice, FiniteSetTheorems, TLAPS

(* Two requests that run at once have met; one to come has met nobody.     *)
Acquainted == \A r, s \in Requests :
                /\ Running(r) /\ Running(s) /\ r # s => s \in met[r]
                /\ pc[r] = "idle" => met[r] = {}

(* Past the guard a request is one of the HTTP requests, with an actor.    *)
Asking  == {"guard", "grants", "find", "write", "strip", "commit", "audit"}
Booting == {"lookup", "promote", "grant"}
WhoseStep == \A r \in Requests : /\ pc[r] \in Asking => req[r] \in Asks
                                 /\ pc[r] \in Booting => req[r] \in Bootstraps

(* As long as nobody met anybody, the actor the guard let pass still is an *)
(* active administrator, and is not the target.                            *)
AloneIsAdmin ==
  (\A r \in Requests : met[r] = {}) =>
    \A r \in Requests :
      /\ pc[r] \in {"grants", "find", "write", "strip", "commit"}
           => ActiveAdmin(req[r].actor)
      /\ pc[r] \in {"write", "strip", "commit"} => req[r].actor # req[r].target

(* Who is about to write grants of a plain user ran beside the demotion.   *)
LateWritersMet ==
  \A w \in Requests :
    /\ \/ IsKind(w, "permissions") /\ pc[w] \in {"write", "commit"}
       \/ pc[w] = "grant"
    /\ role[req[w].target] = "user"
    => /\ demoter[req[w].target] \in Requests
       /\ w \in met[demoter[req[w].target]]

(* A demotion about to commit removes every row but those of requests it   *)
(* ran beside.                                                             *)
DemotionSweeps ==
  \A d \in Requests :
    IsKind(d, "role") /\ pc[d] = "commit"
      => \A g \in grants[req[d].target] : g \in doomed[d] \/ g.by \in met[d]

AdminInvariant == /\ AdminTypeOK /\ WhoseStep
                  /\ Acquainted
                  /\ AloneIsAdmin /\ AdminRemains
                  /\ LateWritersMet /\ DemotionSweeps /\ PlainUsersHoldNothing
-----------------------------------------------------------------------------
(* What requests ask for.                                                  *)
LEMMA AskTyped ==
  ASSUME NEW ask \in Asks
  PROVE  /\ ask.actor \in Users /\ ask.target \in Users
         /\ \/ ask.kind = "status" /\ ask.arg \in BOOLEAN
            \/ ask.kind = "role" /\ ask.arg \in Roles
            \/ ask.kind = "permissions" /\ ask.arg \in Choices
BY DEF Asks, AskOf

LEMMA BootTyped ==
  ASSUME NEW ask \in Bootstraps
  PROVE  ask.kind = "bootstrap" /\ ask.target \in Users
BY AdminAssumption DEF Bootstraps

(* The shape of a step: a request that is not running arrives and meets    *)
(* those that are, or a running one goes on and nobody meets anybody.      *)
LEMMA StepShape ==
  ASSUME NEW r \in Requests, AdminTypeOK, AdminStep(r)
  PROVE  /\ \A s \in Requests : s # r => /\ pc'[s] = pc[s] /\ req'[s] = req[s]
                                        /\ doomed'[s] = doomed[s]
         /\ \/ Ask(r) \/ Boot(r)
            \/ Running(r) /\ met' = met /\ req' = req
<1>1. CASE Ask(r) \/ Boot(r)
  BY <1>1 DEF AdminTypeOK, Ask, Boot, Arrive, At, Goto
<1>2. CASE ~(Ask(r) \/ Boot(r))
  <2> USE DEF AdminTypeOK, At, Goto, Reads, Running, Over, userVars
  <2>1. CASE GuardRole(r) \/ GuardGrants(r) \/ Find(r) \/ Lookup(r) \/ UpdateRole(r)
    BY <2>1 DEF GuardRole, GuardGrants, Find, UpdateRole, Lookup
  <2>2. CASE UpdateStatus(r) \/ Delete(r) \/ CommitRole(r) \/ RecordAudit(r)
    BY <2>2 DEF UpdateStatus, Delete, CommitRole, RecordAudit
  <2>3. CASE CommitGrants(r) \/ Promote(r) \/ GrantAll(r) \/ Break(r)
    BY <2>3 DEF CommitGrants, Promote, GrantAll, Break
  <2> QED BY <1>2, <2>1, <2>2, <2>3 DEF AdminStep
<1> QED BY <1>1, <1>2

LEMMA TypeStep ==
  ASSUME NEW r \in Requests, AdminTypeOK, WhoseStep, AdminStep(r)
  PROVE  AdminTypeOK' /\ WhoseStep'
<1> USE DEF AdminTypeOK, WhoseStep, Asking, Booting, At, Goto, Over
<1>1. CASE Ask(r)
  BY <1>1 DEF Ask, Arrive, userVars
<1>2. CASE Boot(r)
  BY <1>2 DEF Boot, Arrive, userVars
<1>3. CASE GuardRole(r) \/ GuardGrants(r) \/ Find(r) \/ Lookup(r) \/ UpdateRole(r)
  BY <1>3 DEF GuardRole, GuardGrants, Find, UpdateRole, Lookup, Reads, userVars
<1>4. CASE UpdateStatus(r)
  <2>1. req[r].target \in Users /\ req[r].arg \in BOOLEAN
    BY <1>4, AskTyped DEF UpdateStatus, IsKind
  <2> QED BY <1>4, <2>1 DEF UpdateStatus
<1>5. CASE Delete(r)
  <2>1. req[r].target \in Users
    BY <1>5, AskTyped DEF Delete
  <2> QED BY <1>5, <2>1 DEF Delete, userVars
<1>6. CASE CommitRole(r)
  <2>1. req[r].target \in Users /\ req[r].arg \in Roles
    BY <1>6, AskTyped DEF CommitRole, IsKind
  <2> QED BY <1>6, <2>1 DEF CommitRole
<1>7. CASE CommitGrants(r)
  <2>1. req[r].target \in Users /\ req[r].arg \subseteq Permissions
    BY <1>7, AskTyped, AdminAssumption DEF CommitGrants, IsKind
  <2>2. Written(req[r].arg, r) \subseteq Rows
    BY <2>1 DEF Written, Rows
  <2> QED BY <1>7, <2>1, <2>2 DEF CommitGrants
<1>8. CASE RecordAudit(r)
  BY <1>8 DEF RecordAudit
<1>9. CASE Promote(r)
  <2>1. req[r].target \in Users
    BY <1>9, BootTyped DEF Promote
  <2> QED BY <1>9, <2>1 DEF Promote, Roles
<1>10. CASE GrantAll(r)
  <2>1. req[r].target \in Users
    BY <1>10, BootTyped DEF GrantAll
  <2>2. Written(Permissions \ Held(req[r].target), r) \subseteq Rows
    BY DEF Written, Rows
  <2> QED BY <1>10, <2>1, <2>2 DEF GrantAll
<1>11. CASE Break(r)
  BY <1>11 DEF Break, Reads, userVars
<1> QED BY <1>1, <1>2, <1>3, <1>4, <1>5, <1>6, <1>7, <1>8, <1>9, <1>10, <1>11
        DEF AdminStep

LEMMA AcquaintedStep ==
  ASSUME NEW r \in Requests, AdminTypeOK, Acquainted, AdminStep(r)
  PROVE  Acquainted' /\ \A s \in Requests : met[s] \subseteq met'[s]
<1> USE DEF AdminTypeOK, Acquainted
<1>1. CASE Ask(r) \/ Boot(r)
  <2>1. PICK to \in {"guard", "lookup"} :
          /\ pc[r] = "idle" /\ pc' = [pc EXCEPT ![r] = to]
          /\ met' = [s \in Requests |->
                       IF s = r THEN {q \in Requests : Running(q)}
                       ELSE IF Running(s) THEN met[s] \cup {r} ELSE met[s]]
    BY <1>1 DEF Ask, Boot, Arrive, At, Goto
  <2>2. \A s \in Requests : s # r => Running(s)' = Running(s)
    BY <2>1 DEF Running, Over
  <2>3. \A s \in Requests : pc'[s] = "idle" => met'[s] = {}
    BY <2>1 DEF Running
  <2>4. \A s, q \in Requests : Running(s)' /\ Running(q)' /\ s # q => q \in met'[s]
    BY <2>1, <2>2
  <2>5. \A s \in Requests : met[s] \subseteq met'[s]
    BY <2>1
  <2> QED BY <2>3, <2>4, <2>5
<1>2. CASE Running(r) /\ met' = met
  <2>1. \A s \in Requests : s # r => Running(s)' = Running(s) /\ pc'[s] = pc[s]
    BY StepShape DEF Running
  <2>2. pc'[r] # "idle"
    <3> USE DEF Reads, At, Goto
    <3>1. ~(Ask(r) \/ Boot(r))
      BY <1>2 DEF Ask, Boot, Arrive, Running
    <3>2. CASE GuardRole(r) \/ GuardGrants(r) \/ Find(r) \/ Lookup(r) \/ UpdateRole(r)
      BY <3>2 DEF GuardRole, GuardGrants, Find, UpdateRole, Lookup
    <3>3. CASE UpdateStatus(r) \/ Delete(r) \/ CommitRole(r) \/ RecordAudit(r)
      BY <3>3 DEF UpdateStatus, Delete, CommitRole, RecordAudit
    <3>4. CASE CommitGrants(r) \/ Promote(r) \/ GrantAll(r) \/ Break(r)
      BY <3>4 DEF CommitGrants, Promote, GrantAll, Break
    <3> QED BY <3>1, <3>2, <3>3, <3>4 DEF AdminStep
  <2> QED BY <1>2, <2>1, <2>2
<1> QED BY <1>1, <1>2, StepShape

(* The actor of a lone request past the guard is not the target when it    *)
(* writes, so the write leaves them an active administrator.               *)
LEMMA AloneStep ==
  ASSUME NEW r \in Requests, AdminTypeOK, WhoseStep, Acquainted, AloneIsAdmin,
         AdminRemains, AdminStep(r)
  PROVE  AloneIsAdmin' /\ AdminRemains'
<1>1. CASE \E s \in Requests : met'[s] # {}
  BY <1>1 DEF AloneIsAdmin, AdminRemains
<1>2. CASE \A s \in Requests : met'[s] = {}
  <2>1. \A s \in Requests : met[s] = {}
    BY <1>2, AcquaintedStep
  <2>2. \A s \in Requests : s # r => ~Running(s)
    <3>1. CASE Ask(r) \/ Boot(r)
      BY <1>2, <3>1 DEF Ask, Boot, Arrive, AdminTypeOK
    <3>2. CASE Running(r)
      BY <2>1, <3>2 DEF Acquainted
    <3> QED BY <3>1, <3>2, StepShape
  <2>3. \A s \in Requests : s # r => pc'[s] = pc[s] /\ req'[s] = req[s]
    BY StepShape
  <2>4. SUFFICES
          /\ \E u \in Users : ActiveAdmin(u)'
          /\ pc'[r] \in {"grants", "find", "write", "strip", "commit"}
               => ActiveAdmin(req[r].actor)' /\ req'[r] = req[r]
          /\ pc'[r] \in {"write", "strip", "commit"} => req[r].actor # req[r].target
    BY <1>2, <2>2, <2>3 DEF AloneIsAdmin, AdminRemains, Running, Over
  <2>5. \E u \in Users : ActiveAdmin(u)
    BY <2>1 DEF AdminRemains
  <2>6. /\ pc[r] \in {"grants", "find", "write", "strip", "commit"}
             => ActiveAdmin(req[r].actor)
        /\ pc[r] \in {"write", "strip", "commit"} => req[r].actor # req[r].target
    BY <2>1 DEF AloneIsAdmin
  <2> USE <2>5, <2>6 DEF ActiveAdmin, AdminTypeOK, At, Goto, userVars, Over
  <2>7. CASE Ask(r) \/ Boot(r)
    BY <2>7 DEF Ask, Boot, Arrive
  <2>8. CASE GuardRole(r) \/ GuardGrants(r) \/ Find(r) \/ Lookup(r) \/ UpdateRole(r)
    BY <2>8 DEF GuardRole, GuardGrants, Find, UpdateRole, MayTarget, Lookup, Reads
  <2>9. CASE UpdateStatus(r)
    <3>1. req[r].actor \in Users /\ req[r].target \in Users
      BY <2>9, AskTyped DEF UpdateStatus, WhoseStep, Asking
    <3>2. ActiveAdmin(req[r].actor)'
      BY <2>9, <3>1 DEF UpdateStatus
    <3> QED BY <2>9, <3>1, <3>2 DEF UpdateStatus
  <2>10. CASE CommitRole(r)
    <3>1. pc[r] \in {"write", "commit"}
      BY <2>10 DEF CommitRole
    <3>2. req[r].actor \in Users /\ req[r].target \in Users
      BY <3>1, AskTyped DEF WhoseStep, Asking
    <3>3. ActiveAdmin(req[r].actor)'
      BY <2>10, <3>1, <3>2 DEF CommitRole
    <3> QED BY <2>10, <3>1, <3>2, <3>3 DEF CommitRole
  <2>11. CASE Delete(r) \/ CommitGrants(r) \/ RecordAudit(r)
    BY <2>11 DEF Delete, CommitGrants, RecordAudit
  <2>12. CASE Promote(r)
    BY <2>12, BootTyped DEF Promote, WhoseStep, Booting
  <2>13. CASE GrantAll(r) \/ Break(r)
    BY <2>13 DEF GrantAll, Break, Reads, Running
  <2> QED BY <2>7, <2>8, <2>9, <2>10, <2>11, <2>12, <2>13 DEF AdminStep
<1> QED BY <1>1, <1>2

(* Grants of a plain user: what is about to be written, what is about to   *)
(* be removed, and what is there.                                          *)
LEMMA GrantsStep ==
  ASSUME NEW r \in Requests, AdminTypeOK, WhoseStep, Acquainted,
         LateWritersMet, DemotionSweeps, PlainUsersHoldNothing, AdminStep(r),
         AdminTypeOK'
  PROVE  LateWritersMet' /\ DemotionSweeps' /\ PlainUsersHoldNothing'
<1> USE DEF AdminTypeOK, At, Goto, userVars, IsKind
<1>0. /\ \A s \in Requests : met[s] \subseteq met'[s]
      /\ \A s \in Requests : s # r => /\ pc'[s] = pc[s] /\ req'[s] = req[s]
                                     /\ doomed'[s] = doomed[s]
      /\ \A s \in Requests : pc[s] \in Asking \cup Booting => req[s].target \in Users
  BY AcquaintedStep, StepShape, AskTyped, BootTyped DEF WhoseStep
<1>1. CASE \/ Ask(r) \/ Boot(r) \/ GuardRole(r) \/ GuardGrants(r) \/ Lookup(r)
           \/ RecordAudit(r) \/ Break(r) \/ UpdateStatus(r) \/ UpdateRole(r)
  <2>1. /\ UNCHANGED <<role, grants, doomed, demoter>>
        /\ pc'[r] = "grant" => role[req[r].target] = "admin" /\ req'[r] = req[r]
        /\ pc'[r] \notin {"write", "commit"}
    BY <1>1 DEF Ask, Boot, Arrive, GuardRole, GuardGrants, Lookup, RecordAudit,
                Break, UpdateStatus, UpdateRole, Reads
  <2>2. LateWritersMet'
    BY <1>0, <2>1 DEF LateWritersMet
  <2>3. DemotionSweeps'
    BY <1>0, <2>1 DEF DemotionSweeps
  <2>4. PlainUsersHoldNothing'
    BY <1>0, <2>1 DEF PlainUsersHoldNothing
  <2> QED BY <2>2, <2>3, <2>4
<1>2. CASE Find(r)
  <2>1. /\ UNCHANGED <<role, grants, doomed, demoter, req>>
        /\ pc'[r] \notin {"commit", "grant"}
        /\ pc'[r] = "write" /\ req[r].kind = "permissions"
             => role[req[r].target] = "admin"
    BY <1>2 DEF Find, HoldsGrants, Reads
  <2>2. LateWritersMet'
    BY <1>0, <2>1 DEF LateWritersMet
  <2>3. DemotionSweeps'
    BY <1>0, <2>1 DEF DemotionSweeps
  <2>4. PlainUsersHoldNothing'
    BY <1>0, <2>1 DEF PlainUsersHoldNothing
  <2> QED BY <2>2, <2>3, <2>4
<1>3. CASE Delete(r)
  <2>1. /\ UNCHANGED <<role, grants, demoter, req, met>>
        /\ \/ pc[r] = "write" /\ req[r].kind = "permissions"
           \/ pc[r] = "strip" /\ req[r].kind = "role"
        /\ pc'[r] = "commit"
        /\ doomed'[r] = grants[req[r].target]
    BY <1>3 DEF Delete
  <2>2. LateWritersMet'
    BY <1>0, <2>1 DEF LateWritersMet
  <2>3. DemotionSweeps'
    BY <1>0, <2>1 DEF DemotionSweeps
  <2>4. PlainUsersHoldNothing'
    BY <2>1 DEF PlainUsersHoldNothing
  <2> QED BY <2>2, <2>3, <2>4
<1>4. CASE CommitRole(r)
  <2> DEFINE t == req[r].target
  <2>1. /\ UNCHANGED <<req, doomed, met>> /\ req[r].kind = "role"
        /\ pc[r] \in {"write", "commit"} /\ pc'[r] = "audit" /\ t \in Users
        /\ Strips(r) => pc[r] = "commit"
        /\ role' = [role EXCEPT ![t] = req[r].arg]
        /\ grants' = [grants EXCEPT ![t] = @ \ doomed[r]]
        /\ demoter' = IF Strips(r) THEN [demoter EXCEPT ![t] = r] ELSE demoter
    BY <1>0, <1>4 DEF CommitRole, Asking, Booting
  <2>2. \A w \in Requests : w # r /\ pc[w] \in {"write", "commit", "grant"}
                           => w \in met[r]
    BY <2>1 DEF Acquainted, Running, Over
  <2>3. \A u \in Users : grants'[u] \subseteq grants[u]
    BY <2>1
  <2>4. LateWritersMet'
    <3> SUFFICES ASSUME NEW w \in Requests,
                   \/ req[w].kind = "permissions" /\ pc'[w] \in {"write", "commit"}
                   \/ pc'[w] = "grant",
                   role'[req[w].target] = "user"
          PROVE /\ demoter'[req[w].target] \in Requests
                /\ w \in met[demoter'[req[w].target]]
      BY <2>1 DEF LateWritersMet
    <3>1. w # r /\ pc'[w] = pc[w] /\ req[w].target \in Users
      BY <1>0, <2>1 DEF Asking, Booting
    <3>2. CASE req[w].target = t /\ Strips(r)
      BY <2>1, <2>2, <3>1, <3>2
    <3>3. CASE req[w].target = t /\ ~Strips(r)
      BY <2>1, <3>1, <3>3 DEF Strips
    <3>4. CASE req[w].target # t
      BY <2>1, <3>1, <3>4 DEF LateWritersMet
    <3> QED BY <3>2, <3>3, <3>4
  <2>5. DemotionSweeps'
    BY <1>0, <2>1, <2>3 DEF DemotionSweeps, Asking
  <2>6. PlainUsersHoldNothing'
    <3> SUFFICES ASSUME NEW u \in Users, role'[u] = "user", NEW g \in grants'[u]
                 PROVE demoter'[u] \in Requests /\ g.by \in met[demoter'[u]]
      BY <2>1 DEF PlainUsersHoldNothing
    <3>1. CASE u = t
      <4>1. Strips(r) /\ demoter'[u] = r
        BY <2>1, <3>1 DEF Strips
      <4>2. g \in grants[t] /\ g \notin doomed[r]
        BY <2>1, <3>1
      <4> QED BY <2>1, <4>1, <4>2 DEF DemotionSweeps
    <3>2. CASE u # t
      BY <2>1, <3>2 DEF PlainUsersHoldNothing
    <3> QED BY <3>1, <3>2
  <2> QED BY <2>4, <2>5, <2>6
<1>5. CASE CommitGrants(r) \/ GrantAll(r)
  <2> DEFINE t == req[r].target
  <2>1. /\ UNCHANGED <<role, req, doomed, met, demoter>> /\ t \in Users
        /\ \/ req[r].kind = "permissions" /\ pc[r] = "commit"
           \/ pc[r] = "grant"
        /\ pc'[r] \in {"audit", "done", "failed"}
    BY <1>0, <1>5 DEF CommitGrants, GrantAll, Asking, Booting
  <2>2. \A u \in Users : \A g \in grants'[u] :
          g \in grants[u] \/ (u = t /\ g.by = r)
    BY <1>5, <2>1 DEF CommitGrants, GrantAll, Written
  <2>3. LateWritersMet'
    BY <1>0, <2>1 DEF LateWritersMet
  <2>4. DemotionSweeps'
    <3> SUFFICES ASSUME NEW d \in Requests, req[d].kind = "role",
                        pc'[d] = "commit", NEW g \in grants'[req[d].target]
                 PROVE  g \in doomed[d] \/ g.by \in met[d]
      BY <2>1 DEF DemotionSweeps
    <3>1. d # r /\ pc[d] = "commit" /\ req[d].target \in Users
      BY <1>0, <2>1 DEF Asking
    <3>2. r \in met[d]
      BY <2>1, <3>1 DEF Acquainted, Running, Over
    <3> QED BY <2>2, <3>1, <3>2 DEF DemotionSweeps
  <2>5. PlainUsersHoldNothing'
    BY <2>1, <2>2 DEF PlainUsersHoldNothing, LateWritersMet
  <2> QED BY <2>3, <2>4, <2>5
<1>6. CASE Promote(r)
  <2>1. /\ UNCHANGED <<req, grants, doomed, met, demoter>>
        /\ req[r].target \in Users /\ pc'[r] = "grant"
        /\ role' = [role EXCEPT ![req[r].target] = "admin"]
    BY <1>0, <1>6 DEF Promote, Asking, Booting
  <2>2. LateWritersMet'
    BY <1>0, <2>1 DEF LateWritersMet, Asking, Booting
  <2>3. DemotionSweeps'
    BY <1>0, <2>1 DEF DemotionSweeps
  <2>4. PlainUsersHoldNothing'
    BY <2>1 DEF PlainUsersHoldNothing
  <2> QED BY <2>2, <2>3, <2>4
<1> QED BY <1>1, <1>2, <1>3, <1>4, <1>5, <1>6 DEF AdminStep

-----------------------------------------------------------------------------
LEMMA AdminInvariantHolds == AdminSpec => []AdminInvariant
<1>1. AdminInit => AdminInvariant
  <2> SUFFICES ASSUME AdminInit PROVE AdminInvariant
    OBVIOUS
  <2>1. PICK t \in Tables : role = t.role /\ active = t.active
    BY DEF AdminInit
  <2>2. /\ role \in [Users -> Roles] /\ active \in [Users -> BOOLEAN]
        /\ \E u \in Users : ActiveAdmin(u)
    BY <2>1, AdminAssumption DEF ActiveAdmin
  <2>3. \A r \in Requests : pc[r] = "idle" /\ met[r] = {}
    BY DEF AdminInit
  <2>4. Written(Permissions, "seed") \subseteq Rows
    BY DEF Written, Rows
  <2>5. AdminTypeOK
    BY <2>2, <2>4 DEF AdminInit, AdminTypeOK
  <2>6. PlainUsersHoldNothing
    BY <2>2 DEF AdminInit, PlainUsersHoldNothing
  <2> QED BY <2>2, <2>3, <2>5, <2>6 DEF AdminInvariant, WhoseStep, Acquainted,
        AloneIsAdmin, AdminRemains, LateWritersMet, DemotionSweeps, Asking,
        Booting, Running
<1>2. AdminInvariant /\ [AdminNext]_adminVars => AdminInvariant'
  <2> SUFFICES ASSUME AdminInvariant, [AdminNext]_adminVars
               PROVE  AdminInvariant'
    OBVIOUS
  <2>1. CASE AdminNext
    BY <2>1, TypeStep, AcquaintedStep, AloneStep, GrantsStep
       DEF AdminNext, AdminInvariant
  <2>2. CASE UNCHANGED adminVars
    BY <2>2 DEF adminVars, AdminInvariant, AdminTypeOK, WhoseStep, Acquainted,
         AloneIsAdmin, AdminRemains, LateWritersMet, DemotionSweeps,
         PlainUsersHoldNothing, ActiveAdmin, Running, IsKind
  <2> QED BY <2>1, <2>2
<1> QED BY <1>1, <1>2, PTL DEF AdminSpec

(* However many requests change users at once, the tables keep their form. *)
THEOREM AdminTypeCorrect == AdminSpec => []AdminTypeOK
BY AdminInvariantHolds, PTL DEF AdminInvariant

(* Without two requests at once nobody can lock all administrators out.    *)
THEOREM AdministratorRemains == AdminSpec => []AdminRemains
BY AdminInvariantHolds, PTL DEF AdminInvariant

(* A demoted user holds only what a request beside the demotion granted.   *)
THEOREM DemotionRevokes == AdminSpec => []PlainUsersHoldNothing
BY AdminInvariantHolds, PTL DEF AdminInvariant

-----------------------------------------------------------------------------
(* The memory notes of one user.                                           *)

(* Ids say who is older, also to a delete whose victims were read before.  *)
NotesOrdered ==
  /\ \A m, n \in notes : m.id = n.id => m = n
  /\ \A id \in evicted, n \in notes : id < n.id
  /\ \A j \in Jobs : \A id \in victims[j], n \in notes :
       n.id \notin victims[j] => id < n.id

(* Somebody still has to bring the notes within the cap, or they are, or   *)
(* the job that had to broke off.                                          *)
Answering(j) ==
  \/ step[j] \in {"count", "failed"}
  \/ step[j] = "find" /\ overflow[j] >= Overflow
  \/ step[j] = "delete" /\ Cardinality(Without(victims[j])) <= MaxNotes
CapAnswered == Cardinality(notes) <= MaxNotes \/ \E j \in Jobs : Answering(j)

(* What is about to be stored passed the checks of upsertNote.             *)
Checked == \A j \in Jobs :
             step[j] = "create" => todo[j] # << >> /\ Storable(Head(todo[j]))

NotesInvariant == /\ NotesTypeOK /\ IsFiniteSet(notes)
                  /\ Checked /\ NotesOrdered /\ CapAnswered

LEMMA ShorterTodo ==
  ASSUME NEW s \in Seq(Facts), NEW n \in Nat
  PROVE  /\ Take(s, n) \in Seq(Facts)
         /\ s # << >> => Head(s) \in Facts /\ Tail(s) \in Seq(Facts)
BY DEF Take

LEMMA ParsedFacts ==
  ASSUME NEW answer \in Answers
  PROVE  ParseFacts(answer) \in Seq(Facts)
BY NotesAssumption DEF ParseFacts

(* Whatever ids are deleted, the table stays one, and no step brings the   *)
(* rows it leaves out back over the cap.                                   *)
LEMMA RowsLeft ==
  ASSUME IsFiniteSet(notes), NEW ids
  PROVE  /\ Without(ids) \subseteq notes /\ IsFiniteSet(Without(ids))
         /\ Cardinality(Without(ids)) \in Nat /\ Cardinality(notes) \in Nat
         /\ Cardinality(Without(ids)) <= Cardinality(notes)
<1>1. Without(ids) \in SUBSET notes
  BY DEF Without
<1> QED BY <1>1, FS_Subset, FS_CardinalityType

LEMMA NotesTypeStep ==
  ASSUME NotesInvariant, NEW j \in Jobs, JobStep(j)
  PROVE  NotesTypeOK' /\ Checked' /\ IsFiniteSet(notes')
<1> USE DEF NotesInvariant, NotesTypeOK, Checked, Moves, tableVars, Storable
<1>1. CASE RunExtraction(j)
  <2>1. PICK answer \in Answers :
          todo' = [todo EXCEPT ![j] = Take(ParseFacts(answer), MaxFacts)]
    BY <1>1 DEF RunExtraction
  <2>2. Take(ParseFacts(answer), MaxFacts) \in Seq(Facts)
    BY ParsedFacts, ShorterTodo, NotesAssumption
  <2> QED BY <1>1, <2>1, <2>2 DEF RunExtraction
<1>2. CASE NextFact(j)
  <2>1. Head(todo[j]) \in Facts /\ Tail(todo[j]) \in Seq(Facts)
    BY <1>2, ShorterTodo, NotesAssumption DEF NextFact
  <2> QED BY <1>2, <2>1 DEF NextFact
<1>3. CASE Finish(j)
  BY <1>3 DEF Finish
<1>4. CASE CreateNote(j)
  <2>1. Head(todo[j]) \in Facts \ Unfit /\ Tail(todo[j]) \in Seq(Facts)
    BY <1>4, ShorterTodo, NotesAssumption DEF CreateNote
  <2>2. IsFiniteSet(notes')
    BY <1>4, FS_AddElement DEF CreateNote
  <2>3. 1..made \subseteq 1..made' /\ made + 1 \in 1..made' /\ made' \in Nat
    BY <1>4 DEF CreateNote
  <2>4. notes' \subseteq [id : 1..made', fact : Facts \ Unfit]
    BY <1>4, <2>1, <2>3 DEF CreateNote
  <2> QED BY <1>4, <2>1, <2>2, <2>3, <2>4 DEF CreateNote
<1>5. CASE CountNotes(j)
  <2>1. Overflow \in Int
    BY FS_CardinalityType, NotesAssumption DEF Overflow
  <2> QED BY <1>5, <2>1 DEF CountNotes
<1>6. CASE FindOldest(j)
  <2>1. PICK rows \in SUBSET notes : victims' = [victims EXCEPT ![j] = Ids(rows)]
    BY <1>6 DEF FindOldest, Oldest, Page
  <2>2. Ids(rows) \subseteq 1..made
    BY <2>1 DEF Ids
  <2>3. \A i \in Jobs : victims'[i] \subseteq 1..made
    BY <2>1, <2>2
  <2> QED BY <1>6, <2>3 DEF FindOldest
<1>7. CASE DeleteOldest(j)
  <2>1. notes' \subseteq notes /\ IsFiniteSet(notes')
    BY <1>7, RowsLeft DEF DeleteOldest
  <2> QED BY <1>7, <2>1 DEF DeleteOldest
<1>8. CASE GiveUpJob(j)
  BY <1>8 DEF GiveUpJob
<1> QED BY <1>1, <1>2, <1>3, <1>4, <1>5, <1>6, <1>7, <1>8 DEF JobStep

LEMMA NotesOrderStep ==
  ASSUME NotesInvariant, NEW j \in Jobs, JobStep(j)
  PROVE  NotesOrdered'
<1> USE DEF NotesInvariant, NotesTypeOK, NotesOrdered, Moves, tableVars
<1>1. CASE \/ RunExtraction(j) \/ NextFact(j) \/ Finish(j) \/ CountNotes(j)
  BY <1>1 DEF RunExtraction, NextFact, Finish, CountNotes
<1>2. CASE GiveUpJob(j)
  BY <1>2 DEF GiveUpJob
<1>3. CASE CreateNote(j)
  <2>1. \A n \in notes : n.id \in 1..made
    OBVIOUS
  <2>2. \A n \in notes' : n \in notes \/ n.id = made + 1
    BY <1>3 DEF CreateNote
  <2>3. \A m, n \in notes' : m.id = n.id => m = n
    BY <1>3, <2>1 DEF CreateNote
  <2> QED BY <1>3, <2>1, <2>2, <2>3 DEF CreateNote
<1>4. CASE FindOldest(j)
  <2>1. PICK rows \in SUBSET notes :
          /\ victims' = [victims EXCEPT ![j] = Ids(rows)]
          /\ \A old \in rows, new \in notes \ rows : old.id < new.id
    BY <1>4 DEF FindOldest, Oldest, Page
  <2>2. \A id \in Ids(rows), n \in notes : n.id \notin Ids(rows) => id < n.id
    BY <2>1 DEF Ids
  <2> QED BY <1>4, <2>1, <2>2 DEF FindOldest
<1>5. CASE DeleteOldest(j)
  <2>1. notes' = {n \in notes : n.id \notin victims[j]}
    BY <1>5 DEF DeleteOldest, Without
  <2>2. \A id \in evicted', n \in notes' : id < n.id
    BY <1>5, <2>1 DEF DeleteOldest
  <2>3. \A i \in Jobs : victims'[i] \subseteq victims[i]
    BY <1>5 DEF DeleteOldest
  <2>4. \A i \in Jobs : i # j => victims'[i] = victims[i]
    BY <1>5 DEF DeleteOldest
  <2>5. victims'[j] = {}
    BY <1>5 DEF DeleteOldest
  <2> QED BY <2>1, <2>2, <2>4, <2>5
<1> QED BY <1>1, <1>2, <1>3, <1>4, <1>5 DEF JobStep

(* A job that has counted, found or failed goes on answering for the notes *)
(* over the cap while others only delete rows or leave the table alone.    *)
LEMMA StillAnswering ==
  ASSUME NotesInvariant, NEW j \in Jobs, Answering(j),
         notes' \in SUBSET notes,
         step'[j] = step[j], overflow'[j] = overflow[j], victims'[j] = victims[j]
  PROVE  Answering(j)'
<1>1. /\ IsFiniteSet(notes') /\ Cardinality(notes') \in Nat
      /\ Cardinality(notes) \in Nat /\ Cardinality(notes') <= Cardinality(notes)
  BY FS_Subset, FS_CardinalityType DEF NotesInvariant
<1>2. overflow[j] >= Overflow => (overflow[j] >= Overflow)'
  BY <1>1, NotesAssumption DEF Overflow, NotesInvariant, NotesTypeOK
<1>3. Without(victims[j])' \in SUBSET Without(victims[j])
  BY DEF Without
<1>4. Cardinality(Without(victims[j])') <= Cardinality(Without(victims[j]))
  BY <1>3, RowsLeft, FS_Subset DEF NotesInvariant
<1>5. /\ Cardinality(Without(victims[j])) \in Nat
      /\ Cardinality(Without(victims[j])') \in Nat
  BY <1>3, RowsLeft, FS_Subset, FS_CardinalityType DEF NotesInvariant
<1> QED BY <1>2, <1>4, <1>5, NotesAssumption DEF Answering

LEMMA CapStays ==
  ASSUME NotesInvariant, notes' \in SUBSET notes,
         \A i \in Jobs : Answering(i) => Answering(i)'
  PROVE  CapAnswered'
<1>1. /\ Cardinality(notes') \in Nat
      /\ Cardinality(notes) \in Nat /\ Cardinality(notes') <= Cardinality(notes)
  BY FS_Subset, FS_CardinalityType DEF NotesInvariant
<1> QED BY <1>1, NotesAssumption DEF CapAnswered, NotesInvariant

LEMMA CapStep ==
  ASSUME NotesInvariant, NEW j \in Jobs, JobStep(j)
  PROVE  CapAnswered'
<1>0. /\ Cardinality(notes) \in Nat /\ MaxNotes \in Nat
      /\ DOMAIN step = Jobs /\ overflow \in [Jobs -> Nat]
      /\ DOMAIN victims = Jobs
  BY FS_CardinalityType, NotesAssumption DEF NotesInvariant, NotesTypeOK
<1> USE DEF Moves, tableVars
<1>1. CASE RunExtraction(j) \/ NextFact(j) \/ Finish(j)
  <2>1. /\ notes' = notes /\ overflow' = overflow /\ victims' = victims
        /\ step[j] \in {"idle", "next"}
        /\ \A i \in Jobs : i # j => step'[i] = step[i]
    BY <1>0, <1>1 DEF RunExtraction, NextFact, Finish
  <2>2. ~Answering(j)
    BY <2>1 DEF Answering
  <2>3. \A i \in Jobs : Answering(i) => Answering(i)'
    BY <2>1, <2>2, StillAnswering
  <2> QED BY <2>1, <2>3, CapStays
<1>2. CASE GiveUpJob(j)
  BY <1>0, <1>2 DEF GiveUpJob, CapAnswered, Answering
<1>3. CASE CreateNote(j)
  BY <1>0, <1>3 DEF CreateNote, CapAnswered, Answering
<1>4. CASE CountNotes(j)
  <2>1. CASE Overflow > 0
    <3>1. step'[j] = "find" /\ overflow'[j] = Overflow /\ notes' = notes
      BY <1>0, <1>4, <2>1 DEF CountNotes
    <3>2. overflow'[j] >= Overflow'
      BY <1>0, <3>1 DEF Overflow
    <3> QED BY <3>1, <3>2 DEF CapAnswered, Answering
  <2>2. CASE ~(Overflow > 0)
    <3>1. Cardinality(notes) <= MaxNotes /\ notes' = notes
      BY <1>0, <1>4, <2>2 DEF CountNotes, Overflow
    <3> QED BY <3>1 DEF CapAnswered
  <2> QED BY <2>1, <2>2
<1>5. CASE FindOldest(j)
  <2>1. PICK rows \in SUBSET notes :
          /\ victims' = [victims EXCEPT ![j] = Ids(rows)]
          /\ rows \in Page(overflow[j])
    BY <1>5 DEF FindOldest, Oldest, Page
  <2>2. /\ notes' = notes /\ step[j] = "find" /\ step'[j] = "delete"
        /\ victims'[j] = Ids(rows)
        /\ \A i \in Jobs : i # j => /\ step'[i] = step[i]
                                    /\ overflow'[i] = overflow[i]
                                    /\ victims'[i] = victims[i]
    BY <1>0, <1>5, <2>1 DEF FindOldest
  <2>3. Answering(j) => Answering(j)'
    <3> SUFFICES ASSUME overflow[j] >= Overflow
                 PROVE  Cardinality(Without(Ids(rows))) <= MaxNotes
      BY <2>2 DEF Answering, Without
    <3>1. Without(Ids(rows)) = notes \ rows
      BY DEF Without, Ids, NotesInvariant, NotesOrdered
    <3>2. IsFiniteSet(rows) /\ Cardinality(rows) \in Nat
      BY FS_Subset, FS_CardinalityType DEF NotesInvariant
    <3>3. Cardinality(notes \ rows) = Cardinality(notes) - Cardinality(rows)
      <4>1. IsFiniteSet(notes \ rows) /\ Cardinality(notes \ rows) \in Nat
        BY FS_Subset, FS_CardinalityType DEF NotesInvariant
      <4>2. (notes \ rows) \cup rows = notes /\ (notes \ rows) \cap rows = {}
        OBVIOUS
      <4> QED BY <3>2, <4>1, <4>2, FS_Union, FS_EmptySet
    <3>4. Cardinality(rows) = IF Cardinality(notes) < overflow[j]
                              THEN Cardinality(notes) ELSE overflow[j]
      BY <2>1 DEF Page
    <3> QED BY <1>0, <3>1, <3>2, <3>3, <3>4 DEF Overflow
  <2>4. \A i \in Jobs : Answering(i) => Answering(i)'
    BY <2>2, <2>3, StillAnswering
  <2> QED BY <2>2, <2>4, CapStays
<1>6. CASE DeleteOldest(j)
  <2>1. /\ notes' = Without(victims[j]) /\ notes' \in SUBSET notes
        /\ step[j] = "delete"
        /\ \A i \in Jobs : i # j => /\ step'[i] = step[i]
                                    /\ overflow'[i] = overflow[i]
                                    /\ victims'[i] = victims[i]
    BY <1>0, <1>6 DEF DeleteOldest, Without
  <2>2. CASE Answering(j)
    BY <2>1, <2>2 DEF Answering, CapAnswered
  <2>3. CASE ~Answering(j)
    <3>1. \A i \in Jobs : Answering(i) => Answering(i)'
      BY <2>1, <2>3, StillAnswering
    <3> QED BY <2>1, <3>1, CapStays
  <2> QED BY <2>2, <2>3
<1> QED BY <1>1, <1>2, <1>3, <1>4, <1>5, <1>6 DEF JobStep

(* Whatever the user erases.                                               *)
LEMMA EraseStep ==
  ASSUME NotesInvariant, EraseOne \/ EraseAll
  PROVE  NotesInvariant'
<1>1. PICK ids : Erase(ids)
  BY DEF EraseOne, EraseAll
<1>2. /\ notes' = Without(ids) /\ notes' \in SUBSET notes /\ IsFiniteSet(notes')
      /\ erasures < MaxErasures /\ erasures' = erasures + 1
      /\ UNCHANGED <<made, evicted, step, todo, overflow, victims>>
  BY <1>1, RowsLeft DEF Erase, jobVars, NotesInvariant
<1>3. NotesTypeOK' /\ Checked'
  BY <1>2, NotesAssumption DEF NotesInvariant, NotesTypeOK, Checked
<1>4. NotesOrdered'
  BY <1>2 DEF NotesInvariant, NotesOrdered
<1>5. CapAnswered'
  BY <1>2, StillAnswering, CapStays
<1> QED BY <1>2, <1>3, <1>4, <1>5 DEF NotesInvariant

LEMMA JobKeepsNotes ==
  ASSUME NotesInvariant, NEW j \in Jobs, JobStep(j)
  PROVE  NotesInvariant'
BY NotesTypeStep, NotesOrderStep, CapStep DEF NotesInvariant

LEMMA NotesStutter ==
  ASSUME NotesInvariant, UNCHANGED notesVars
  PROVE  NotesInvariant'
BY DEF notesVars, tableVars, jobVars, NotesInvariant, NotesTypeOK, Checked,
       NotesOrdered, CapAnswered, Answering, Overflow, Without

LEMMA NotesInvariantHolds == NotesSpec => []NotesInvariant
<1>1. NotesInit => NotesInvariant
  BY FS_EmptySet, NotesAssumption
     DEF NotesInit, NotesInvariant, NotesTypeOK, Checked, NotesOrdered, CapAnswered
<1>2. NotesInvariant /\ [NotesNext]_notesVars => NotesInvariant'
  BY JobKeepsNotes, EraseStep, NotesStutter DEF NotesNext
<1> QED BY <1>1, <1>2, PTL DEF NotesSpec

(* However many extractions run at once and whatever the user erases       *)
(* meanwhile, the notes kept are newer than those evicted, and with no     *)
(* eviction under way and none broken off they are within the cap.         *)
THEOREM EvictionKeepsNewest == NotesSpec => []NewestNotesKept
<1>1. NotesInvariant => NewestNotesKept
  <2> SUFFICES ASSUME NotesInvariant PROVE NewestNotesKept
    OBVIOUS
  <2>1. \A id \in evicted, kept \in Ids(notes) : id < kept
    BY DEF NotesInvariant, NotesOrdered, Ids
  <2>2. Quiet => Cardinality(notes) <= MaxNotes
    BY DEF NotesInvariant, CapAnswered, Answering, Quiet
  <2> QED BY <2>1, <2>2 DEF NewestNotesKept
<1> QED BY <1>1, NotesInvariantHolds, PTL

-----------------------------------------------------------------------------
(* The two services beside each other are each of them as it is alone:     *)
(* a step of one leaves the other's state untouched.                       *)
THEOREM OfficeImplementsServices == OfficeSpec => AdminSpec /\ NotesSpec
<1>1. OfficeInit => AdminInit /\ NotesInit
  BY DEF OfficeInit
<1>2. [OfficeNext]_officeVars => [AdminNext]_adminVars /\ [NotesNext]_notesVars
  <2> SUFFICES ASSUME [OfficeNext]_officeVars
               PROVE  [AdminNext]_adminVars /\ [NotesNext]_notesVars
    OBVIOUS
  <2>1. CASE \E r \in Requests : AdminDesk(r)
    BY <2>1 DEF AdminDesk, AdminNext
  <2>2. CASE \E j \in Jobs : MemoryDesk(j)
    BY <2>2 DEF MemoryDesk, NotesNext
  <2>3. CASE UserDesk
    BY <2>3 DEF UserDesk, NotesNext
  <2>4. CASE UNCHANGED officeVars
    BY <2>4 DEF officeVars
  <2> QED BY <2>1, <2>2, <2>3, <2>4 DEF OfficeNext
<1> QED BY <1>1, <1>2, PTL DEF OfficeSpec, AdminSpec, NotesSpec

(* Both tables keep their form: nothing blank or oversized is remembered,  *)
(* and whatever a request wrote is a role, a status or a grant.            *)
THEOREM OfficeTypeCorrect == OfficeSpec => []OfficeTypeOK
<1>1. AdminInvariant /\ NotesInvariant => OfficeTypeOK
  BY DEF AdminInvariant, NotesInvariant, OfficeTypeOK
<1> QED BY <1>1, OfficeImplementsServices, AdminInvariantHolds,
           NotesInvariantHolds, PTL

(* So the back office as a whole keeps what each of its services promises. *)
THEOREM OfficeSafe ==
  OfficeSpec => [](AdminRemains /\ PlainUsersHoldNothing /\ NewestNotesKept)
BY OfficeImplementsServices, AdministratorRemains, DemotionRevokes,
   EvictionKeepsNewest, PTL
=============================================================================
