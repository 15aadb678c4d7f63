---------------------------- MODULE AdminAccess ----------------------------
(***************************************************************************)
(* The back office: who may change whom.  Requests run at once, every      *)
(* query a step of its own: PermissionsGuard reads the actor's role, then  *)
(* their grants; the handler reads the target, then writes.  A transaction *)
(* runs at READ COMMITTED, so its DELETE removes the rows that were there  *)
(* when it was issued; a row of users it has updated is locked until it    *)
(* ends.  Which of two transactions that delete the same grants commits    *)
(* first is left open.  Left out: lists and searches, and     *)
(* what an audit entry says beyond who wrote it.                           *)
(***************************************************************************)
CONSTANTS Requests,     \* HTTP requests, and runs of the bootstrap
          Users,
          Permissions,  \* AdminPermission
          Choices,      \* the permission sets a request may ask for
          Bootstrapped, \* users named by BOOTSTRAP_ADMIN_EMAILS
          Tables        \* users tables to begin with: [role, active]

Roles == {"guest", "user", "admin"}

ASSUME AdminAssumption ==
  /\ Choices \subseteq SUBSET Permissions /\ Bootstrapped \subseteq Users
  /\ {"users_manage_status", "users_manage_role", "users_manage_permissions"}
       \subseteq Permissions
  /\ Tables \subseteq [role : [Users -> Roles], active : [Users -> BOOLEAN]]
  /\ \A t \in Tables : \E u \in Users : t.role[u] = "admin" /\ t.active[u]

VARIABLES
  role,     \* users.role
  active,   \* users.is_active
  grants,   \* admin_permission_grants of a user: [permission, by], by the
            \* request that wrote the row or "seed"
  audit,    \* the requests admin_audit_log_entries holds
  pc,       \* where a request is
  req,      \* what it asks: [kind, actor, target, arg]
  doomed,   \* the rows its DELETE statement saw
  met,      \* met[r]: the requests that ran at the same time as r
  demoter   \* demoter[u]: the request that made u a plain user last

userVars  == <<role, active, grants, audit>>
adminVars == <<role, active, grants, audit, pc, req, doomed, met, demoter>>

Need == [status      |-> {"users_manage_status"},
         role        |-> {"users_manage_role"},
         permissions |-> {"users_manage_permissions"}]
AskOf(kind, args) == [kind : {kind}, actor : Users, target : Users, arg : args]
Asks == AskOf("status", BOOLEAN) \cup AskOf("role", Roles)
          \cup AskOf("permissions", Choices)
Rows == [permission : Permissions, by : Requests \cup {"seed"}]
Idle == [kind |-> "none"]
Bootstraps == [kind : {"bootstrap"}, target : Bootstrapped]

Held(u) == {g.permission : g \in grants[u]}
ActiveAdmin(u) == role[u] = "admin" /\ active[u]
Over == {"done", "refused", "failed"}
Running(r) == pc[r] \notin Over \cup {"idle"}
IsKind(r, k) == req[r].kind = k

Goto(r, to) == pc' = [pc EXCEPT ![r] = to]
At(r, from, to) == pc[r] = from /\ Goto(r, to)
Reads(r, from, to) == /\ At(r, from, to)
                      /\ UNCHANGED <<userVars, req, doomed, met, demoter>>
Written(p, by) == [permission : p, by : {by}]

(* Somebody was made an administrator before the first request, by a       *)
(* bootstrap; administrators start with everything.                        *)
AdminInit ==
  /\ \E t \in Tables : role = t.role /\ active = t.active
  /\ grants = [u \in Users |->
                 IF role[u] = "admin" THEN Written(Permissions, "seed") ELSE {}]
  /\ audit = {}
  /\ pc = [r \in Requests |-> "idle"]
  /\ req = [r \in Requests |-> Idle]
  /\ doomed = [r \in Requests |-> {}]
  /\ met = [r \in Requests |-> {}]
  /\ demoter = [u \in Users |-> "seed"]

-----------------------------------------------------------------------------
(* A request arrives.  `met` only records whom it runs beside.             *)
Arrive(r, ask, to) ==
  LET others == {s \in Requests : Running(s)} IN
    /\ At(r, "idle", to)
    /\ req' = [req EXCEPT ![r] = ask]
    /\ met' = [s \in Requests |-> IF s = r THEN others
                                  ELSE IF s \in others THEN met[s] \cup {r}
                                  ELSE met[s]]
    /\ UNCHANGED <<userVars, doomed, demoter>>

Ask(r) == \E ask \in Asks : Arrive(r, ask, "guard")
Boot(r) == \E ask \in Bootstraps : Arrive(r, ask, "lookup")

(* PermissionsGuard.canActivate                                            *)
GuardRole(r) ==
  Reads(r, "guard", IF ActiveAdmin(req[r].actor) THEN "grants" ELSE "refused")
GuardGrants(r) ==
  Reads(r, "grants", IF Need[req[r].kind] \subseteq Held(req[r].actor)
                     THEN "find" ELSE "refused")

(* Mutation: only a change of one's own status is refused.                 *)
MayTargetSelf(r) == IsKind(r, "status") => req[r].actor # req[r].target
MayTarget(r) == req[r].actor # req[r].target          \* assertNotSelf

(* Mutation: whoever is not a guest may be granted permissions.            *)
HoldsGrantsAsUser(r) ==
  IsKind(r, "permissions") => role[req[r].target] # "guest"

(* assertNotSelf, findOrThrow and, for permissions, the check of the role  *)
(* that was read                                                           *)
HoldsGrants(r) == IsKind(r, "permissions") => role[req[r].target] = "admin"
Find(r) ==
  Reads(r, "find", IF MayTarget(r) /\ HoldsGrants(r) THEN "write" ELSE "refused")

-----------------------------------------------------------------------------
(* A transaction that has updated the row of the user has not ended.       *)
Locked(u) == \E r \in Requests : pc[r] \in {"strip", "commit"}
                                 /\ IsKind(r, "role") /\ req[r].target = u

UpdateStatus(r) ==
  /\ IsKind(r, "status") /\ At(r, "write", "audit") /\ ~Locked(req[r].target)
  /\ active' = [active EXCEPT ![req[r].target] = req[r].arg]
  /\ UNCHANGED <<role, grants, audit, req, doomed, met, demoter>>

Strips(r) == req[r].arg = "user"                 \* revokeAllForUser

(* A demotion first updates the role, which nobody sees before it commits. *)
UpdateRole(r) ==
  /\ IsKind(r, "role") /\ Strips(r) /\ ~Locked(req[r].target)
  /\ Reads(r, "write", "strip")

(* A transaction's DELETE: revokeAllForUser, or the first half of          *)
(* replaceForUser                                                          *)
Delete(r) ==
  /\ \/ IsKind(r, "permissions") /\ At(r, "write", "commit")
     \/ IsKind(r, "role") /\ At(r, "strip", "commit")
  /\ doomed' = [doomed EXCEPT ![r] = grants[req[r].target]]
  /\ UNCHANGED <<userVars, req, met, demoter>>

CommitRole(r) ==
  /\ IsKind(r, "role")
  /\ IF Strips(r) THEN At(r, "commit", "audit")
     ELSE At(r, "write", "audit") /\ ~Locked(req[r].target)
  /\ role' = [role EXCEPT ![req[r].target] = req[r].arg]
  /\ grants' = [grants EXCEPT ![req[r].target] = @ \ doomed[r]]
  /\ demoter' = IF Strips(r) THEN [demoter EXCEPT ![req[r].target] = r]
                ELSE demoter
  /\ UNCHANGED <<active, audit, req, doomed, met>>

(* createMany violates the unique (user, permission) when another          *)
(* replacement's rows are there: the transaction rolls back.               *)
CommitGrants(r) ==
  LET t == req[r].target
      kept == grants[t] \ doomed[r]
  IN /\ IsKind(r, "permissions") /\ pc[r] = "commit"
     /\ IF {g.permission : g \in kept} \cap req[r].arg = {}
        THEN /\ grants' = [grants EXCEPT ![t] = kept \cup Written(req[r].arg, r)]
             /\ Goto(r, "audit")
        ELSE Goto(r, "failed") /\ UNCHANGED grants
     /\ UNCHANGED <<role, active, audit, req, doomed, met, demoter>>

RecordAudit(r) == /\ At(r, "audit", "done")
                  /\ audit' = audit \cup {r}
                  /\ UNCHANGED <<role, active, grants, req, doomed, met, demoter>>

-----------------------------------------------------------------------------
(* ensureBootstrapAdmin: the role is read, promoted only when it was not   *)
(* admin, and every permission is granted in a transaction that leaves     *)
(* present rows alone.                                                     *)
Lookup(r) ==
  Reads(r, "lookup", IF role[req[r].target] = "admin" THEN "grant" ELSE "promote")
Promote(r) ==
  /\ At(r, "promote", "grant") /\ ~Locked(req[r].target)
  /\ role' = [role EXCEPT ![req[r].target] = "admin"]
  /\ UNCHANGED <<active, grants, audit, req, doomed, met, demoter>>
GrantAll(r) ==
  LET t == req[r].target IN
    /\ At(r, "grant", "done")
    /\ grants' = [grants EXCEPT ![t] = @ \cup Written(Permissions \ Held(t), r)]
    /\ UNCHANGED <<role, active, audit, req, doomed, met, demoter>>

(* A query throws, or the process dies: what was committed stays.          *)
Break(r) == Running(r) /\ Reads(r, pc[r], "failed")

AdminStep(r) ==
  \/ Ask(r) \/ Boot(r) \/ GuardRole(r) \/ GuardGrants(r) \/ Find(r)
  \/ UpdateStatus(r) \/ UpdateRole(r) \/ Delete(r) \/ CommitRole(r)
  \/ CommitGrants(r) \/ RecordAudit(r) \/ Lookup(r) \/ Promote(r) \/ GrantAll(r) \/ Break(r)
AdminNext == \E r \in Requests : AdminStep(r)
AdminSpec == AdminInit /\ [][AdminNext]_adminVars

-----------------------------------------------------------------------------
AdminTypeOK ==
  /\ role \in [Users -> Roles] /\ active \in [Users -> BOOLEAN]
  /\ grants \in [Users -> SUBSET Rows] /\ audit \subseteq Requests
  /\ pc \in [Requests -> {"idle", "guard", "grants", "find", "write", "strip",
                          "commit", "audit", "lookup", "promote", "grant"} \cup Over]
  /\ req \in [Requests -> Asks \cup Bootstraps \cup {Idle}]
  /\ doomed \in [Requests -> SUBSET Rows]
  /\ met \in [Requests -> SUBSET Requests]
  /\ demoter \in [Users -> Requests \cup {"seed"}]

(* Somebody stays an active administrator unless two requests ran at once: *)
(* one after another they cannot lock everybody out, because assertNotSelf *)
(* keeps the actor (admin-users.service.ts:125).  Two administrators who   *)
(* demote each other at the same moment can.                               *)
AdminRemains ==
  (\E u \in Users : ActiveAdmin(u)) \/ \E r \in Requests : met[r] # {}

(* A plain user holds only grants written by a request that ran beside the *)
(* one that demoted them: otherwise promoting them again would bring the   *)
(* old permissions back (the comment at admin-users.service.ts:82).        *)
PlainUsersHoldNothing ==
  \A u \in Users : role[u] = "user" =>
    \A g \in grants[u] : demoter[u] \in Requests /\ g.by \in met[demoter[u]]
=============================================================================
