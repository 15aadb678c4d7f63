--------------------------- MODULE RefreshTokens ---------------------------
(***************************************************************************)
(* AuthService: login, concurrent refresh requests with rotation and reuse *)
(* detection, and logout, over PostgreSQL at READ COMMITTED.               *)
(*                                                                         *)
(* What the database contributes and the code leans on: a row inserted in  *)
(* a transaction is invisible until it commits; an UPDATE locks the row it *)
(* hits until its transaction ends; an UPDATE that meets a locked row      *)
(* waits and then evaluates its WHERE clause again; and a statement sees   *)
(* only the rows committed when it started, so one that waited does not    *)
(* see a row committed meanwhile.                                          *)
(*                                                                         *)
(* A token is a row of refresh_tokens and the JWT that names it.  Left out:*)
(* expiry, user lookup and hash checks, which can only refuse a request    *)
(* (BeginRotation may), and the cleanup job, which deletes rows whose JWTs *)
(* no guard accepts any more.                                              *)
(***************************************************************************)
CONSTANTS Requests,   \* POST /auth/refresh invocations
          Tokens,     \* refresh token ids
          NoToken     \* no token

ASSUME RefreshTokensAssumption == NoToken \notin Tokens

VARIABLES
  row,       \* row[t]: "none", "pending" (uncommitted), "live", "revoked",
             \* or "undone" (rolled back)
  family,    \* family[t]: familyId, as the token of the login that began it
  parent,    \* parent[t]: the token it replaces (the row with replacedById)
  pc,        \* where a request is
  token,     \* the token a request presented
  child,     \* the token its transaction inserted
  snapshot   \* the rows its revocation statement saw

request == <<pc, token, child, snapshot>>
vars    == <<row, family, parent, pc, token, child, snapshot>>

Ended == {"done", "rejected", "reuse"}

HandedOut(t) == row[t] \in {"live", "revoked"}

(* The rotating UPDATE holds its row until the transaction ends.           *)
Locked(t) == \E r \in Requests : pc[r] = "rotated" /\ token[r] = t

Goto(r, to) == pc' = [pc EXCEPT ![r] = to]

Init ==
  /\ row = [t \in Tokens |-> "none"]
  /\ family = [t \in Tokens |-> NoToken]
  /\ parent = [t \in Tokens |-> NoToken]
  /\ pc = [r \in Requests |-> "idle"]
  /\ token = [r \in Requests |-> NoToken]
  /\ child = [r \in Requests |-> NoToken]
  /\ snapshot = [r \in Requests |-> {}]

-----------------------------------------------------------------------------
(* login and register: issueTokenPair with a fresh familyId                *)
Login(t) ==
  /\ row[t] = "none"
  /\ row' = [row EXCEPT ![t] = "live"]
  /\ family' = [family EXCEPT ![t] = t]
  /\ UNCHANGED <<parent, request>>

(* refresh reads the presented row; a revoked one is a reuse.              *)
Present(r, t) ==
  /\ pc[r] = "idle"
  /\ HandedOut(t)
  /\ token' = [token EXCEPT ![r] = t]
  /\ Goto(r, IF row[t] = "revoked" THEN "conflict" ELSE "read")
  /\ UNCHANGED <<row, family, parent, child, snapshot>>

(* Mutation: the child row is inserted outside the transaction.            *)
BeginCommitted(r) ==
  /\ pc[r] = "read"
  /\ \E c \in Tokens :
       /\ row[c] = "none"
       /\ row' = [row EXCEPT ![c] = "live"]
       /\ family' = [family EXCEPT ![c] = family[token[r]]]
       /\ parent' = [parent EXCEPT ![c] = token[r]]
       /\ child' = [child EXCEPT ![r] = c]
  /\ Goto(r, "inserted")
  /\ UNCHANGED <<token, snapshot>>

(* Mutation: the child gets the parent's replacement link as its family.   *)
BeginFamilyless(r) ==
  /\ pc[r] = "read"
  /\ \E c \in Tokens :
       /\ row[c] = "none"
       /\ row' = [row EXCEPT ![c] = "pending"]
       /\ family' = [family EXCEPT ![c] = parent[token[r]]]
       /\ parent' = [parent EXCEPT ![c] = token[r]]
       /\ child' = [child EXCEPT ![r] = c]
  /\ Goto(r, "inserted")
  /\ UNCHANGED <<token, snapshot>>

(* The user is active: the transaction opens and inserts the child row.    *)
BeginRotation(r) ==
  /\ pc[r] = "read"
  /\ \E c \in Tokens :
       /\ row[c] = "none"
       /\ row' = [row EXCEPT ![c] = "pending"]
       /\ family' = [family EXCEPT ![c] = family[token[r]]]
       /\ parent' = [parent EXCEPT ![c] = token[r]]
       /\ child' = [child EXCEPT ![r] = c]
  /\ Goto(r, "inserted")
  /\ UNCHANGED <<token, snapshot>>

(* ... or the token is expired or the user is gone or inactive.            *)
Refuse(r) ==
  /\ pc[r] = "read"
  /\ Goto(r, "rejected")
  /\ UNCHANGED <<row, family, parent, token, child, snapshot>>

RollBack(r) == row' = [row EXCEPT ![child[r]] = "undone"]

(* Mutation: a lost race is retried instead of being reported.             *)
RotateRetries(r) ==
  /\ pc[r] = "inserted"
  /\ ~ Locked(token[r])
  /\ row[token[r]] = "live"
  /\ Goto(r, "rotated")
  /\ UNCHANGED <<row, family, parent, token, child, snapshot>>

(* UPDATE ... WHERE id AND revoked_at IS NULL, once nobody holds the row:  *)
(* one row updated, or none and the transaction is rolled back.            *)
Rotate(r) ==
  /\ pc[r] = "inserted"
  /\ ~ Locked(token[r])
  /\ IF row[token[r]] = "live"
     THEN Goto(r, "rotated") /\ UNCHANGED row
     ELSE Goto(r, "conflict") /\ RollBack(r)
  /\ UNCHANGED <<family, parent, token, child, snapshot>>

(* Mutation: the old row is left valid.                                    *)
CommitKeepsOld(r) ==
  /\ pc[r] = "rotated"
  /\ row' = [row EXCEPT ![child[r]] = "live"]
  /\ Goto(r, "done")
  /\ UNCHANGED <<family, parent, token, child, snapshot>>

(* The transaction commits: both rows change at once, and the response     *)
(* carries the child token.                                                *)
Commit(r) ==
  /\ pc[r] = "rotated"
  /\ row' = [row EXCEPT ![token[r]] = "revoked", ![child[r]] = "live"]
  /\ Goto(r, "done")
  /\ UNCHANGED <<family, parent, token, child, snapshot>>

(* The transaction fails: database error or Prisma's transaction timeout.  *)
Abort(r) ==
  /\ pc[r] \in {"inserted", "rotated"}
  /\ RollBack(r)
  /\ Goto(r, "rejected")
  /\ UNCHANGED <<family, parent, token, child, snapshot>>

(* revokeFamilyAndAudit: the statement starts and sees the valid rows ...  *)
RevokeStart(r) ==
  /\ pc[r] = "conflict"
  /\ snapshot' = [snapshot EXCEPT ![r] =
       {t \in Tokens : row[t] = "live" /\ family[t] = family[token[r]]}]
  /\ Goto(r, "revoking")
  /\ UNCHANGED <<row, family, parent, token, child>>

(* ... and revokes those that are still valid when no one holds them.      *)
RevokeFamily(r) ==
  /\ pc[r] = "revoking"
  /\ \A t \in snapshot[r] : ~ Locked(t)
  /\ row' = [t \in Tokens |-> IF t \in snapshot[r] /\ row[t] = "live"
                              THEN "revoked" ELSE row[t]]
  /\ Goto(r, "reuse")
  /\ UNCHANGED <<family, parent, token, child, snapshot>>

(* logout revokes the presented row, once nobody holds it.                 *)
Logout(t) ==
  /\ row[t] = "live"
  /\ ~ Locked(t)
  /\ row' = [row EXCEPT ![t] = "revoked"]
  /\ UNCHANGED <<family, parent, request>>

Progress(r) == \/ BeginRotation(r) \/ Refuse(r) \/ Rotate(r) \/ Commit(r)
               \/ RevokeStart(r) \/ RevokeFamily(r)

Next == \/ \E t \in Tokens : Login(t) \/ Logout(t)
        \/ \E r \in Requests : \/ \E t \in Tokens : Present(r, t)
                               \/ Progress(r)
                               \/ Abort(r)

Spec == Init /\ [][Next]_vars

(* The backend and the database carry every started request on; nothing    *)
(* obliges a transaction to fail.                                          *)
FairSpec == Spec /\ \A r \in Requests : WF_vars(Progress(r))

-----------------------------------------------------------------------------
(* Properties *)

(* Every variable keeps its type; family_id is NOT NULL.                   *)
TypeOK ==
  /\ row \in [Tokens -> {"none", "pending", "live", "revoked", "undone"}]
  /\ family \in [Tokens -> Tokens \cup {NoToken}]
  /\ parent \in [Tokens -> Tokens \cup {NoToken}]
  /\ pc \in [Requests -> {"idle", "read", "inserted", "rotated", "conflict",
                          "revoking"} \cup Ended]
  /\ token \in [Requests -> Tokens \cup {NoToken}]
  /\ child \in [Requests -> Tokens \cup {NoToken}]
  /\ snapshot \in [Requests -> SUBSET Tokens]
  /\ \A t \in Tokens : row[t] # "none" => family[t] \in Tokens
  /\ \A r \in Requests : pc[r] # "idle" => token[r] \in Tokens

(* A token is rotated successfully at most once: no two tokens that were   *)
(* ever handed out replace the same one, however many requests present it  *)
(* (plan.md:177, auth.service.ts:232).                                     *)
RotatedOnce ==
  \A c, d \in Tokens :
    HandedOut(c) /\ HandedOut(d) /\ parent[c] = parent[d] /\ parent[c] # NoToken
      => c = d

(* A family never has two valid tokens, whatever rotations, revocations    *)
(* and logouts overlap (plan.md:178).                                      *)
OneValidPerFamily ==
  \A t, u \in Tokens :
    row[t] = "live" /\ row[u] = "live" /\ family[t] = family[u] => t = u

(* What an open transaction may count on: its child row is its own, still  *)
(* uncommitted and of the presented token's family, and the row its UPDATE *)
(* hit stays valid and its alone until the commit.                         *)
TransactionsIsolated ==
  \A r \in Requests :
    /\ pc[r] \in {"inserted", "rotated"} =>
         /\ child[r] \in Tokens
         /\ row[child[r]] = "pending"
         /\ parent[child[r]] = token[r]
         /\ family[child[r]] = family[token[r]]
         /\ \A q \in Requests \ {r} :
              pc[q] \in {"inserted", "rotated"} => child[q] # child[r]
    /\ pc[r] = "rotated" =>
         /\ row[token[r]] = "live"
         /\ \A q \in Requests \ {r} : pc[q] = "rotated" => token[q] # token[r]

(* The history of a family is whole: what was handed out belongs to a      *)
(* family whose login was, and replaces a token that is revoked by now.    *)
LineageRevoked ==
  \A t \in Tokens :
    /\ row[t] \in {"pending", "live", "revoked"} =>
         family[t] \in Tokens /\ HandedOut(family[t])
    /\ HandedOut(t) /\ parent[t] # NoToken => row[parent[t]] = "revoked"

(* The table implements TokenFamilies.                                     *)
Families == INSTANCE TokenFamilies
              WITH current <- [f \in Tokens |->
                                 {t \in Tokens : row[t] = "live" /\ family[t] = f}],
                   used    <- {t \in Tokens : HandedOut(t)}

ImplementsFamilies == Families!FamiliesSpec

(* No refresh hangs: the rotation or revocation whose lock its UPDATE      *)
(* waits for (auth.service.ts, $transaction) commits or rolls back.        *)
EveryRequestEnds == \A r \in Requests : pc[r] # "idle" ~> pc[r] \in Ended

-----------------------------------------------------------------------------
(* What the documentation says and the code does not do                    *)

(* docs/threat-model.md:63: after a reuse "the entire token family is      *)
(* revoked, forcing re-authentication everywhere".                         *)
ReuseEndsFamily ==
  \A r \in Requests : pc[r] = "reuse" =>
    ~ \E t \in Tokens : row[t] = "live" /\ family[t] = family[token[r]]
=============================================================================
