------------------------ MODULE RefreshTokens_proofs ------------------------
(***************************************************************************)
(* Proofs about RefreshTokens, for any number of requests and tokens.      *)
(***************************************************************************)
EXTENDS RefreshTokens, TLAPS

(* A presented token was handed out before, a revocation targets handed    *)
(* out tokens of its own family, and a row that does not exist has no      *)
(* parent.                                                                 *)
Presented ==
  /\ \A r \in Requests :
       /\ pc[r] # "idle" => HandedOut(token[r])
       /\ pc[r] = "revoking" =>
            \A t \in snapshot[r] : HandedOut(t) /\ family[t] = family[token[r]]
  /\ \A t \in Tokens : row[t] = "none" => parent[t] = NoToken

(* The checked invariants are inductive together with Presented: a token   *)
(* is rotated once because every row that was handed out has a revoked     *)
(* parent, and the row a transaction is about to revoke is valid until it  *)
(* commits.                                                                *)
TokenInv == /\ TypeOK
            /\ RotatedOnce
            /\ OneValidPerFamily
            /\ TransactionsIsolated
            /\ LineageRevoked
            /\ Presented

(* The program starts in the invariant.                                    *)
LEMMA TokenInvInit == Init => TokenInv
  BY RefreshTokensAssumption
  DEF Init, TokenInv, TypeOK, RotatedOnce, OneValidPerFamily, Presented,
      TransactionsIsolated, LineageRevoked, HandedOut, Ended

(* Every step of every action preserves it.                                *)
LEMMA TokenInvStep == TokenInv /\ [Next]_vars => TokenInv'
<1> SUFFICES ASSUME TokenInv, [Next]_vars PROVE TokenInv'
  OBVIOUS
<1> USE RefreshTokensAssumption
        DEF TokenInv, TypeOK, RotatedOnce, OneValidPerFamily, Presented,
            TransactionsIsolated, LineageRevoked, HandedOut, Ended, Locked,
            Goto, request
<1>1. ASSUME NEW t \in Tokens, Login(t)
      PROVE  TokenInv'
  BY <1>1 DEF Login
<1>2. ASSUME NEW t \in Tokens, Logout(t)
      PROVE  TokenInv'
  BY <1>2 DEF Logout
<1>3. ASSUME NEW r \in Requests, NEW t \in Tokens, Present(r, t)
      PROVE  TokenInv'
<2>1. PICK to \in {"conflict", "read"} : Goto(r, to)
    BY <1>3 DEF Present
<2>2. QED
    BY <1>3, <2>1 DEF Present
<1>4. ASSUME NEW r \in Requests, BeginRotation(r)
      PROVE  TokenInv'
  BY <1>4 DEF BeginRotation
<1>5. ASSUME NEW r \in Requests, Refuse(r)
      PROVE  TokenInv'
  BY <1>5 DEF Refuse
<1>6. ASSUME NEW r \in Requests, Rotate(r)
      PROVE  TokenInv'
<2>1. CASE row[token[r]] = "live"
    BY <1>6, <2>1 DEF Rotate
<2>2. CASE row[token[r]] # "live"
  <3>1. /\ row' = [row EXCEPT ![child[r]] = "undone"]
        /\ pc' = [pc EXCEPT ![r] = "conflict"]
        /\ UNCHANGED <<family, parent, token, child, snapshot>>
    BY <1>6, <2>2 DEF Rotate, RollBack
  <3>2. pc[r] = "inserted" /\ child[r] \in Tokens /\ row[child[r]] = "pending"
    BY <1>6 DEF Rotate
  <3>3. TypeOK' /\ RotatedOnce' /\ OneValidPerFamily'
    BY <3>1, <3>2
  <3>4. TransactionsIsolated'
    BY <3>1, <3>2
  <3>5. LineageRevoked' /\ Presented'
    BY <3>1, <3>2
  <3>6. QED
    BY <3>3, <3>4, <3>5
<2>3. QED
    BY <2>1, <2>2
<1>7. ASSUME NEW r \in Requests, Commit(r)
      PROVE  TokenInv'
<2>1. /\ row' = [row EXCEPT ![token[r]] = "revoked", ![child[r]] = "live"]
      /\ pc' = [pc EXCEPT ![r] = "done"]
      /\ UNCHANGED <<family, parent, token, child, snapshot>>
  BY <1>7 DEF Commit
<2>2. /\ pc[r] = "rotated"
      /\ child[r] \in Tokens /\ row[child[r]] = "pending"
      /\ token[r] \in Tokens /\ row[token[r]] = "live"
      /\ parent[child[r]] = token[r] /\ family[child[r]] = family[token[r]]
  BY <1>7 DEF Commit
<2>3. TypeOK'
  BY <2>1, <2>2
<2>4. RotatedOnce' /\ OneValidPerFamily'
  BY <2>1, <2>2
<2>5. TransactionsIsolated'
  BY <2>1, <2>2
<2>6. LineageRevoked' /\ Presented'
  BY <2>1, <2>2
<2>7. QED
  BY <2>3, <2>4, <2>5, <2>6
<1>8. ASSUME NEW r \in Requests, Abort(r)
      PROVE  TokenInv'
  BY <1>8 DEF Abort, RollBack
<1>9. ASSUME NEW r \in Requests, RevokeStart(r)
      PROVE  TokenInv'
  BY <1>9 DEF RevokeStart
<1>10. ASSUME NEW r \in Requests, RevokeFamily(r)
       PROVE  TokenInv'
  BY <1>10 DEF RevokeFamily
<1>11. CASE UNCHANGED vars
  BY <1>11 DEF vars
<1>12. QED
  BY <1>1, <1>2, <1>3, <1>4, <1>5, <1>6, <1>7, <1>8, <1>9, <1>10, <1>11
  DEF Next, Progress

(* TokenInv holds in every reachable state.                                *)
THEOREM TokenInvAlways == Spec => []TokenInv
  BY TokenInvInit, TokenInvStep, PTL DEF Spec

(* Type correctness.                                                       *)
THEOREM TokenTypeCorrect == Spec => []TypeOK
<1>1. TokenInv => TypeOK
  BY DEF TokenInv
<1>2. QED
  BY <1>1, TokenInvAlways, PTL

(* However many requests present one refresh token at once, at most one of *)
(* them rotates it, a family never has two valid tokens, and every token   *)
(* that was replaced is revoked.                                           *)
THEOREM RotationCorrect ==
  Spec => [](RotatedOnce /\ OneValidPerFamily /\ LineageRevoked)
<1>1. TokenInv => RotatedOnce /\ OneValidPerFamily /\ LineageRevoked
  BY DEF TokenInv
<1>2. QED
  BY <1>1, TokenInvAlways, PTL

(* What an open rotation counts on stays so until it ends.                 *)
THEOREM IsolationCorrect == Spec => []TransactionsIsolated
<1>1. TokenInv => TransactionsIsolated
  BY DEF TokenInv
<1>2. QED
  BY <1>1, TokenInvAlways, PTL

-----------------------------------------------------------------------------
(* Every step of RefreshTokens is a step of TokenFamilies or stutters:     *)
(* Login starts a family, Commit rotates it, Logout ends it, and so does a *)
(* revocation that still finds a valid row.                                *)
LEMMA FamiliesStep ==
  TokenInv /\ [Next]_vars => [Families!FamiliesNext]_(Families!familyVars)
<1> SUFFICES ASSUME TokenInv, [Next]_vars
             PROVE  [Families!FamiliesNext]_(Families!familyVars)
  OBVIOUS
<1> USE RefreshTokensAssumption
        DEF TokenInv, TypeOK, HandedOut, Goto, request,
            Families!FamiliesNext, Families!familyVars
<1> DEFINE Current(f) == {t \in Tokens : row[t] = "live" /\ family[t] = f}
           current == [f \in Tokens |-> Current(f)]
           used == {t \in Tokens : HandedOut(t)}
<1>1. ASSUME NEW t \in Tokens, Login(t)
      PROVE  Families!FamiliesNext
  <2>1. row[t] = "none"
    BY <1>1 DEF Login
  <2>2. row' = [row EXCEPT ![t] = "live"] /\ family' = [family EXCEPT ![t] = t]
    BY <1>1 DEF Login
  <2>3. used' = used \cup {t}
    BY <2>1, <2>2
  <2>4. ASSUME NEW f \in Tokens
        PROVE  Current(f)' = IF f = t THEN {t} ELSE Current(f)
    BY <2>1, <2>2, <2>4 DEF LineageRevoked
  <2>5. current' = [current EXCEPT ![t] = {t}]
    BY <2>4
  <2>6. QED
    BY <2>1, <2>3, <2>5 DEF Families!StartFamily
<1>2. ASSUME NEW t \in Tokens, row[t] = "live", UNCHANGED family,
             row' = [row EXCEPT ![t] = "revoked"]
      PROVE  Families!FamiliesNext
  <2>1. used' = used
    BY <1>2
  <2>2. ASSUME NEW f \in Tokens
        PROVE  Current(f)' = IF f = family[t] THEN {} ELSE Current(f)
    BY <1>2 DEF OneValidPerFamily
  <2>3. current' = [current EXCEPT ![family[t]] = {}]
    BY <2>2
  <2>4. family[t] \in Tokens
    BY <1>2
  <2>5. QED
    BY <2>1, <2>3, <2>4 DEF Families!EndFamily
<1>3. ASSUME NEW r \in Requests, Commit(r)
      PROVE  Families!FamiliesNext
  <2>1. /\ row[token[r]] = "live"
        /\ row[child[r]] = "pending"
        /\ family[child[r]] = family[token[r]]
        /\ child[r] \in Tokens /\ token[r] \in Tokens
    BY <1>3 DEF Commit, TransactionsIsolated
  <2>2. /\ row' = [row EXCEPT ![token[r]] = "revoked", ![child[r]] = "live"]
        /\ UNCHANGED family
    BY <1>3 DEF Commit
  <2>3. used' = used \cup {child[r]}
    BY <2>1, <2>2
  <2>4. Current(family[token[r]]) = {token[r]}
    BY <2>1 DEF OneValidPerFamily
  <2>5. ASSUME NEW f \in Tokens
        PROVE  Current(f)' = IF f = family[token[r]] THEN {child[r]} ELSE Current(f)
    BY <2>1, <2>2 DEF OneValidPerFamily
  <2>6. current' = [current EXCEPT ![family[token[r]]] = {child[r]}]
    BY <2>5
  <2>7. family[token[r]] \in Tokens
    BY <2>1
  <2>8. current[family[token[r]]] = {token[r]} /\ child[r] \notin used
    BY <2>1, <2>4, <2>7
  <2>9. \E f, t, c \in Tokens : /\ current[f] = {t}
                                /\ c \notin used
                                /\ current' = [current EXCEPT ![f] = {c}]
                                /\ used' = used \cup {c}
    <3> HIDE DEF current, used, TokenInv
    <3>1. QED
      BY ONLY <2>1, <2>3, <2>6, <2>7, <2>8
  <2>10. QED
    BY ONLY <2>9 DEF Families!FamiliesNext, Families!RotateFamily
<1>4. ASSUME NEW r \in Requests, RevokeFamily(r)
      PROVE  Families!FamiliesNext \/ UNCHANGED Families!familyVars
  <2>1. CASE \E t \in snapshot[r] : row[t] = "live"
    <3>1. PICK t \in snapshot[r] : row[t] = "live"
      BY <2>1
    <3>2. t \in Tokens
      BY <3>1
    <3>3. \A u \in snapshot[r] : row[u] = "live" => u = t
      BY <1>4, <3>1, <3>2 DEF RevokeFamily, Presented, OneValidPerFamily
    <3>4. row' = [row EXCEPT ![t] = "revoked"] /\ UNCHANGED family
      BY <1>4, <3>1, <3>2, <3>3 DEF RevokeFamily
    <3>5. Families!FamiliesNext
      BY ONLY <1>2, <3>1, <3>2, <3>4
    <3>6. QED
      BY <3>5
  <2>2. CASE \A t \in snapshot[r] : row[t] # "live"
    <3>1. row' = row /\ UNCHANGED family
      BY <1>4, <2>2 DEF RevokeFamily
    <3>2. QED
      BY <3>1
  <2>3. QED
    BY <2>1, <2>2
<1>5. ASSUME NEW t \in Tokens, Logout(t)
      PROVE  Families!FamiliesNext
  <2>1. row[t] = "live" /\ UNCHANGED family /\ row' = [row EXCEPT ![t] = "revoked"]
    BY <1>5 DEF Logout
  <2>2. QED
    BY ONLY <1>2, <2>1
<1>6. ASSUME NEW r \in Requests, BeginRotation(r)
      PROVE  UNCHANGED Families!familyVars
  <2>1. PICK c \in Tokens : /\ row[c] = "none"
                            /\ row' = [row EXCEPT ![c] = "pending"]
                            /\ family' = [family EXCEPT ![c] = family[token[r]]]
    BY <1>6 DEF BeginRotation
  <2>2. used' = used
    BY <2>1
  <2>3. ASSUME NEW f \in Tokens PROVE Current(f)' = Current(f)
    BY <2>1
  <2>4. current' = current
    BY <2>3
  <2>5. QED
    BY <2>2, <2>4
<1>7. ASSUME NEW r \in Requests, Rotate(r) \/ Abort(r)
      PROVE  UNCHANGED Families!familyVars
  <2>1. UNCHANGED family
    BY <1>7 DEF Rotate, Abort
  <2>2. \/ UNCHANGED row
        \/ row[child[r]] = "pending" /\ row' = [row EXCEPT ![child[r]] = "undone"]
    BY <1>7 DEF Rotate, Abort, RollBack, TransactionsIsolated
  <2>3. used' = used
    BY <2>2
  <2>4. ASSUME NEW f \in Tokens PROVE Current(f)' = Current(f)
    BY <2>1, <2>2
  <2>5. current' = current
    BY <2>4
  <2>6. QED
    BY <2>3, <2>5
<1>8. ASSUME NEW r \in Requests,
             Refuse(r) \/ RevokeStart(r) \/ \E t \in Tokens : Present(r, t)
      PROVE  UNCHANGED Families!familyVars
  <2>1. UNCHANGED <<row, family>>
    BY <1>8 DEF Refuse, RevokeStart, Present
  <2>2. QED
    BY <2>1
<1>9. ASSUME UNCHANGED vars
      PROVE  UNCHANGED Families!familyVars
  BY <1>9 DEF vars
<1> HIDE DEF Families!FamiliesNext, Families!familyVars
<1>10. QED
  BY <1>1, <1>3, <1>4, <1>5, <1>6, <1>7, <1>8, <1>9 DEF Next, Progress

(* The table implements TokenFamilies, for any number of tokens and        *)
(* concurrent requests.                                                    *)
THEOREM ImplementsFamiliesAlways == Spec => ImplementsFamilies
<1>1. Init => Families!FamiliesInit
  BY DEF Init, HandedOut, Families!FamiliesInit
<1>2. QED
  BY <1>1, FamiliesStep, TokenInvAlways, PTL
  DEF Spec, ImplementsFamilies, Families!FamiliesSpec
=============================================================================
