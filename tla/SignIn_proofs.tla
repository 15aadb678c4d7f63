--------------------------- MODULE SignIn_proofs ---------------------------
(***************************************************************************)
(* Proofs about SignIn, for any number of pages, calls and requests.       *)
(***************************************************************************)
EXTENDS SignIn, RefreshTokens_proofs

Posting == {p \in Pages : flight[p] = "posting"}

(* A sign-out that is under way and the cookie it carries.                 *)
Leaving(p) == calls[p][SignOut] \in {"sent", "again"}

(* Pages outside the scene do nothing; sign-outs carry and answers contain *)
(* tokens that were handed out.                                            *)
Grounded ==
  /\ \A p \in Pages \ scene.pages :
       /\ access[p] = "closed" /\ flight[p] = "none"
       /\ \A k \in Calls : calls[p][k] = "idle"
  /\ scene.pages = {} => left = {}
  /\ \A p \in Pages : Leaving(p) => carried[p] \in Tokens /\ HandedOut(carried[p])
  /\ \A t \in left : HandedOut(t)
  /\ \A r \in Requests : pc[r] = "done" =>
       /\ child[r] \in Tokens /\ HandedOut(child[r])

(* What an undisturbed browser may count on: at most one page refreshes    *)
(* and nobody signs out meanwhile, its request is the only one, the token  *)
(* it presented stays valid until it is rotated, and the cookie is that    *)
(* token or a valid one.                                                   *)
OneRefresh ==
  /\ \A p, q \in Posting : p = q
  /\ \A r \in Requests : Underway(r) => \E p \in Posting : asked[p] = r
  /\ \A p \in Pages : Leaving(p) => Posting = {}

PresentedStaysValid ==
  \A p \in Posting : asked[p] # NoRequest =>
    /\ pc[asked[p]] \in {"read", "inserted", "rotated", "done", "rejected"}
    /\ pc[asked[p]] \in {"read", "inserted", "rotated"} =>
         row[token[asked[p]]] = "live"
    /\ pc[asked[p]] = "done" => row[child[asked[p]]] = "live"

CookieValid ==
  jar # NoToken => \/ row[jar] = "live"
                   \/ \E p \in Posting : /\ asked[p] # NoRequest
                                         /\ token[asked[p]] = jar
                                         /\ pc[asked[p]] = "done"

CarriedValid ==
  \A p \in Pages : Leaving(p) => row[carried[p]] = "live" \/ carried[p] \in left

NoConflict ==
  \A r \in Requests : pc[r] \notin {"conflict", "revoking", "reuse"}

LeftIsOver ==
  \A t \in left : \A u \in Tokens : row[u] = "live" => family[u] # family[t]

Undisturbed ==
  /\ OneRefresh
  /\ PresentedStaysValid
  /\ CookieValid
  /\ CarriedValid
  /\ NoConflict
  /\ LeftIsOver

BrowserInv == /\ SignInTypeOK
              /\ Grounded
              /\ scene.pages # {} /\ ~disturbed => Undisturbed

-----------------------------------------------------------------------------
(* Whatever a browser does, the service only takes steps of RefreshTokens. *)
LEMMA ServiceStepsOnly ==
  SignInTypeOK /\ Grounded /\ [SignInNext]_allVars => [Next]_vars
<1> SUFFICES ASSUME SignInTypeOK, Grounded, [SignInNext]_allVars
             PROVE  [Next]_vars
  OBVIOUS
<1>1. ASSUME NEW p \in Pages, TryRefresh(p) PROVE [Next]_vars
  <2>1. scene.refreshes \subseteq Requests
    BY SignInAssumption DEF SignInTypeOK
  <2>2. jar # NoToken => jar \in Tokens
    BY DEF SignInTypeOK
  <2> QED
    BY <1>1, <2>1, <2>2 DEF TryRefresh, Post, Next
<1>2. ASSUME NEW p \in Pages, UserStep(p) PROVE [Next]_vars
  BY <1>1, <1>2 DEF UserStep, OpenPage, ClosePage, LogIn, Expire, SendCall, Next
<1>3. ASSUME NEW p \in Pages, FlightStep(p) \/ Network(p) PROVE [Next]_vars
  <2>1. CASE SignedOutUnheard(p)
    BY <2>1 DEF SignedOutUnheard, RevokeCookie, Grounded, Leaving, Next
  <2>2. CASE ~ SignedOutUnheard(p)
    BY <1>3, <2>2 DEF FlightStep, RefreshAnswered, RefreshRefused, UserLoaded,
                      UserNotLoaded, Network, LoseAnswer, CallFails
  <2> QED
    BY <2>1, <2>2
<1>4. ASSUME NEW p \in Pages, NEW k \in Calls, CallStep(p, k)
      PROVE  [Next]_vars
  <2>1. CASE SignedOut(p)
    BY <2>1 DEF SignedOut, RevokeCookie, Grounded, Leaving, Next
  <2>2. CASE Unauthorized(p, k)
    BY <1>1, <2>2 DEF Unauthorized
  <2>3. CASE CallAnswered(p, k)
    BY <2>3 DEF CallAnswered
  <2> QED
    BY <1>4, <2>1, <2>2, <2>3 DEF CallStep
<1>5. ASSUME NEW r \in Requests, ServiceStep(r) \/ Abort(r) PROVE [Next]_vars
  BY <1>5 DEF ServiceStep, Next
<1>6. CASE Strangers
  BY <1>6 DEF Strangers, Next
<1>7. CASE UNCHANGED allVars
  BY <1>7 DEF allVars
<1> QED
  BY <1>2, <1>3, <1>4, <1>5, <1>6, <1>7 DEF SignInNext

(* The program starts in the invariant.                                    *)
LEMMA BrowserInvInit == SignInInit => BrowserInv
<1> SUFFICES ASSUME SignInInit PROVE BrowserInv
  OBVIOUS
<1>1. TokenInv /\ Init
  BY TokenInvInit DEF SignInInit
<1>2. disturbed \in BOOLEAN
  BY Zenon DEF SignInInit
<1>3. /\ scene \in Scenes /\ acts = 0 /\ jar = NoToken /\ left = {}
      /\ access = [p \in Pages |-> "closed"]
      /\ flight = [p \in Pages |-> "none"]
      /\ asked = [p \in Pages |-> NoRequest]
      /\ calls = [p \in Pages |-> [k \in Calls |-> "idle"]]
      /\ carried = [p \in Pages |-> NoToken]
  BY DEF SignInInit
<1>4. acts \in 0 .. scene.actions
  BY <1>3, SignInAssumption
<1>5. SignInTypeOK
  BY <1>1, <1>2, <1>3, <1>4
  DEF SignInTypeOK, TokenInv, Access, Flight, Call, InFlight
<1>6. Grounded
  BY <1>1, <1>3, SignInAssumption DEF Init, Grounded, Leaving
<1>7. Undisturbed
  BY <1>1, <1>3, SignInAssumption
  DEF Init, Undisturbed, OneRefresh, PresentedStaysValid, CookieValid,
      CarriedValid, NoConflict, LeftIsOver, Posting, Leaving, Underway, Ended
<1> QED
  BY <1>5, <1>6, <1>7 DEF BrowserInv

-----------------------------------------------------------------------------
(* A token that was handed out stays handed out and in its family, and a   *)
(* request is answered by its commit.                                      *)
LEMMA HandedOutStays ==
  ASSUME TokenInv, [Next]_vars
  PROVE  /\ \A t \in Tokens : HandedOut(t) => HandedOut(t)' /\ family'[t] = family[t]
         /\ \A r \in Requests : pc'[r] = "done" =>
              \/ pc[r] = "done" /\ child'[r] = child[r]
              \/ Commit(r)
<1> DEFINE Stays ==
      /\ \A t \in Tokens : HandedOut(t) => HandedOut(t)' /\ family'[t] = family[t]
      /\ \A r \in Requests : pc'[r] = "done" =>
           \/ pc[r] = "done" /\ child'[r] = child[r]
           \/ Commit(r)
<1>1. /\ TypeOK
      /\ \A r \in Requests : pc[r] \in {"inserted", "rotated"} =>
           child[r] \in Tokens /\ row[child[r]] = "pending"
  BY DEF TokenInv, TransactionsIsolated
<1> USE <1>1 DEF TypeOK, HandedOut, Goto
<1>2. ASSUME NEW t \in Tokens, Login(t) \/ Logout(t) PROVE Stays
  BY <1>2 DEF Login, Logout, request
<1>3. ASSUME NEW r \in Requests, NEW t \in Tokens, Present(r, t) PROVE Stays
  BY <1>3 DEF Present
<1>4. ASSUME NEW r \in Requests, BeginRotation(r) PROVE Stays
  BY <1>4 DEF BeginRotation
<1>5. ASSUME NEW r \in Requests, Commit(r) PROVE Stays
  BY <1>5 DEF Commit
<1>6. ASSUME NEW r \in Requests, Refuse(r) \/ RevokeStart(r) PROVE Stays
  BY <1>6 DEF Refuse, RevokeStart
<1>7. ASSUME NEW r \in Requests, RevokeFamily(r) PROVE Stays
  BY <1>7 DEF RevokeFamily
<1>8. ASSUME NEW r \in Requests, Rotate(r) \/ Abort(r) PROVE Stays
  BY <1>8 DEF Rotate, Abort, RollBack
<1>9. CASE UNCHANGED vars
  BY <1>9 DEF vars
<1> QED
  BY <1>2, <1>3, <1>4, <1>5, <1>6, <1>7, <1>8, <1>9 DEF Next, Progress
-----------------------------------------------------------------------------
(* What tryRefresh leaves of the types: the flight of the page may change, *)
(* and with it the request it asked for.                                   *)
LEMMA TryRefreshTyped ==
  ASSUME SignInTypeOK, NEW p \in Pages, TryRefresh(p)
  PROVE  /\ flight' \in [Pages -> Flight]
         /\ asked' \in [Pages -> Requests \cup {NoRequest}]
         /\ disturbed' \in BOOLEAN
         /\ \A q \in Pages \ {p} : flight'[q] = flight[q]
<1>1. scene.refreshes \subseteq Requests
  BY SignInAssumption DEF SignInTypeOK
<1>2. disturbed' \in BOOLEAN
  BY Zenon DEF TryRefresh, Post, SignInTypeOK
<1>3. CASE Joins(p)
  BY <1>2, <1>3 DEF TryRefresh, SignInTypeOK
<1>4. CASE Post(p)
  BY <1>1, <1>2, <1>4 DEF Post, SignInTypeOK, Flight
<1> QED
  BY <1>3, <1>4 DEF TryRefresh

(* The part of the type invariant that is the browser's is inductive.      *)
LEMMA TypeStep ==
  ASSUME TokenInv, TokenInv', BrowserInv, [SignInNext]_allVars
  PROVE  SignInTypeOK'
<1>1. TypeOK' /\ [Next]_vars
  BY ServiceStepsOnly DEF TokenInv, BrowserInv
<1>2. \A t \in Tokens : HandedOut(t) => HandedOut(t)'
  BY <1>1, HandedOutStays
<1>3. Grounded
  BY DEF BrowserInv
<1> USE DEF BrowserInv, SignInTypeOK
<1>4. scene.actions \in Nat
  BY SignInAssumption
<1>5. Acts => scene' \in Scenes /\ acts' \in 0 .. scene'.actions
  BY <1>4 DEF Acts
<1>6. ASSUME NEW p \in Pages, OpenPage(p) PROVE SignInTypeOK'
  BY <1>1, <1>2, <1>5, <1>6, TryRefreshTyped DEF OpenPage, Access
<1>7. ASSUME NEW p \in Pages, ClosePage(p) PROVE SignInTypeOK'
  <2>1. disturbed' \in BOOLEAN
    BY <1>7, Zenon DEF ClosePage
  <2> QED
    BY <1>1, <1>2, <1>5, <1>7, <2>1 DEF ClosePage, Access, Flight, Call, storeVars
<1>8. ASSUME NEW p \in Pages, LogIn(p) PROVE SignInTypeOK'
  <2>1. PICK t \in Tokens : Login(t) /\ jar' = t
    BY <1>8 DEF LogIn
  <2>2. HandedOut(jar)'
    BY <2>1 DEF Login, TypeOK, HandedOut
  <2> QED
    BY <1>1, <1>2, <1>5, <1>8, <2>1, <2>2 DEF LogIn, Access
<1>9. ASSUME NEW p \in Pages, Expire(p) PROVE SignInTypeOK'
  <2>1. \A state \in Call : Late[state] \in Call
    BY DEF Late, Call, InFlight
  <2> QED
    BY <1>1, <1>2, <1>9, <2>1 DEF Expire, Access, Flight
<1>10. ASSUME NEW p \in Pages, NEW k \in Calls, SendCall(p, k) PROVE SignInTypeOK'
  <2>1. disturbed' \in BOOLEAN
    BY <1>10, Zenon DEF SendCall
  <2> QED
    BY <1>1, <1>2, <1>5, <1>10, <2>1 DEF SendCall, Call, InFlight
<1>11. ASSUME NEW p \in Pages, RefreshAnswered(p) PROVE SignInTypeOK'
  <2>1. jar' \in Tokens /\ HandedOut(jar)'
    BY <1>1, <1>2, <1>3, <1>11 DEF RefreshAnswered, Outcome, Grounded, vars, HandedOut
  <2> QED
    BY <1>1, <1>11, <2>1 DEF RefreshAnswered, Access, Flight
<1>12. ASSUME NEW p \in Pages, RefreshRefused(p) \/ UserNotLoaded(p)
       PROVE  SignInTypeOK'
  <2>1. CASE RefreshFails(p)
    BY <1>1, <1>2, <1>12, <2>1
    DEF RefreshRefused, UserNotLoaded, RefreshFails, Access, Flight, Call
  <2>2. CASE /\ UNCHANGED <<access, calls>>
             /\ \/ flight' = [flight EXCEPT ![p] = "stuckPost"]
                \/ flight' = [flight EXCEPT ![p] = "stuckMe"]
    BY <1>1, <1>2, <1>12, <2>2 DEF RefreshRefused, UserNotLoaded, Flight
  <2> QED
    BY <1>12, <2>1, <2>2 DEF RefreshRefused, UserNotLoaded
<1>13. ASSUME NEW p \in Pages, LoseAnswer(p) PROVE SignInTypeOK'
  <2>1. disturbed' \in BOOLEAN
    BY <1>13, Zenon DEF LoseAnswer
  <2> QED
    BY <1>1, <1>2, <1>13, <2>1 DEF LoseAnswer, RefreshFails, Access, Flight, Call
<1>14. ASSUME NEW p \in Pages, UserLoaded(p) PROVE SignInTypeOK'
  <2>1. disturbed' \in BOOLEAN
    BY <1>14, Zenon DEF UserLoaded
  <2> QED
    BY <1>1, <1>2, <1>14, <2>1 DEF UserLoaded, Flight, Call, InFlight
<1>15. ASSUME NEW p \in Pages, NEW k \in Calls, Unauthorized(p, k)
       PROVE  SignInTypeOK'
  BY <1>1, <1>2, <1>15, TryRefreshTyped DEF Unauthorized, Call, InFlight
<1>16. ASSUME NEW p \in Pages, NEW k \in Calls,
              CallAnswered(p, k) \/ CallFails(p, k)
       PROVE  SignInTypeOK'
  <2>1. /\ End(p, k)
        /\ UNCHANGED <<vars, scene, acts, jar, flight, asked, carried, disturbed, left>>
    BY <1>16 DEF CallAnswered, CallFails
  <2> QED
    BY <1>1, <1>2, <2>1 DEF End, Call, Access
<1>17. ASSUME NEW p \in Pages, SignedOut(p) \/ SignedOutUnheard(p)
       PROVE  SignInTypeOK'
  <2>1. CASE SignedOut(p)
    BY <1>1, <1>2, <2>1, SignInAssumption
    DEF SignedOut, End, Call, Access, Grounded, Leaving
  <2>2. CASE SignedOutUnheard(p)
    BY <1>1, <1>2, <2>2, SignInAssumption
    DEF SignedOutUnheard, End, Call, Access, Grounded, Leaving
  <2> QED
    BY <1>17, <2>1, <2>2
<1>18. CASE UNCHANGED signInVars
  BY <1>1, <1>2, <1>18 DEF signInVars, storeVars
<1> QED
  BY <1>6, <1>7, <1>8, <1>9, <1>10, <1>11, <1>12, <1>14, <1>15, <1>16, <1>17, <1>18,
     <1>13
  DEF SignInNext, UserStep, FlightStep, CallStep, Network, Strangers,
      ServiceStep, allVars

(* Answers contain tokens that were handed out.                            *)
LEMMA AnsweredStep ==
  ASSUME TokenInv, TokenInv', BrowserInv, [SignInNext]_allVars
  PROVE  /\ [Next]_vars
         /\ \A t \in Tokens : HandedOut(t) => HandedOut(t)' /\ family'[t] = family[t]
         /\ \A r \in Requests : pc'[r] = "done" =>
              child'[r] \in Tokens /\ HandedOut(child[r])'
<1>1. [Next]_vars
  BY ServiceStepsOnly DEF BrowserInv
<1>2. /\ \A t \in Tokens : HandedOut(t) => HandedOut(t)' /\ family'[t] = family[t]
      /\ \A r \in Requests : pc'[r] = "done" =>
           \/ pc[r] = "done" /\ child'[r] = child[r]
           \/ Commit(r)
  BY <1>1, HandedOutStays
<1>3. ASSUME NEW r \in Requests, pc[r] = "done", child'[r] = child[r]
      PROVE  child'[r] \in Tokens /\ HandedOut(child[r])'
  <2>1. child[r] \in Tokens /\ HandedOut(child[r])
    BY <1>3 DEF BrowserInv, Grounded
  <2> QED
    BY <1>2, <1>3, <2>1 DEF HandedOut
<1>4. ASSUME NEW r \in Requests, Commit(r)
      PROVE  child'[r] \in Tokens /\ HandedOut(child[r])'
  <2>1. child[r] \in Tokens
    BY <1>4 DEF TokenInv, TransactionsIsolated, Commit
  <2>2. row \in [Tokens -> {"none", "pending", "live", "revoked", "undone"}]
    BY DEF TokenInv, TypeOK
  <2> QED
    BY <1>4, <2>1, <2>2 DEF Commit, HandedOut
<1> QED
  BY <1>1, <1>2, <1>3, <1>4

(* Grounded is inductive.                                                  *)
LEMMA GroundedStep ==
  ASSUME TokenInv, TokenInv', BrowserInv, [SignInNext]_allVars
  PROVE  Grounded'
<1>1. /\ \A t \in Tokens : HandedOut(t) => HandedOut(t)'
      /\ \A r \in Requests : pc'[r] = "done" =>
           child'[r] \in Tokens /\ HandedOut(child[r])'
  BY AnsweredStep
<1>2. /\ SignInTypeOK /\ Grounded
      /\ calls \in [Pages -> [Calls -> Call]]
      /\ carried \in [Pages -> Tokens \cup {NoToken}]
      /\ flight \in [Pages -> Flight] /\ access \in [Pages -> Access]
      /\ left \subseteq Tokens
      /\ jar # NoToken => jar \in Tokens /\ HandedOut(jar)
  BY DEF BrowserInv, SignInTypeOK
<1> USE <1>1, <1>2, SignInAssumption DEF Grounded, Leaving
<1>3. ASSUME NEW p \in Pages, OpenPage(p) PROVE Grounded'
  BY <1>3, TryRefreshTyped DEF OpenPage, Acts
<1>4. ASSUME NEW p \in Pages, ClosePage(p) PROVE Grounded'
  BY <1>4 DEF ClosePage, Acts
<1>5. ASSUME NEW p \in Pages, LogIn(p) PROVE Grounded'
  BY <1>5 DEF LogIn, Acts
<1>6. ASSUME NEW p \in Pages, Expire(p) PROVE Grounded'
  <2>1. p \in scene.pages
    BY <1>6 DEF Expire
  <2> QED
    BY <1>6, <2>1 DEF Expire, Late
<1>7. ASSUME NEW p \in Pages, NEW k \in Calls, SendCall(p, k) PROVE Grounded'
  BY <1>7 DEF SendCall, Acts, Accepted, IsOpen
<1>8. ASSUME NEW p \in Pages, RefreshAnswered(p) PROVE Grounded'
  BY <1>8 DEF RefreshAnswered
<1>9. ASSUME NEW p \in Pages, RefreshRefused(p) \/ UserNotLoaded(p) PROVE Grounded'
  <2>1. p \in scene.pages
    BY <1>9 DEF RefreshRefused, UserNotLoaded
  <2>2. CASE RefreshFails(p)
    BY <1>9, <2>1, <2>2 DEF RefreshRefused, UserNotLoaded, RefreshFails
  <2>3. CASE /\ UNCHANGED <<access, calls>>
             /\ \E to \in Flight : flight' = [flight EXCEPT ![p] = to]
    BY <1>9, <2>1, <2>3 DEF RefreshRefused, UserNotLoaded
  <2> QED
    BY <1>9, <2>2, <2>3 DEF RefreshRefused, UserNotLoaded, Flight
<1>10. ASSUME NEW p \in Pages, LoseAnswer(p) PROVE Grounded'
  BY <1>10 DEF LoseAnswer, RefreshFails
<1>11. ASSUME NEW p \in Pages, UserLoaded(p) PROVE Grounded'
  BY <1>11 DEF UserLoaded, Accepted
<1>12. ASSUME NEW p \in Pages, NEW k \in Calls, Unauthorized(p, k)
       PROVE  Grounded'
  BY <1>12, TryRefreshTyped DEF Unauthorized
<1>13. ASSUME NEW p \in Pages, NEW k \in Calls,
              CallAnswered(p, k) \/ CallFails(p, k)
       PROVE  Grounded'
  <2>1. p \in scene.pages
    BY <1>13 DEF CallAnswered, CallFails, InFlight
  <2>2. /\ End(p, k)
        /\ UNCHANGED <<vars, scene, acts, jar, flight, asked, carried, disturbed, left>>
    BY <1>13 DEF CallAnswered, CallFails
  <2> QED
    BY <2>1, <2>2 DEF End
<1>14. ASSUME NEW p \in Pages, SignedOut(p) \/ SignedOutUnheard(p)
       PROVE  Grounded'
  <2>1. p \in scene.pages
    BY <1>14 DEF SignedOut, SignedOutUnheard
  <2>2. CASE SignedOut(p)
    BY <2>1, <2>2 DEF SignedOut, End
  <2>3. CASE SignedOutUnheard(p)
    BY <2>1, <2>3 DEF SignedOutUnheard, End
  <2> QED
    BY <1>14, <2>2, <2>3
<1>15. CASE UNCHANGED signInVars
  BY <1>15 DEF signInVars, storeVars
<1> QED
  BY <1>3, <1>4, <1>5, <1>6, <1>7, <1>8, <1>9, <1>10, <1>11, <1>12, <1>13, <1>14,
     <1>15
  DEF SignInNext, UserStep, FlightStep, CallStep, Network, Strangers,
      ServiceStep, allVars
-----------------------------------------------------------------------------
(* The types and links that the steps below use.                           *)
Typed == /\ row \in [Tokens -> {"none", "pending", "live", "revoked", "undone"}]
         /\ family \in [Tokens -> Tokens \cup {NoToken}]
         /\ pc \in [Requests -> {"idle", "read", "inserted", "rotated", "conflict",
                                 "revoking"} \cup Ended]
         /\ token \in [Requests -> Tokens \cup {NoToken}]
         /\ child \in [Requests -> Tokens \cup {NoToken}]
         /\ jar \in Tokens \cup {NoToken}
         /\ flight \in [Pages -> Flight]
         /\ asked \in [Pages -> Requests \cup {NoRequest}]
         /\ calls \in [Pages -> [Calls -> Call]]
         /\ carried \in [Pages -> Tokens \cup {NoToken}]
         /\ left \subseteq Tokens
         /\ SignOut \in Calls /\ NoRequest \notin Requests /\ NoToken \notin Tokens
         /\ \A t \in left : HandedOut(t)
         /\ \A p \in Pages :
              Leaving(p) => carried[p] \in Tokens /\ HandedOut(carried[p])

LEMMA TypesHold == ASSUME TokenInv, BrowserInv PROVE Typed
  BY SignInAssumption, RefreshTokensAssumption
  DEF TokenInv, TypeOK, BrowserInv, SignInTypeOK, Grounded, Typed

(* The service carries the one refresh on: it never meets a conflict.      *)
LEMMA ServiceUndisturbed ==
  ASSUME TokenInv, Typed, Undisturbed, NEW r \in Requests,
         Progress(r) \/ Abort(r), UNCHANGED signInVars
  PROVE  Undisturbed'
<1>1. UNCHANGED <<flight, asked, calls, carried, jar, left>>
  BY DEF signInVars, storeVars
<1>2. Underway(r)
  BY DEF Progress, Abort, BeginRotation, Refuse, Rotate, Commit, RevokeStart,
         RevokeFamily, Underway, Ended
<1>3. PICK p \in Posting : asked[p] = r
  BY <1>2 DEF Undisturbed, OneRefresh
<1>4. /\ p \in Pages /\ \A q \in Posting : q = p
      /\ \A q \in Pages : ~ Leaving(q)
      /\ \A q \in Requests \ {r} : ~ Underway(q)
  BY <1>3 DEF Undisturbed, OneRefresh, Posting
<1>5. /\ pc[r] \in {"read", "inserted", "rotated"} => row[token[r]] = "live"
      /\ pc[r] \in {"read", "inserted", "rotated", "done", "rejected"}
  BY <1>3 DEF Undisturbed, PresentedStaysValid, Typed
<1>6. /\ pc[r] \in {"inserted", "rotated"} =>
           /\ child[r] \in Tokens /\ row[child[r]] = "pending"
           /\ family[child[r]] = family[token[r]]
      /\ token[r] \in Tokens
  BY <1>2 DEF TokenInv, TransactionsIsolated, TypeOK, Underway
<1>7. Posting' = Posting /\ \A q \in Pages : Leaving(q)' <=> Leaving(q)
  BY <1>1 DEF Posting, Leaving
<1>8. /\ \A q \in Requests \ {r} : pc'[q] = pc[q] /\ token'[q] = token[q]
      /\ token'[r] = token[r]
  BY DEF Typed, Progress, Abort, BeginRotation, Refuse, Rotate, Commit, RevokeStart,
         RevokeFamily, Goto
<1>9. OneRefresh'
  <2>1. \A q \in Requests : Underway(q)' => q = r
    BY <1>4, <1>8 DEF Underway, Ended
  <2> QED
    BY <1>1, <1>3, <1>4, <1>7, <2>1 DEF OneRefresh
<1>10. CarriedValid'
  BY <1>4, <1>7 DEF CarriedValid
<1>11. CASE pc'[r] # "done"
  <2>1. /\ pc'[r] \in {"inserted", "rotated", "rejected"}
        /\ pc'[r] # "rejected" => row[token[r]] = "live"
        /\ \A t \in Tokens : /\ row'[t] = "live" <=> row[t] = "live"
                             /\ row[t] # "none" => family'[t] = family[t]
    BY <1>5, <1>6, <1>11
    DEF Typed, Progress, Abort, BeginRotation, Refuse, Rotate, Commit, RevokeStart,
        RevokeFamily, Goto, RollBack
  <2>2. PresentedStaysValid'
    BY <1>1, <1>3, <1>4, <1>6, <1>7, <1>8, <2>1 DEF PresentedStaysValid
  <2>3. CookieValid'
    <3>1. jar # NoToken => row[jar] = "live"
      <4>1. pc[r] # "done"
        BY <1>2 DEF Underway, Ended
      <4> QED
        BY <1>3, <1>4, <4>1 DEF Undisturbed, CookieValid
    <3> QED
      BY <1>1, <2>1, <3>1 DEF CookieValid, Typed
  <2>4. NoConflict'
    BY <1>8, <2>1 DEF NoConflict, Undisturbed
  <2>5. LeftIsOver'
    BY <1>1, <2>1 DEF LeftIsOver, Undisturbed, Typed, HandedOut
  <2> QED
    BY <1>9, <1>10, <2>2, <2>3, <2>4, <2>5 DEF Undisturbed
<1>12. CASE pc'[r] = "done"
  <2>1. Commit(r)
    BY <1>2, <1>12
    DEF Typed, Progress, Abort, BeginRotation, Refuse, Rotate, RevokeStart,
        RevokeFamily, Goto, Underway, Ended
  <2>2. /\ pc[r] = "rotated" /\ child'[r] = child[r] /\ child[r] # token[r]
        /\ row'[token[r]] = "revoked" /\ row'[child[r]] = "live"
        /\ \A t \in Tokens \ {token[r], child[r]} : row'[t] = row[t]
        /\ family' = family
    BY <1>5, <1>6, <2>1 DEF Commit, Typed
  <2>3. PresentedStaysValid'
    BY <1>1, <1>3, <1>4, <1>7, <1>12, <2>2 DEF PresentedStaysValid
  <2>4. CookieValid'
    <3>1. jar # NoToken => row[jar] = "live"
      BY <1>3, <1>4, <2>2 DEF Undisturbed, CookieValid
    <3>2. CASE jar = token[r]
      BY <1>1, <1>3, <1>7, <1>8, <1>12, <3>2 DEF CookieValid, Typed
    <3>3. CASE jar # token[r]
      BY <1>1, <1>6, <2>2, <3>1, <3>3 DEF CookieValid, Typed
    <3> QED
      BY <3>2, <3>3
  <2>5. NoConflict'
    BY <1>8, <1>12 DEF NoConflict, Undisturbed
  <2>6. LeftIsOver'
    BY <1>1, <1>5, <1>6, <2>2 DEF LeftIsOver, Undisturbed, Typed
  <2> QED
    BY <1>9, <1>10, <2>3, <2>4, <2>5, <2>6 DEF Undisturbed
<1> QED
  BY <1>11, <1>12
(* A page that refreshes alone presents a valid cookie.                    *)
LEMMA RefreshUndisturbed ==
  ASSUME TokenInv, Typed, Undisturbed, NEW p \in Pages, TryRefresh(p),
         ~ disturbed', scene.refreshes \subseteq Requests,
         UNCHANGED <<jar, carried, left>>,
         \A q \in Pages : Leaving(q)' <=> Leaving(q)
  PROVE  Undisturbed'
<1>1. CASE Joins(p)
  <2>1. UNCHANGED <<row, family, pc, token, child, flight, asked>>
    BY <1>1 DEF TryRefresh, vars
  <2>2. Posting' = Posting /\ \A r \in Requests : Underway(r)' <=> Underway(r)
    BY <2>1 DEF Posting, Underway
  <2> QED
    BY <2>1, <2>2
    DEF Undisturbed, OneRefresh, PresentedStaysValid, CookieValid, CarriedValid,
        NoConflict, LeftIsOver
<1>2. CASE ~ Joins(p)
  <2>1. Post(p)
    BY <1>2 DEF TryRefresh
  <2>2. flight[p] = "none" /\ ~ Elsewhere(p) /\ ~ SigningOut
    BY <1>2, <2>1 DEF Post, Joins
  <2>3. Posting = {} /\ \A q \in Pages : ~ Leaving(q)
    BY <2>2 DEF Elsewhere, SigningOut, Posting, Leaving
  <2>4. \A r \in Requests : ~ Underway(r)
    BY <2>3 DEF Undisturbed, OneRefresh
  <2>5. jar # NoToken => row[jar] = "live"
    BY <2>3 DEF Undisturbed, CookieValid
  <2>6. Posting' = {p}
    BY <2>1, <2>3 DEF Post, Posting, Typed
  <2>7. CASE \E r \in scene.refreshes : /\ jar # NoToken /\ Present(r, jar)
                                       /\ asked' = [asked EXCEPT ![p] = r]
    <3>1. PICK r \in Requests : /\ jar # NoToken /\ Present(r, jar)
                               /\ asked' = [asked EXCEPT ![p] = r]
      BY <2>7
    <3>2. /\ asked'[p] = r /\ r # NoRequest /\ pc'[r] = "read" /\ token'[r] = jar
          /\ \A q \in Requests \ {r} : pc'[q] = pc[q]
          /\ UNCHANGED <<row, family, child>>
      BY <2>5, <3>1 DEF Present, Goto, Typed
    <3>3. OneRefresh'
      BY <2>3, <2>4, <2>6, <3>2 DEF OneRefresh, Underway
    <3>4. PresentedStaysValid' /\ CookieValid'
      BY <2>5, <2>6, <3>1, <3>2 DEF PresentedStaysValid, CookieValid
    <3>5. CarriedValid' /\ NoConflict' /\ LeftIsOver'
      BY <2>3, <3>2 DEF CarriedValid, NoConflict, LeftIsOver, Undisturbed
    <3> QED
      BY <3>3, <3>4, <3>5 DEF Undisturbed
  <2>8. CASE asked' = [asked EXCEPT ![p] = NoRequest] /\ UNCHANGED vars
    <3>1. /\ asked'[p] = NoRequest
          /\ UNCHANGED <<row, family, pc, token, child>>
      BY <2>8 DEF vars, Typed
    <3>2. OneRefresh'
      BY <2>3, <2>4, <2>6, <3>1 DEF OneRefresh, Underway
    <3>3. PresentedStaysValid' /\ CookieValid'
      BY <2>5, <2>6, <3>1 DEF PresentedStaysValid, CookieValid
    <3>4. CarriedValid' /\ NoConflict' /\ LeftIsOver'
      BY <2>3, <3>1 DEF CarriedValid, NoConflict, LeftIsOver, Undisturbed
    <3> QED
      BY <3>2, <3>3, <3>4 DEF Undisturbed
  <2> QED
    BY <2>1, <2>7, <2>8 DEF Post
<1> QED
  BY <1>1, <1>2

(* A sign-out ends the family of its cookie, which has no other valid      *)
(* token.                                                                  *)
LEMMA SignOutUndisturbed ==
  ASSUME TokenInv, Typed, Undisturbed, NEW p \in Pages, SignedOut(p)
  PROVE  Undisturbed'
<1>1. /\ Leaving(p) /\ carried[p] \in Tokens
      /\ jar' = NoToken /\ left' = left \cup {carried[p]}
      /\ calls' = [calls EXCEPT ![p][SignOut] = "idle"]
      /\ UNCHANGED <<flight, asked, carried>>
  BY DEF SignedOut, Leaving, Typed, End
<1>2. Posting = {} /\ Posting' = {}
  BY <1>1 DEF Undisturbed, OneRefresh, Posting
<1>3. /\ UNCHANGED <<family, pc, token, child>>
      /\ row[carried[p]] = "live" => row' = [row EXCEPT ![carried[p]] = "revoked"]
      /\ row[carried[p]] # "live" => row' = row
  BY DEF SignedOut, RevokeCookie, Logout, request, vars
<1>4. \A v \in Tokens : /\ row'[v] = "live" => row[v] = "live" /\ v # carried[p]
                        /\ row[v] = "live" => row'[v] = "live" \/ v = carried[p]
  BY <1>1, <1>3 DEF Typed
<1>5. OneRefresh'
  BY <1>2, <1>3 DEF Undisturbed, OneRefresh, Underway
<1>6. PresentedStaysValid' /\ CookieValid'
  BY <1>1, <1>2 DEF PresentedStaysValid, CookieValid
<1>7. CarriedValid'
  <2> SUFFICES ASSUME NEW q \in Pages, Leaving(q)'
               PROVE  (row[carried[q]] = "live" \/ carried[q] \in left)'
    BY DEF CarriedValid
  <2>1. Leaving(q)
    BY <1>1 DEF Leaving, Typed
  <2> QED
    BY <1>1, <1>4, <2>1 DEF Undisturbed, CarriedValid, Typed
<1>8. NoConflict'
  BY <1>3 DEF NoConflict, Undisturbed
<1>9. LeftIsOver'
  <2> SUFFICES ASSUME NEW t \in left', NEW u \in Tokens, row'[u] = "live"
               PROVE  family'[u] # family'[t]
    BY DEF LeftIsOver
  <2>1. row[u] = "live" /\ u # carried[p]
    BY <1>4
  <2>2. CASE t \in left
    BY <1>3, <2>1, <2>2 DEF LeftIsOver, Undisturbed
  <2>3. CASE t = carried[p] /\ t \notin left
    <3>1. row[t] = "live"
      BY <1>1, <2>3 DEF Undisturbed, CarriedValid
    <3>2. family[u] # family[t]
      BY <1>1, <2>1, <2>3, <3>1 DEF TokenInv, OneValidPerFamily
    <3> QED
      BY <1>3, <3>2
  <2> QED
    BY <1>1, <2>2, <2>3
<1> QED
  BY <1>5, <1>6, <1>7, <1>8, <1>9 DEF Undisturbed
(* A step of a page that leaves the service alone and starts no refresh:   *)
(* postings may end, and a sign-out may begin when nothing is posted.      *)
LEMMA PageUndisturbed ==
  ASSUME Typed, Undisturbed, UNCHANGED <<vars, jar, left>>,
         \A q \in Pages : flight'[q] = "posting" =>
           flight[q] = "posting" /\ asked'[q] = asked[q],
         \A q \in Posting : flight'[q] # "posting" /\ asked[q] # NoRequest =>
           pc[asked[q]] = "rejected",
         \A q \in Pages : Leaving(q)' =>
           \/ Leaving(q) /\ carried'[q] = carried[q]
           \/ Posting = {} /\ jar # NoToken /\ carried'[q] = jar
  PROVE  Undisturbed'
<1>1. UNCHANGED <<row, family, pc, token, child>>
  BY DEF vars
<1>2. Posting' \subseteq Posting /\ \A q \in Posting' : asked'[q] = asked[q]
  BY DEF Posting
<1>3. \A q \in Posting : asked[q] # NoRequest /\ pc[asked[q]] # "rejected"
                         => q \in Posting'
  BY DEF Posting
<1>4. OneRefresh'
  <2>1. \A r \in Requests : Underway(r)' => Underway(r) /\ pc[r] # "rejected"
    BY <1>1 DEF Underway, Ended
  <2>2. \A r \in Requests : Underway(r)' => \E p \in Posting' : asked'[p] = r
    BY <1>2, <1>3, <2>1 DEF Undisturbed, OneRefresh, Typed
  <2>3. \A q \in Pages : Leaving(q)' => Posting' = {}
    BY <1>2 DEF Undisturbed, OneRefresh
  <2> QED
    BY <1>2, <2>2, <2>3 DEF Undisturbed, OneRefresh
<1>5. PresentedStaysValid'
  BY <1>1, <1>2 DEF Undisturbed, PresentedStaysValid
<1>6. CookieValid'
  BY <1>1, <1>2, <1>3 DEF Undisturbed, CookieValid
<1>7. CarriedValid'
  BY <1>1 DEF Undisturbed, CarriedValid, CookieValid
<1>8. NoConflict' /\ LeftIsOver'
  BY <1>1 DEF Undisturbed, NoConflict, LeftIsOver
<1> QED
  BY <1>4, <1>5, <1>6, <1>7, <1>8 DEF Undisturbed

(* As long as a step disturbs nothing, it keeps what the browser counts on.*)
LEMMA UndisturbedStep ==
  ASSUME TokenInv, TokenInv', BrowserInv, [SignInNext]_allVars,
         scene'.pages # {}, ~ disturbed'
  PROVE  Undisturbed'
<1>1. Typed
  BY TypesHold
<1>2. scene' = scene
  BY DEF SignInNext, UserStep, FlightStep, CallStep, Network, Strangers, ServiceStep,
         OpenPage, ClosePage, LogIn, Expire, SendCall, RefreshAnswered,
         RefreshRefused, UserLoaded, UserNotLoaded, Unauthorized, CallAnswered,
         CallFails, LoseAnswer, SignedOut, SignedOutUnheard, Acts, allVars,
         signInVars
<1>3. scene.refreshes \subseteq Requests
  BY SignInAssumption DEF BrowserInv, SignInTypeOK
<1>4. ~ disturbed => Undisturbed
  BY <1>2 DEF BrowserInv
<1> USE DEF Leaving, Posting
<1>5. ASSUME NEW p \in Pages, OpenPage(p) PROVE Undisturbed'
  <2>1. ~ disturbed
    BY <1>5 DEF OpenPage, TryRefresh, Post
  <2> QED
    BY <1>1, <1>3, <1>4, <1>5, <2>1, RefreshUndisturbed DEF OpenPage
<1>6. ASSUME NEW p \in Pages, ClosePage(p) PROVE Undisturbed'
  <2>1. ~ disturbed /\ flight[p] # "posting"
    BY <1>6 DEF ClosePage
  <2> QED
    BY <1>1, <1>4, <1>6, <2>1, PageUndisturbed DEF ClosePage, Typed
<1>7. ASSUME NEW p \in Pages, LogIn(p) PROVE Undisturbed'
  <2>1. PICK t \in Tokens : Login(t) /\ jar' = t
    BY <1>7 DEF LogIn
  <2>2. /\ Undisturbed /\ UNCHANGED <<flight, asked, calls, carried, left>>
    BY <1>4, <1>7 DEF LogIn
  <2>3. /\ row[t] = "none" /\ UNCHANGED <<pc, token, child>>
        /\ row'[t] = "live" /\ family'[t] = t
        /\ \A u \in Tokens \ {t} : row'[u] = row[u] /\ family'[u] = family[u]
    BY <1>1, <2>1 DEF Login, request, Typed
  <2>4. OneRefresh' /\ NoConflict'
    BY <2>2, <2>3 DEF Undisturbed, OneRefresh, NoConflict, Underway
  <2>5. PresentedStaysValid' /\ CookieValid'
    <3>1. \A u \in Tokens : row[u] = "live" => row'[u] = "live"
      BY <2>3
    <3>2. \A r \in Requests : /\ pc[r] # "idle" => token[r] \in Tokens
                              /\ pc[r] = "done" => child[r] \in Tokens
      BY DEF TokenInv, TypeOK, BrowserInv, Grounded
    <3> QED
      BY <1>1, <2>1, <2>2, <2>3, <3>1, <3>2
      DEF Undisturbed, PresentedStaysValid, CookieValid, Typed
  <2>6. CarriedValid'
    BY <1>1, <2>2, <2>3 DEF Undisturbed, CarriedValid, Typed
  <2>7. LeftIsOver'
    <3>1. \A l \in left : l # t /\ family[l] # t /\ l \in Tokens
      BY <1>1, <2>3 DEF Typed, TokenInv, LineageRevoked, HandedOut
    <3> QED
      BY <2>2, <2>3, <3>1 DEF Undisturbed, LeftIsOver
  <2> QED
    BY <2>4, <2>5, <2>6, <2>7 DEF Undisturbed
<1>8. ASSUME NEW p \in Pages, Expire(p) PROVE Undisturbed'
  <2>1. \A q \in Pages : Leaving(q)' => Leaving(q)
    BY <1>1, <1>8 DEF Expire, Typed
  <2> QED
    BY <1>1, <1>4, <1>8, <2>1, PageUndisturbed DEF Expire, Typed
<1>9. ASSUME NEW p \in Pages, NEW k \in Calls, SendCall(p, k) PROVE Undisturbed'
  <2>1. /\ ~ disturbed /\ (k = SignOut => Posting = {})
        /\ UNCHANGED <<vars, jar, left, flight, asked>>
    BY <1>9 DEF SendCall, Refreshing, Elsewhere
  <2>2. ASSUME NEW q \in Pages, Leaving(q)'
        PROVE  \/ Leaving(q) /\ carried'[q] = carried[q]
               \/ Posting = {} /\ jar # NoToken /\ carried'[q] = jar
    <3>1. CASE k # SignOut
      BY <1>1, <1>9, <2>2, <3>1 DEF SendCall, Typed
    <3>2. CASE k = SignOut /\ q # p
      BY <1>1, <1>9, <2>2, <3>2 DEF SendCall, Typed
    <3>3. CASE k = SignOut /\ q = p
      BY <1>1, <1>9, <2>1, <2>2, <3>3 DEF SendCall, Accepted, Typed
    <3> QED
      BY <3>1, <3>2, <3>3
  <2> QED
    BY <1>1, <1>4, <2>1, <2>2, PageUndisturbed
<1>10. ASSUME NEW p \in Pages, RefreshRefused(p) \/ UserNotLoaded(p) PROVE Undisturbed'
  <2>1. /\ ~ disturbed /\ Undisturbed /\ UNCHANGED <<vars, jar, left, asked, carried>>
    BY <1>4, <1>10 DEF RefreshRefused, UserNotLoaded
  <2>2. \A q \in Pages : Leaving(q)' => Leaving(q)
    BY <1>1, <1>10 DEF RefreshRefused, UserNotLoaded, RefreshFails, Typed
  <2>3. \A q \in Pages : flight'[q] = flight[q] \/ (q = p /\ flight'[q] # "posting")
    <3>1. \/ flight' = [flight EXCEPT ![p] = "none"]
          \/ flight' = [flight EXCEPT ![p] = "stuckPost"]
          \/ flight' = [flight EXCEPT ![p] = "stuckMe"]
      BY <1>10 DEF RefreshRefused, UserNotLoaded, RefreshFails
    <3> QED
      BY <1>1, <3>1 DEF Typed
  <2>4. flight[p] = "posting" /\ asked[p] # NoRequest => pc[asked[p]] = "rejected"
    BY <1>1, <1>10, <2>1
    DEF RefreshRefused, UserNotLoaded, Outcome, Undisturbed, NoConflict, Typed
  <2> QED
    BY <1>1, <2>1, <2>2, <2>3, <2>4, PageUndisturbed
<1>11. ASSUME NEW p \in Pages, UserLoaded(p) PROVE Undisturbed'
  <2>1. /\ ~ disturbed /\ UNCHANGED <<vars, jar, left, asked>>
        /\ calls[p][SignOut] = "waiting" => ~ Elsewhere(p)
        /\ flight[p] = "me" /\ flight' = [flight EXCEPT ![p] = "none"]
    BY <1>11 DEF UserLoaded
  <2>2. calls[p][SignOut] = "waiting" => Posting = {}
    BY <2>1 DEF Elsewhere
  <2>3. ASSUME NEW q \in Pages, Leaving(q)'
        PROVE  \/ Leaving(q) /\ carried'[q] = carried[q]
               \/ Posting = {} /\ jar # NoToken /\ carried'[q] = jar
    BY <1>1, <1>11, <2>2, <2>3 DEF UserLoaded, Accepted, Typed
  <2> QED
    BY <1>1, <1>4, <2>1, <2>3, PageUndisturbed DEF Typed
<1>12. ASSUME NEW p \in Pages, NEW k \in Calls, Unauthorized(p, k)
       PROVE  Undisturbed'
  <2>1. ~ disturbed
    BY <1>12 DEF Unauthorized, TryRefresh, Post
  <2>2. \A q \in Pages : Leaving(q)' <=> Leaving(q)
    BY <1>1, <1>12 DEF Unauthorized, Typed
  <2> QED
    BY <1>1, <1>3, <1>4, <1>12, <2>1, <2>2, RefreshUndisturbed DEF Unauthorized
<1>13. ASSUME NEW p \in Pages, NEW k \in Calls,
              CallAnswered(p, k) \/ CallFails(p, k)
       PROVE  Undisturbed'
  <2>1. /\ End(p, k)
        /\ UNCHANGED <<vars, scene, acts, jar, flight, asked, carried, disturbed, left>>
    BY <1>13 DEF CallAnswered, CallFails
  <2>2. \A q \in Pages : Leaving(q)' => Leaving(q)
    BY <1>1, <2>1 DEF End, Typed
  <2> QED
    BY <1>1, <1>4, <2>1, <2>2, PageUndisturbed
<1>14. ASSUME NEW p \in Pages, SignedOut(p) PROVE Undisturbed'
  <2>1. ~ disturbed
    BY <1>14 DEF SignedOut
  <2> QED
    BY <1>1, <1>4, <1>14, <2>1, SignOutUndisturbed
<1>15. ASSUME NEW p \in Pages, RefreshAnswered(p) PROVE Undisturbed'
  <2>1. /\ ~ disturbed /\ Undisturbed /\ flight[p] = "posting" /\ asked[p] # NoRequest
        /\ pc[asked[p]] = "done" /\ jar' = child[asked[p]]
        /\ flight' = [flight EXCEPT ![p] = "me"]
        /\ UNCHANGED <<asked, calls, carried, left>>
        /\ UNCHANGED <<row, family, pc, token, child>>
    BY <1>4, <1>15 DEF RefreshAnswered, Outcome, vars
  <2>2. Posting' = {}
    BY <1>1, <2>1 DEF Undisturbed, OneRefresh, Typed
  <2>3. row[jar'] = "live"
    BY <2>1 DEF Undisturbed, PresentedStaysValid
  <2>4. OneRefresh'
    <3>1. \A r \in Requests : ~ Underway(r)
      BY <2>1 DEF Undisturbed, OneRefresh, Underway, Ended
    <3> QED
      BY <2>1, <2>2, <3>1 DEF OneRefresh, Underway
  <2>5. PresentedStaysValid' /\ CookieValid' /\ CarriedValid' /\ NoConflict'
        /\ LeftIsOver'
    BY <2>1, <2>2, <2>3
    DEF Undisturbed, PresentedStaysValid, CookieValid, CarriedValid, NoConflict,
        LeftIsOver
  <2> QED
    BY <2>4, <2>5 DEF Undisturbed
<1>16. ASSUME NEW p \in Pages, LoseAnswer(p) \/ SignedOutUnheard(p)
       PROVE  Undisturbed'
  BY <1>16 DEF LoseAnswer, SignedOutUnheard
<1>17. ASSUME NEW r \in Requests, ServiceStep(r) \/ (Abort(r) /\ UNCHANGED signInVars)
       PROVE  Undisturbed'
  <2>1. ~ disturbed /\ UNCHANGED signInVars
    BY <1>17 DEF ServiceStep, signInVars
  <2> QED
    BY <1>1, <1>4, <1>17, <2>1, ServiceUndisturbed DEF ServiceStep
<1>18. CASE Strangers
  BY <1>2, <1>18 DEF Strangers
<1>19. CASE UNCHANGED allVars
  <2>1. ~ disturbed /\ UNCHANGED <<vars, jar, left, flight, asked, calls, carried>>
    BY <1>19 DEF allVars, signInVars, storeVars
  <2> QED
    BY <1>1, <1>4, <2>1, PageUndisturbed
<1> QED
  BY <1>5, <1>6, <1>7, <1>8, <1>9, <1>10, <1>11, <1>12, <1>13, <1>14, <1>15,
     <1>16, <1>17, <1>18, <1>19
  DEF SignInNext, UserStep, FlightStep, CallStep, Network
-----------------------------------------------------------------------------
(* Every behaviour of the signed-in browser is, for the service, one of    *)
(* RefreshTokens: what is proved there holds here.                         *)
THEOREM BrowserInvAlways == SignInSpec => [](TokenInv /\ BrowserInv)
<1>1. SignInInit => TokenInv /\ BrowserInv
  BY BrowserInvInit, TokenInvInit DEF SignInInit
<1>2. TokenInv /\ BrowserInv /\ [SignInNext]_allVars => (TokenInv /\ BrowserInv)'
  <2> SUFFICES ASSUME TokenInv, BrowserInv, [SignInNext]_allVars
               PROVE  (TokenInv /\ BrowserInv)'
    OBVIOUS
  <2>1. TokenInv'
    BY ServiceStepsOnly, TokenInvStep DEF BrowserInv
  <2> QED
    BY <2>1, TypeStep, GroundedStep, UndisturbedStep DEF BrowserInv
<1> QED
  BY <1>1, <1>2, PTL DEF SignInSpec

THEOREM BrowserRefinesService == SignInSpec => Spec
<1>1. SignInInit => Init
  BY DEF SignInInit
<1>2. TokenInv /\ BrowserInv /\ [SignInNext]_allVars => [Next]_vars
  BY ServiceStepsOnly DEF BrowserInv
<1> QED
  BY <1>1, <1>2, BrowserInvAlways, PTL DEF SignInSpec, Spec

(* Browser and service keep their types, for any number of pages, calls,   *)
(* requests and tokens.                                                    *)
THEOREM SignInTypeCorrect == SignInSpec => []SignInTypeOK
<1>1. BrowserInv => SignInTypeOK
  BY DEF BrowserInv
<1> QED
  BY <1>1, BrowserInvAlways, PTL

(* A family has one valid token at most also when browsers are in play.    *)
THEOREM OneValidInBrowser == SignInSpec => []OneValidPerFamily
<1>1. TokenInv => OneValidPerFamily
  BY DEF TokenInv
<1> QED
  BY <1>1, BrowserInvAlways, PTL

(* No browser is logged out by its own doing.                              *)
THEOREM OwnCookieSafe == SignInSpec => []OwnCookieIsNoReuse
<1>1. BrowserInv => OwnCookieIsNoReuse
  BY DEF BrowserInv, Undisturbed, NoConflict, OwnCookieIsNoReuse
<1> QED
  BY <1>1, BrowserInvAlways, PTL

(* A sign-out that overlaps no refresh ends its session for good.          *)
THEOREM SignOutFinal == SignInSpec => []SignOutEndsFamily
<1>1. BrowserInv => SignOutEndsFamily
  BY DEF BrowserInv, Grounded, Undisturbed, LeftIsOver, SignOutEndsFamily
<1> QED
  BY <1>1, BrowserInvAlways, PTL
=============================================================================
