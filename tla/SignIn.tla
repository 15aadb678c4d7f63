------------------------------- MODULE SignIn -------------------------------
(***************************************************************************)
(* A browser that is signed in: the pages open in it share one refresh     *)
(* cookie, each keeps an access token of its own in memory.  AuthStore     *)
(* renews it, the HTTP interceptor sends what was refused with 401 once    *)
(* more, AuthController sets and clears the cookie; RefreshTokens says     *)
(* what the service does with the token in it.                             *)
(*                                                                         *)
(* What is left out: the socket, which follows the access token, and the   *)
(* user's name and rights in the store.                                    *)
(***************************************************************************)
EXTENDS RefreshTokens, Naturals

CONSTANTS Pages,     \* pages of the browser
          Calls,     \* what a page may ask of the API at once
          SignOut,   \* the one that is POST /auth/logout
          NoRequest,
          Scenes     \* bound: the pages there are (none: tokens are presented
                     \* from anywhere), the refreshes they may make, and how
                     \* much the user does

ASSUME SignInAssumption ==
  /\ SignOut \in Calls /\ NoRequest \notin Requests
  /\ Scenes \subseteq [pages : SUBSET Pages, refreshes : SUBSET Requests,
                       actions : Nat]

VARIABLES
  scene, acts, \* bound: the scene, what the user did in it
  jar,         \* the refresh cookie
  access,      \* accessToken of each page, or "closed" for the page
  flight,      \* inFlightRefresh: null or where doRefresh is
  asked,       \* the request it made, none if it was not let through
  calls,       \* where each call is
  carried,     \* the cookie a page's sign-out carries
  disturbed,   \* history: refreshes overlapped, or with a sign-out, or an
               \* answer was lost
  left         \* history: the cookies that were signed out

storeVars  == <<access, flight, asked, calls, carried>>
signInVars == <<scene, acts, jar, storeVars, disturbed, left>>
allVars    == <<vars, signInVars>>

Access == {"closed", "none", "fresh", "stale"}

(* "posting" awaits POST /auth/refresh, "me" GET /users/me with a token    *)
(* that is valid, "lateMe" with one that expired; the others wait for the  *)
(* promise they would settle.                                              *)
Flight == {"none", "posting", "me", "lateMe", "stuckPost", "stuckMe"}

(* A call is under way with a valid credential ("sent") or without one     *)
(* ("late"), waits for a refresh, and is then sent again.                  *)
InFlight == {"sent", "late", "waiting", "again", "lateAgain"}
Call     == InFlight \cup {"idle"}

SignInInit == /\ Init
              /\ scene \in Scenes /\ acts = 0
              /\ jar = NoToken
              /\ access = [p \in Pages |-> "closed"]
              /\ flight = [p \in Pages |-> "none"]
              /\ asked = [p \in Pages |-> NoRequest]
              /\ calls = [p \in Pages |-> [k \in Calls |-> "idle"]]
              /\ carried = [p \in Pages |-> NoToken]
              /\ disturbed = FALSE /\ left = {}

Acts == acts < scene.actions /\ acts' = acts + 1 /\ UNCHANGED scene
IsOpen(p) == p \in scene.pages /\ access[p] # "closed"

-----------------------------------------------------------------------------
(* What overlaps: requests at the service that are not this page's, and    *)
(* sign-outs.                                                              *)
Underway(r)   == pc[r] \notin Ended \cup {"idle"}
Elsewhere(p)  == \/ \E r \in Requests \ {asked[p]} : Underway(r)
                 \/ \E q \in Pages \ {p} : flight[q] = "posting"
SigningOut    == \E q \in Pages : calls[q][SignOut] \in {"sent", "again"}
Refreshing(p) == Elsewhere(p) \/ flight[p] = "posting"

(* doRefresh posts with the cookie.  Without one, over the throttle's      *)
(* limit or without a network the service hears nothing of it.             *)
Post(p) ==
  /\ flight' = [flight EXCEPT ![p] = "posting"]
  /\ disturbed' = (disturbed \/ Elsewhere(p) \/ SigningOut)
  /\ \/ \E r \in scene.refreshes : /\ jar # NoToken /\ Present(r, jar)
                                   /\ asked' = [asked EXCEPT ![p] = r]
     \/ asked' = [asked EXCEPT ![p] = NoRequest] /\ UNCHANGED vars

(* Mutation: every caller of tryRefresh makes a refresh of its own.        *)
NeverJoins(p) == flight[p] \in {"stuckPost", "stuckMe"}

(* tryRefresh: callers share the attempt that is in flight.                *)
Joins(p) == flight[p] # "none"

TryRefresh(p) == IF Joins(p) THEN UNCHANGED <<flight, asked, disturbed, vars>>
                             ELSE Post(p)

(* Mutation: the refresh itself goes through the interceptor's refresh.    *)
AuthEndpointsShort == {"login", "register"}

(* The interceptor lets these fail; any other 401 makes it refresh.        *)
AuthEndpoints == {"login", "register", "refresh"}
Intercepted(url) == url \notin AuthEndpoints

(* What a call carries: the access token, or for the sign-out the cookie.  *)
Accepted(p, k) == IF k = SignOut THEN jar # NoToken ELSE access[p] = "fresh"

(* doRefresh fails: its callers get their 401, and a sign-out among them   *)
(* clears what is cleared anyway.                                          *)
RefreshFails(p) ==
  /\ access' = [access EXCEPT ![p] = "none"]
  /\ flight' = [flight EXCEPT ![p] = "none"]
  /\ calls' = [calls EXCEPT ![p] = [k \in Calls |->
                 IF @[k] = "waiting" THEN "idle" ELSE @[k]]]

-----------------------------------------------------------------------------
(* The user opens a page (the app's initializer refreshes), closes or      *)
(* leaves it, logs in, and does things that call the API.                  *)
OpenPage(p) == /\ Acts
               /\ p \in scene.pages /\ access[p] = "closed"
               /\ access' = [access EXCEPT ![p] = "none"]
               /\ TryRefresh(p)
               /\ UNCHANGED <<jar, calls, carried, left>>

ClosePage(p) ==
  /\ Acts
  /\ IsOpen(p)
  /\ access' = [access EXCEPT ![p] = "closed"]
  /\ flight' = [flight EXCEPT ![p] = "none"]
  /\ asked' = [asked EXCEPT ![p] = NoRequest]
  /\ calls' = [calls EXCEPT ![p] = [k \in Calls |-> "idle"]]
  /\ disturbed' = (disturbed \/ flight[p] = "posting")
  /\ UNCHANGED <<vars, jar, carried, left>>

LogIn(p) == /\ Acts
            /\ access[p] = "none" /\ p \in scene.pages
            /\ \E t \in Tokens : Login(t) /\ jar' = t
            /\ access' = [access EXCEPT ![p] = "fresh"]
            /\ UNCHANGED <<flight, asked, calls, carried, disturbed, left>>

SendCall(p, k) ==
  /\ Acts
  /\ IsOpen(p) /\ calls[p][k] = "idle"
  /\ calls' = [calls EXCEPT ![p][k] = IF Accepted(p, k) THEN "sent"
                                                        ELSE "late"]
  /\ carried' = IF k = SignOut THEN [carried EXCEPT ![p] = jar] ELSE carried
  /\ disturbed' = (disturbed \/ (k = SignOut /\ Refreshing(p)))
  /\ UNCHANGED <<vars, jar, access, flight, asked, left>>

(* The access token runs out, for what is under way with it too.           *)
Late == [state \in Call |-> CASE state = "sent"  -> "late"
                              [] state = "again" -> "lateAgain"
                              [] OTHER           -> state]

Expire(p) ==
  /\ access[p] = "fresh"
  /\ access' = [access EXCEPT ![p] = "stale"]
  /\ flight' = [flight EXCEPT ![p] = IF @ = "me" THEN "lateMe" ELSE @]
  /\ calls' = [calls EXCEPT ![p] = [k \in Calls |->
                 IF k = SignOut THEN @[k] ELSE Late[@[k]]]]
  /\ UNCHANGED <<vars, scene, acts, jar, asked, carried, disturbed, left>>

-----------------------------------------------------------------------------
Outcome(p) == IF asked[p] = NoRequest THEN "rejected" ELSE pc[asked[p]]

(* The refresh is answered with a new cookie and a new access token, and   *)
(* the user is loaded ...                                                  *)
RefreshAnswered(p) ==
  /\ flight[p] = "posting" /\ Outcome(p) = "done"
  /\ jar' = child[asked[p]]
  /\ access' = [access EXCEPT ![p] = "fresh"]
  /\ flight' = [flight EXCEPT ![p] = "me"]
  /\ UNCHANGED <<vars, scene, acts, asked, calls, carried, disturbed, left>>

(* ... or refused ...                                                      *)
RefreshRefused(p) ==
  /\ flight[p] = "posting" /\ Outcome(p) \in {"rejected", "reuse"}
  /\ IF Intercepted("refresh")
     THEN /\ flight' = [flight EXCEPT ![p] = "stuckPost"]
          /\ UNCHANGED <<access, calls>>
     ELSE RefreshFails(p)
  /\ UNCHANGED <<vars, scene, acts, jar, asked, carried, disturbed, left>>

(* ... or its answer is lost, whatever it was.                             *)
LoseAnswer(p) ==
  /\ flight[p] = "posting" /\ asked[p] # NoRequest
  /\ RefreshFails(p)
  /\ disturbed' = TRUE
  /\ UNCHANGED <<vars, scene, acts, jar, asked, carried, left>>

(* loadCurrentUser: its answer settles the refresh, and what waited for it *)
(* is sent again; an error fails it; a 401 waits for it.                   *)
UserLoaded(p) ==
  /\ flight[p] = "me"
  /\ flight' = [flight EXCEPT ![p] = "none"]
  /\ calls' = [calls EXCEPT ![p] = [k \in Calls |->
                 IF @[k] # "waiting" THEN @[k]
                 ELSE IF Accepted(p, k) THEN "again" ELSE "lateAgain"]]
  /\ carried' = IF calls[p][SignOut] = "waiting"
                THEN [carried EXCEPT ![p] = jar] ELSE carried
  /\ disturbed' = (disturbed \/ (calls[p][SignOut] = "waiting"
                                   /\ Elsewhere(p)))
  /\ UNCHANGED <<vars, scene, acts, jar, access, asked, left>>

UserNotLoaded(p) ==
  /\ flight[p] \in {"me", "lateMe"}
  /\ IF flight[p] = "lateMe" /\ Intercepted("me")
     THEN /\ flight' = [flight EXCEPT ![p] = "stuckMe"]
          /\ UNCHANGED <<access, calls>>
     ELSE RefreshFails(p)
  /\ UNCHANGED <<vars, scene, acts, jar, asked, carried, disturbed, left>>

FlightStep(p) == \/ RefreshAnswered(p) \/ RefreshRefused(p)
                 \/ UserLoaded(p) \/ UserNotLoaded(p)

(* A 401: the interceptor refreshes, or joins the refresh in flight.       *)
Unauthorized(p, k) ==
  /\ calls[p][k] = "late"
  /\ calls' = [calls EXCEPT ![p][k] = "waiting"]
  /\ TryRefresh(p)
  /\ UNCHANGED <<scene, acts, jar, access, carried, left>>

(* The end of a call; whatever its answer, a sign-out clears the store.    *)
End(p, k) ==
  /\ calls' = [calls EXCEPT ![p][k] = "idle"]
  /\ access' = IF k = SignOut THEN [access EXCEPT ![p] = "none"] ELSE access

(* A second 401 is passed on.                                              *)
CallAnswered(p, k) ==
  /\ \/ k # SignOut /\ calls[p][k] \in {"sent", "again"}
     \/ calls[p][k] = "lateAgain"
  /\ End(p, k)
  /\ UNCHANGED <<vars, scene, acts, jar, flight, asked, carried, disturbed,
                 left>>

(* Any other error, or no network.                                         *)
CallFails(p, k) ==
  /\ calls[p][k] \in InFlight \ {"waiting"}
  /\ End(p, k)
  /\ UNCHANGED <<vars, scene, acts, jar, flight, asked, carried, disturbed,
                 left>>

(* Mutation: the cookie is cleared and its row forgotten.                  *)
RevokeNothing(t) == UNCHANGED vars

(* logout: the UPDATE hits the row of the cookie, if it is still valid.    *)
RevokeCookie(t) == IF row[t] = "live" THEN Logout(t) ELSE UNCHANGED vars

SignedOut(p) ==
  /\ calls[p][SignOut] \in {"sent", "again"}
  /\ RevokeCookie(carried[p])
  /\ jar' = NoToken
  /\ left' = left \cup {carried[p]}
  /\ End(p, SignOut)
  /\ UNCHANGED <<scene, acts, flight, asked, carried, disturbed>>

(* The answer to that is lost: the browser keeps a cookie that is revoked. *)
SignedOutUnheard(p) ==
  /\ calls[p][SignOut] \in {"sent", "again"}
  /\ RevokeCookie(carried[p])
  /\ End(p, SignOut)
  /\ disturbed' = TRUE
  /\ UNCHANGED <<scene, acts, jar, flight, asked, carried, left>>

CallStep(p, k) == \/ Unauthorized(p, k) \/ CallAnswered(p, k)
                  \/ k = SignOut /\ SignedOut(p)

-----------------------------------------------------------------------------
(* Tokens from anywhere, when no browser is looked at.                     *)
Strangers == /\ scene.pages = {}
             /\ \E t \in Tokens : \/ Login(t) \/ Logout(t)
                                  \/ \E r \in Requests : Present(r, t)
             /\ UNCHANGED signInVars

UserStep(p) == \/ OpenPage(p) \/ ClosePage(p) \/ LogIn(p) \/ Expire(p)
               \/ \E k \in Calls : SendCall(p, k)

Network(p) == \/ LoseAnswer(p) \/ SignedOutUnheard(p)
              \/ \E k \in Calls : CallFails(p, k)

ServiceStep(r) == Progress(r) /\ UNCHANGED signInVars

SignInNext == \/ \E p \in Pages : \/ UserStep(p) \/ FlightStep(p)
                                  \/ \E k \in Calls : CallStep(p, k)
                                  \/ Network(p)
              \/ \E r \in Requests : \/ ServiceStep(r)
                                     \/ Abort(r) /\ UNCHANGED signInVars
              \/ Strangers

SignInSpec == SignInInit /\ [][SignInNext]_allVars

(* The service carries every request on, and answers arrive or turn into   *)
(* errors.                                                                 *)
FairSignInSpec ==
  /\ SignInSpec
  /\ \A r \in Requests : WF_allVars(ServiceStep(r))
  /\ \A p \in Pages : /\ WF_allVars(FlightStep(p))
                      /\ \A k \in Calls : WF_allVars(CallStep(p, k))

-----------------------------------------------------------------------------
(* Service and browser keep their types; a cookie names a token that was   *)
(* handed out.                                                             *)
SignInTypeOK ==
  /\ TypeOK
  /\ scene \in Scenes /\ acts \in 0 .. scene.actions
  /\ jar \in Tokens \cup {NoToken} /\ (jar # NoToken => HandedOut(jar))
  /\ access \in [Pages -> Access] /\ flight \in [Pages -> Flight]
  /\ asked \in [Pages -> Requests \cup {NoRequest}]
  /\ calls \in [Pages -> [Calls -> Call]]
  /\ carried \in [Pages -> Tokens \cup {NoToken}]
  /\ disturbed \in BOOLEAN /\ left \subseteq Tokens

(* A browser is not logged out by its own doing: as long as no answer was  *)
(* lost and no refresh overlapped one of another page or a sign-out, none  *)
(* of its cookies is taken for a stolen one, however many calls are        *)
(* refused at once (auth.store.ts:66, the shared attempt).                 *)
OwnCookieIsNoReuse ==
  scene.pages # {} /\ ~disturbed =>
    \A r \in Requests : pc[r] \notin {"conflict", "revoking", "reuse"}

(* A sign-out that overlapped no refresh ends the session for good: no     *)
(* token of its family is valid afterwards, in the cookie or elsewhere     *)
(* (auth.controller.ts logout; the cookie's path has to reach it).         *)
SignOutEndsFamily ==
  ~disturbed => \A t \in left : \A u \in Tokens :
                  row[u] = "live" => family[u] # family[t]

(* Every call of a page comes back, also those that wait for a refresh,    *)
(* unless the user's data is refused to the refresh itself: then it waits  *)
(* for its own end and everybody for it (auth.store.ts doRefresh calls     *)
(* loadCurrentUser through the interceptor).                               *)
EveryCallAnswered ==
  \A p \in Pages, k \in Calls :
    calls[p][k] \in InFlight ~> \/ calls[p][k] \notin InFlight
                                \/ flight[p] = "stuckMe"
=============================================================================
