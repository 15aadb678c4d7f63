SPECIFICATION FairSignInSpec
CONSTANTS
  Requests = {r1, r2, r3}
  Tokens = {t1, t2, t3}
  r1 = r1
  r2 = r2
  r3 = r3
  t1 = t1
  t2 = t2
  t3 = t3
  NoToken = NoToken
  p1 = p1
  p2 = p2
  get = get
  out = out
  Pages = {p1, p2}
  Calls = {get, out}
  SignOut = out
  NoRequest = NoRequest
  Scenes <- MCScenes
INVARIANT SignInTypeOK
INVARIANT OneValidPerFamily
INVARIANT OwnCookieIsNoReuse
INVARIANT SignOutEndsFamily
PROPERTY ImplementsFamilies
PROPERTY EveryRequestEnds
PROPERTY EveryCallAnswered
CHECK_DEADLOCK FALSE
