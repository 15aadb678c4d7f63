SPECIFICATION FairSpec
CONSTANTS
  Sends = {h1, h2}
  Sessions = {s1}
  h1 = h1
  h2 = h2
  s1 = s1
  NoSession = NoSession
  MaxRestarts = 1
INVARIANT TypeOK
INVARIANT LiveStreamIsStoppable
INVARIANT RowFollowsHandler
PROPERTY ImplementsLifecycle
PROPERTY EveryReplySettles
CHECK_DEADLOCK FALSE
