SPECIFICATION FairSpec
CONSTANTS
  Messages = {m1}
  Sessions = {s1, s2}
  m1 = m1
  s1 = s1
  s2 = s2
  NoSession = NoSession
  MaxTokens = 2
  MaxLoads = 2
  MaxDrops = 1
INVARIANT TypeOK
INVARIANT LoadingIsNewest
INVARIANT OnlyOwnRepliesBlock
INVARIANT WatchedTextIsExact
PROPERTY WatchedReplyEnds
PROPERTY LoadingEnds
CHECK_DEADLOCK FALSE
