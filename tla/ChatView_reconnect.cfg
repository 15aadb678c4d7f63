SPECIFICATION Spec
CONSTANTS
  Messages = {m1}
  Sessions = {s1, s2}
  m1 = m1
  s1 = s1
  s2 = s2
  NoSession = NoSession
  MaxTokens = 1
  MaxLoads = 1
  MaxDrops = 1
SYMMETRY Symmetry
PROPERTY ReconnectRejoins
CHECK_DEADLOCK FALSE
