SPECIFICATION Spec
CONSTANTS
  Sends = {h1, h2}
  Sessions = {s1}
  h1 = h1
  h2 = h2
  s1 = s1
  NoSession = NoSession
  MaxRestarts = 0
SYMMETRY Symmetry
INVARIANT OneStreamPerSession
CHECK_DEADLOCK FALSE
