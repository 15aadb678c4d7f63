SPECIFICATION Spec
CONSTANTS
  Requests = {r1, r2, r3}
  Tokens = {t1, t2, t3, t4}
  r1 = r1
  r2 = r2
  r3 = r3
  t1 = t1
  t2 = t2
  t3 = t3
  t4 = t4
  NoToken = NoToken
SYMMETRY Symmetry
INVARIANT ReuseEndsFamily
CHECK_DEADLOCK FALSE
