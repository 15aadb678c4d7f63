SPECIFICATION Spec
CONSTANTS
  Writers = {w1, w2}
  Files = {f1}
  Messages = {m1}
  w1 = w1
  w2 = w2
  f1 = f1
  m1 = m1
  NoRow = NoRow
  MaxPerMessage = 1
  MaxPerSession = 3
INVARIANT QuotaHolds
CHECK_DEADLOCK FALSE
