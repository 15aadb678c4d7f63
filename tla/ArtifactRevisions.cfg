SPECIFICATION FairSpec
CONSTANTS
  Writers = {w1, w2, w3, w4}
  Files = {f1, f2}
  Messages = {m1}
  w1 = w1
  w2 = w2
  w3 = w3
  w4 = w4
  f1 = f1
  f2 = f2
  m1 = m1
  NoRow = NoRow
  MaxPerMessage = 3
  MaxPerSession = 3
INVARIANT TypeOK
INVARIANT RevisionsContiguous
INVARIANT QuotaRefusalJustified
INVARIANT RetryMeansProgress
PROPERTY ImplementsLog
PROPERTY EveryCallEnds
CHECK_DEADLOCK FALSE
