SPECIFICATION OfficeSpec
CONSTANTS
  r1 = r1
  r2 = r2
  Requests = {r1, r2}
  a = a
  b = b
  c = c
  Users = {a, b, c}
  Permissions <- MCPermissions
  Choices <- MCChoices
  Bootstrapped = {b}
  Tables <- MCTables
  j1 = j1
  j2 = j2
  Jobs = {j1, j2}
  f1 = f1
  f2 = f2
  f3 = f3
  blank = blank
  Facts = {f1, f2, f3, blank}
  Unfit = {blank}
  Answers <- MCAnswers
  MaxFacts = 2
  MaxNotes = 2
  MaxErasures = 1
INVARIANT OfficeTypeOK
INVARIANT AdminRemains
INVARIANT PlainUsersHoldNothing
INVARIANT NewestNotesKept
CHECK_DEADLOCK FALSE
