SPECIFICATION FairBenchSpec
CONSTANTS
  c1 = c1
  t1 = t1
  b1 = b1
  file = file
  outside = outside
  new = new
  huge = huge
  make = make
  Chats = {c1, c2}
  c2 = c2
  ollama = ollama
  codex = codex
  Tasks = {t1}
  Browsers = {b1, b2}
  e1 = e1
  Ides = {e1}
  Asked <- MCAsked
  b2 = b2
  Callers <- MCCallers
  Crews <- MCCrews
  Paths = {file, outside}
  Escaping = {outside}
  Contents = {new, huge}
  Oversized = {huge}
  Absent = Absent
  Empty = Empty
  Torn = Torn
  Commands = {make}
  Allowlist = {make}
  NoCommand = NoCommand
  Ollama = ollama
  Codex = codex
  Providers = {ollama, codex}
  ProviderOf <- MCProviderOf
  FailureThreshold = 1
  MaxAttempts = 2
  Prose = Prose
  Data = Data
  Malformed = Malformed
  ToolCalls <- MCToolCalls
  MaxRounds = 2
  MaxPieces = 2
  MaxTurns = 2
  MaxRetries = 1
  MaxReply = 2
  NoTab = NoTab
INVARIANT BenchTypeOK
INVARIANT ShownOrRun
INVARIANT EveryWriteTold
INVARIANT ToldWritesLanded
INVARIANT ExitTellsOutcome
INVARIANT SavedReachedDisk
INVARIANT AnsweredWritesLanded
PROPERTY NobodyWaitsForever
CHECK_DEADLOCK FALSE
